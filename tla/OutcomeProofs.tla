---------------------------- MODULE OutcomeProofs ----------------------------
(***************************************************************************)
(* Proofs about how journeys end: what a terminal session still holds, how *)
(* long it is kept, and that a completed one stays completed.  They rest   *)
(* on the freshness of redirects: while a request has released the claim   *)
(* and not yet answered, nobody can present the state of its redirect.     *)
(***************************************************************************)
EXTENDS ResumeFlowProofs

USE DEF sess, state

-----------------------------------------------------------------------------
\* What a terminal session holds

Scrubbed(c) ==
  Terminal(session[c]) /\ ~Attended(c) => session[c].handle = 0 /\ session[c].oauthState = 0

\* A lookup, a refusal or a view scrubs the session it expires.
LEMMA PeekScrubbed ==
  ASSUME StoreTypeOK, NEW c \in Corr, Scrubbed(c), Peeks(c), Attended(c)' <=> Attended(c)
  PROVE  Scrubbed(c)'
<1>1. CASE Expired(session[c]) /\ Expire(c)
  <2>1. session[c] \in Session  BY DEF StoreTypeOK
  <2>2. session'[c].handle = 0 /\ session'[c].oauthState = 0
    BY <1>1, <2>1, ExpiredSession, ExpireEffect
  <2> QED  BY <2>2 DEF Scrubbed
<1>2. CASE session' = session
  BY <1>2 DEF Scrubbed, Terminal
<1> QED  BY <1>1, <1>2, ExpireEffect DEF Peeks

LEMMA NextScrubbed == ClaimInv /\ SecretsScrubbed /\ [Next]_vars => SecretsScrubbed'
<1> SUFFICES ASSUME ClaimInv, SecretsScrubbed, [Next]_vars, NEW c \in Corr PROVE Scrubbed(c)'
  BY DEF SecretsScrubbed, Scrubbed, Attended
<1>1. TypeInv /\ TypeOK /\ StoreTypeOK /\ HandleHeld /\ Scrubbed(c)
  BY DEF ClaimInv, TypeInv, TypeOK, SecretsScrubbed, Scrubbed, Attended
<1>2. UNCHANGED <<token, pc>> => (Attended(c)' <=> Attended(c))
  BY DEF Attended
\* Another journey, or none, takes the step.
<1>3. ASSUME session'[c] = session[c], Attended(c)' <=> Attended(c) PROVE Scrubbed(c)'
  BY <1>1, <1>3 DEF Scrubbed, Terminal
<1>4. ASSUME NEW d \in Corr, Start(d) \/ BeginUpdate(d) PROVE Scrubbed(c)'
  <2>1. Others(d) /\ session'[d].status = "authorizing" /\ UNCHANGED <<token, pc>>
    BY <1>1, <1>4, StartEffect, NewEffect, BeginUpdateEffect DEF BeginUpdate, requestVars
  <2> QED  BY <1>2, <1>3, <2>1 DEF Others, Scrubbed, Terminal, TerminalStatus
<1>5. ASSUME NEW d \in Corr, BeginFails(d) PROVE Scrubbed(c)'
  BY <1>2, <1>3, <1>5 DEF BeginFails, requestVars
<1>6. ASSUME NEW d \in Corr, Poll(d) PROVE Scrubbed(c)'
  <2>1. Peeks(d) /\ UNCHANGED <<token, pc>>
    BY <1>6, PollEffect DEF requestVars
  <2>2. CASE d = c
    BY <1>1, <1>2, <2>1, <2>2, PeekScrubbed
  <2>3. CASE d # c
    BY <1>1, <1>2, <1>3, <2>1, <2>3, PeekEffect DEF Others
  <2> QED  BY <2>2, <2>3
<1>7. ASSUME NEW r \in Requests, RequestStep(r) PROVE Scrubbed(c)'
  <2>1. /\ sess(r) \in Corr /\ token' = token
        /\ \A q \in Requests \ {r} : pc'[q] = pc[q]
    BY <1>1, <1>7, TokenType, RequestFrame
  <2>2. CASE sess(r) # c
    <3>1. session'[c] = session[c] /\ (Attended(c)' <=> Attended(c))
      BY <1>1, <1>7, <2>1, <2>2, RequestFrame DEF Attended
    <3> QED  BY <1>3, <3>1
  <2>3. ASSUME sess(r) = c, pc'[r] \in Driving \cup {"restatus"} PROVE Scrubbed(c)'
    BY <2>1, <2>3 DEF Scrubbed, Attended
  <2>4. ASSUME sess(r) = c, Peeks(c),
               pc[r] \notin Driving \cup {"restatus"}, pc'[r] \notin Driving \cup {"restatus"}
        PROVE  Scrubbed(c)'
    <3>1. Attended(c)' <=> Attended(c)
      BY <2>1, <2>4 DEF Attended
    <3> QED  BY <1>1, <2>4, <3>1, PeekScrubbed
  <2>5. CASE sess(r) = c /\ Lookup(r)
    BY <1>1, <2>4, <2>5, LookupEffect DEF Moves, Driving
  <2>6. CASE sess(r) = c /\ Consume(r)
    BY <1>1, <2>3, <2>4, <2>6, ConsumeEffect DEF Moves, Driving
  <2>7. CASE sess(r) = c /\ DrivesOn(r)
    BY <1>1, <2>3, <2>7, DrivesOnEffect DEF Advancing, Ending, Moves, Driving
  <2>8. CASE sess(r) = c /\ Redirect(r)
    BY <1>1, <2>3, <2>8, RedirectEffect DEF Moves
  <2>9. CASE sess(r) = c /\ Restatus(r)
    BY <1>1, <2>9, RestatusStep DEF Scrubbed, Terminal, TerminalStatus
  <2>10. CASE sess(r) = c /\ FinalizeSession(r)
    BY <1>1, <2>10, FinalizeStep, FinalizeEffect DEF Scrubbed
  <2>11. CASE sess(r) = c /\ View(r)
    BY <1>1, <2>4, <2>11, ViewEffect DEF Moves, Driving
  <2> QED  BY <1>7, <2>2, <2>5, <2>6, <2>7, <2>8, <2>9, <2>10, <2>11 DEF RequestStep
<1>8. CASE Tick
  BY <1>2, <1>3, <1>8 DEF Tick, requestVars
<1>9. CASE UNCHANGED vars
  BY <1>2, <1>3, <1>9 DEF vars, requestVars
<1> QED  BY <1>4, <1>5, <1>6, <1>7, <1>8, <1>9, NextCases DEF RequestStep

\* Whichever of expiry and the driving request comes first, a terminal
\* session that nobody is about to write to holds neither the SDK handle nor
\* an OAuth state.
THEOREM SecretsAreScrubbed == Spec => []SecretsScrubbed
<1>1. Init => SecretsScrubbed
  <2>1. Init => \A c \in Corr : session[c].handle = 0 /\ session[c].oauthState = 0
    <3>1. Init => \A c \in Corr : session[c] = NilSession
      BY DEF Init, StoreInit
    <3>2. NilSession.handle = 0 /\ NilSession.oauthState = 0
      BY DEF NilSession
    <3> QED  BY <3>1, <3>2
  <2> QED  BY <2>1 DEF SecretsScrubbed
<1> QED  BY <1>1, InitClaim, NextClaimInv, NextScrubbed, PTL DEF Spec

-----------------------------------------------------------------------------
\* Redirects

\* The redirect that r has recorded and answers, or has answered; 0 if none.
Issued(r) == IF pc[r] = "restatus" THEN handle[r] ELSE result[r].url

\* No two requests issue the same redirect, and none issues the first one,
\* which is handleStart's.
Fresh ==
  /\ \A r \in Requests :
       /\ pc[r] \in Holding => handle[r] > 1
       /\ pc[r] \notin {"view", "answered"} => result[r].url = 0
       /\ Issued(r) # 1
       /\ Issued(r) <= Len(spent[sess(r)]) + 1
  /\ \A r, q \in Requests : sess(r) = sess(q) =>
       /\ pc[r] \in Holding \ {"restatus"} => Issued(q) <= Len(spent[sess(r)])
       /\ r # q /\ Issued(r) = Issued(q) => Issued(r) = 0

\* What a request does to the redirects issued.
LEMMA IssuedEffect ==
  ASSUME TypeInv, NEW r \in Requests, RequestStep(r)
  PROVE  /\ \A q \in Requests \ {r} : Issued(q)' = Issued(q) /\ result'[q] = result[q]
         /\ result'[r].url # 0 => pc'[r] \in {"view", "answered"} \/ result'[r].url = result[r].url
         /\ \/ Issued(r)' \in {Issued(r), 0}
            \/ Redirect(r) /\ Issued(r)' = handle[r]
<1>1. /\ TypeOK /\ HandleHeld /\ sess(r) \in Corr /\ result \in [Requests -> Result]
      /\ 0 \in 0..MaxStep
  BY TokenType, StoreAssumption DEF TypeInv, TypeOK, StoreAssumption
<1>2. \A q \in Requests \ {r} : pc'[q] = pc[q] /\ handle'[q] = handle[q]
  BY RequestFrame
\* An answer, and one without a redirect.
<1>2a. ASSUME NEW status \in Status, NEW url \in 0..MaxStep, NEW err \in Errors,
             Return(r, status, url, err)
      PROVE  result'[r].url = url /\ \A q \in Requests \ {r} : result'[q] = result[q]
  BY <1>1, <1>2a, ReturnType
<1>2b. ASSUME NEW status \in Status, NEW err \in Errors, Return(r, status, 0, err)
      PROVE  result'[r].url = 0 /\ \A q \in Requests \ {r} : result'[q] = result[q]
  BY <1>1, <1>2b, <1>2a
<1>2c. "" \in Status /\ {"unknown_state", "terminal", "resuming"} \subseteq Errors
  BY DEF Status, Errors
<1>3. SUFFICES /\ \A q \in Requests \ {r} : result'[q] = result[q]
               /\ result'[r].url # 0 => pc'[r] \in {"view", "answered"} \/ result'[r].url = result[r].url
               /\ \/ Issued(r)' \in {Issued(r), 0}
                  \/ Redirect(r) /\ Issued(r)' = handle[r]
  BY <1>2 DEF Issued
<1>4. CASE Lookup(r)
  <2>1. Return(r, "", 0, "unknown_state") =>
          result'[r].url = 0 /\ \A q \in Requests \ {r} : result'[q] = result[q]
    BY <1>2b, <1>2c
  <2> QED  BY <1>1, <1>4, <2>1, LookupEffect DEF Moves, Issued
<1>5. CASE Consume(r)
  <2>1. \A refusal \in {"terminal", "resuming"} : Return(r, "", 0, refusal) =>
          result'[r].url = 0 /\ \A q \in Requests \ {r} : result'[q] = result[q]
    BY <1>2b, <1>2c
  <2> QED  BY <1>1, <1>5, <2>1, ConsumeEffect DEF Moves, Issued
<1>6. CASE DrivesOn(r)
  <2>1. pc[r] # "restatus" /\ pc'[r] # "restatus"
    BY <1>1, <1>6, DrivesOnEffect DEF Driving, Advancing, Ending, Moves
  <2>2. Ending(r) => result'[r].url = 0 /\ \A q \in Requests \ {r} : result'[q] = result[q]
    BY <1>2b DEF Ending
  <2>3. Advancing(r) => result' = result
    BY DEF Advancing
  <2>4. Advancing(r) \/ Ending(r)
    BY <1>1, <1>6, DrivesOnEffect
  <2>5. /\ \A q \in Requests \ {r} : result'[q] = result[q]
        /\ result'[r].url # 0 => result'[r].url = result[r].url
    BY <2>2, <2>3, <2>4
  <2>6. /\ Issued(r)' = IF pc'[r] = "restatus" THEN handle'[r] ELSE result'[r].url
        /\ Issued(r) = IF pc[r] = "restatus" THEN handle[r] ELSE result[r].url
    BY DEF Issued
  <2> HIDE <1>6
  <2> QED  BY <2>1, <2>5, <2>6
<1>7. CASE Redirect(r)
  BY <1>1, <1>7, RedirectEffect DEF Moves, Issued
<1>8. CASE Restatus(r)
  <2>1. handle[r] \in 0..MaxStep  BY <1>1 DEF TypeOK
  <2>2. Return(r, "authorizing", handle[r], "")  BY <1>1, <1>8, RestatusStep
  <2>3. "authorizing" \in Status /\ "" \in Errors  BY DEF Status, Errors
  <2>5. result'[r].url = handle[r] /\ \A q \in Requests \ {r} : result'[q] = result[q]
    BY <2>1, <2>2, <2>3, <1>2a
  <2>6. pc[r] = "restatus" /\ pc'[r] = "view"
    BY <1>1, <1>8, RestatusStep DEF Moves
  <2>7. Issued(r)' = result'[r].url /\ Issued(r) = handle[r]
    BY <2>6 DEF Issued
  <2> QED  BY <2>5, <2>6, <2>7
<1>9. CASE FinalizeSession(r)
  BY <1>1, <1>9, FinalizeStep DEF Moves, Issued
<1>10. CASE View(r)
  BY <1>1, <1>10, ViewEffect DEF Moves, Issued
<1> QED  BY <1>4, <1>5, <1>6, <1>7, <1>8, <1>9, <1>10 DEF RequestStep

\* Handles in use only grow; a request that gets one gets the next.
LEMMA HeldEffect ==
  ASSUME ClaimInv, Ordered, NEW r \in Requests, RequestStep(r), NEW c \in Corr
  PROVE  /\ Len(spent[c]) \in Nat /\ Len(spent'[c]) \in Nat /\ Len(spent[c]) <= Len(spent'[c])
         /\ pc'[r] \in Holding =>
              \/ pc[r] \in Holding /\ handle'[r] = handle[r]
              \/ handle[r] \in Step /\ handle'[r] = handle[r] + 1
         /\ pc'[r] \in Holding \ {"restatus"} /\ sess(r) = c =>
              pc[r] \in Driving /\ Len(spent'[c]) = Len(spent[c]) + 1
<1>1. /\ TypeInv /\ TypeOK /\ spent[c] \in Seq(Step) /\ handle[r] \in 0..MaxStep
      /\ Len(spent[c]) \in Nat
  BY DEF ClaimInv, TypeInv, TypeOK
<1>2. Spending(r) /\ sess(r) = c => Len(spent'[c]) = Len(spent[c]) + 1
  BY <1>1 DEF Spending, TypeOK
<1>3. Spending(r) /\ sess(r) # c => spent'[c] = spent[c]
  BY <1>1 DEF Spending, TypeOK
<1>4. CASE DrivesOn(r)
  <2>1. CASE Advancing(r)
    <3>1. handle'[r] = handle[r] + 1 /\ handle[r] \in Step
      BY <1>1, <2>1 DEF Advancing, Spending, TypeOK
    <3>2. pc[r] \in Driving /\ Spending(r)
      BY <1>1, <1>4, <2>1, DrivesOnEffect DEF Advancing
    <3>3. Len(spent'[c]) = Len(spent[c]) + 1 \/ Len(spent'[c]) = Len(spent[c])
      BY <1>2, <1>3, <3>2
    <3> QED  BY <1>1, <1>2, <3>1, <3>2, <3>3
  <2>2. CASE Ending(r)
    BY <1>1, <1>2, <1>3, <2>2 DEF Ending, Moves, Holding
  <2> QED  BY <1>1, <1>4, <2>1, <2>2, DrivesOnEffect
<1>5. CASE ~DrivesOn(r)
  <2>1. spent' = spent
    BY <1>1, <1>5, LookupEffect, ConsumeEffect, RedirectEffect, RestatusStep, FinalizeStep,
       ViewEffect DEF RequestStep
  <2>2. pc'[r] \in Holding => Redirect(r)
    BY <1>1, <1>5, LookupEffect, ConsumeEffect, RestatusStep, FinalizeStep, ViewEffect
       DEF RequestStep, Moves, Holding
  <2>3. Redirect(r) => pc[r] \in Holding /\ pc'[r] = "restatus" /\ handle' = handle
    BY <1>1, RedirectEffect DEF Moves, Holding
  <2> QED  BY <1>1, <2>1, <2>2, <2>3
<1> QED  BY <1>4, <1>5

\* A request that is answered takes no step, and one at its view is answered.
LEMMA ViewedIsAnswered ==
  ASSUME TypeOK, NEW r \in Requests, RequestStep(r)
  PROVE  pc[r] # "answered" /\ (pc[r] = "view" => pc'[r] = "answered")
<1>1. pc[r] \notin {"view", "answered"} \/ View(r)
  BY LookupEffect, ConsumeEffect, DrivesOnEffect, RedirectEffect, RestatusStep, FinalizeStep
     DEF RequestStep, Driving
<1> QED  BY <1>1, ViewEffect DEF Moves

\* The steps of one request keep every redirect its own.
LEMMA RequestFresh ==
  ASSUME ClaimInv, Ordered, Fresh, NEW r \in Requests, RequestStep(r)
  PROVE  Fresh'
<1>1. /\ TypeInv /\ TypeOK /\ HandleHeld /\ sess(r) \in Corr /\ token' = token
      /\ \A q \in Requests \ {r} : pc'[q] = pc[q] /\ handle'[q] = handle[q]
      /\ \A q \in Requests : sess(q) \in Corr /\ handle[q] \in 0..MaxStep
  BY TokenType, RequestFrame DEF ClaimInv, TypeInv, TypeOK
<1>2. \A q \in Requests : result[q].url \in Nat /\ Issued(q) \in Nat
  BY <1>1 DEF TypeOK, Result, Issued
<1>3. \A c \in Corr : /\ Len(spent[c]) \in Nat /\ Len(spent'[c]) \in Nat
                      /\ Len(spent[c]) <= Len(spent'[c])
  BY HeldEffect
<1>4. /\ \A q \in Requests \ {r} : Issued(q)' = Issued(q) /\ result'[q] = result[q]
      /\ result'[r].url # 0 => pc'[r] \in {"view", "answered"} \/ result'[r].url = result[r].url
      /\ Issued(r)' \in {Issued(r), 0} \/ (Redirect(r) /\ Issued(r)' = handle[r])
  BY <1>1, IssuedEffect
\* The redirect that r issues, if it does, is the next of its journey.
<1>5. ASSUME Redirect(r)
      PROVE  /\ pc[r] = "redirect" /\ pc'[r] = "restatus"
             /\ handle[r] > 1 /\ handle[r] = Len(spent[sess(r)]) + 1
             /\ \A q \in Requests : sess(q) = sess(r) => Issued(q) <= Len(spent[sess(r)])
             /\ \A q \in Requests \ {r} : sess(q) = sess(r) => pc[q] \notin Driving
  <2>1. pc[r] = "redirect" /\ pc'[r] = "restatus"
    BY <1>1, <1>5, RedirectEffect DEF Moves
  <2>2. \A q \in Requests \ {r} : sess(q) = sess(r) => pc[q] \notin Driving
    BY <1>1, <2>1 DEF ClaimInv, ClaimExclusive, Drives, Driving
  <2> QED  BY <1>1, <2>1, <2>2 DEF Fresh, Ordered, OrderOf, Holding
<1>6. \A q \in Requests : pc'[q] \in Holding => handle'[q] > 1
  <2>1. pc'[r] \in Holding => \/ pc[r] \in Holding /\ handle'[r] = handle[r]
                              \/ handle[r] \in Step /\ handle'[r] = handle[r] + 1
    BY <1>1, HeldEffect
  <2>2. pc'[r] \in Holding => handle'[r] > 1
    BY <1>1, <2>1 DEF Fresh, Step
  <2> QED  BY <1>1, <2>2 DEF Fresh
<1>7. \A q \in Requests : pc'[q] \notin {"view", "answered"} => result'[q].url = 0
  <2>1. pc'[r] \notin {"view", "answered"} => pc[r] \notin {"view", "answered"}
    BY <1>1, ViewedIsAnswered
  <2> QED  BY <1>1, <1>4, <2>1 DEF Fresh
<1>8. \A q \in Requests : /\ Issued(q)' # 1
                          /\ Issued(q)' <= Len(spent'[sess(q)]) + 1
  <2>1. \A q \in Requests : /\ Issued(q) # 1
                            /\ Issued(q) <= Len(spent'[sess(q)]) + 1
    BY <1>1, <1>2, <1>3 DEF Fresh
  <2> QED  BY <1>1, <1>3, <1>4, <1>5, <2>1
<1>9. ASSUME NEW p \in Requests, NEW q \in Requests, sess(p) = sess(q)
      PROVE  /\ pc'[p] \in Holding \ {"restatus"} => Issued(q)' <= Len(spent'[sess(p)])
             /\ p # q /\ Issued(p)' = Issued(q)' => Issued(p)' = 0
  <2>1. CASE Redirect(r)
    <3>1. /\ \A i \in Requests \ {r} : Issued(i)' = Issued(i)
          /\ Issued(r)' \in {Issued(r), 0, handle[r]}
      BY <1>4
    <3>2. pc'[p] \in Holding \ {"restatus"} => sess(p) # sess(r) /\ pc[p] = pc'[p]
      BY <1>1, <1>5, <2>1 DEF Holding, Driving
    <3>3. pc'[p] \in Holding \ {"restatus"} => Issued(q)' <= Len(spent'[sess(p)])
      <4>1. SUFFICES ASSUME pc'[p] \in Holding \ {"restatus"}
                     PROVE  Issued(q)' <= Len(spent'[sess(p)])
        OBVIOUS
      <4>2. q # r /\ pc[p] \in Holding \ {"restatus"}
        BY <1>9, <3>2, <4>1
      <4>3. Issued(q)' = Issued(q)
        BY <3>1, <4>2
      <4>4. Issued(q) <= Len(spent[sess(p)])
        BY <1>9, <4>2 DEF Fresh
      <4> QED  BY <1>1, <1>2, <1>3, <4>3, <4>4
    <3>4. p # q /\ Issued(p)' = Issued(q)' => Issued(p)' = 0
      BY <1>1, <1>2, <1>3, <1>5, <1>9, <2>1, <3>1 DEF Fresh
    <3> QED  BY <3>3, <3>4
  <2>2. CASE ~Redirect(r)
    <3>1. \A i \in Requests : Issued(i)' \in {Issued(i), 0}
      BY <1>4, <2>2
    <3>2. pc'[p] \in Holding \ {"restatus"} => Issued(q)' <= Len(spent'[sess(p)])
      <4>1. CASE p = r
        <5>1. pc'[r] \in Holding \ {"restatus"} =>
                Len(spent'[sess(r)]) = Len(spent[sess(r)]) + 1
          BY <1>1, HeldEffect
        <5>2. Issued(q) <= Len(spent[sess(q)]) + 1
          BY DEF Fresh
        <5>3. /\ sess(r) = sess(q) /\ Issued(q)' \in {Issued(q), 0} /\ Issued(q) \in Nat
              /\ Len(spent[sess(q)]) \in Nat
          BY <1>1, <1>2, <1>3, <1>9, <3>1, <4>1
        <5> QED  BY <4>1, <5>1, <5>2, <5>3
      <4>2. CASE p # r
        <5>1. pc'[p] \in Holding \ {"restatus"} => Issued(q) <= Len(spent[sess(p)])
          BY <1>1, <1>9, <4>2 DEF Fresh
        <5>2. /\ Issued(q)' \in {Issued(q), 0} /\ Issued(q) \in Nat /\ sess(p) \in Corr
          BY <1>1, <1>2, <3>1
        <5>3. /\ Len(spent[sess(p)]) \in Nat /\ Len(spent'[sess(p)]) \in Nat
              /\ Len(spent[sess(p)]) <= Len(spent'[sess(p)])
          BY <1>3, <5>2
        <5> QED  BY <5>1, <5>2, <5>3
      <4> QED  BY <4>1, <4>2
    <3>3. p # q /\ Issued(p)' = Issued(q)' => Issued(p)' = 0
      BY <1>9, <3>1 DEF Fresh
    <3> QED  BY <3>2, <3>3
  <2> QED  BY <2>1, <2>2
<1> QED  BY <1>1, <1>6, <1>7, <1>8, <1>9 DEF Fresh

\* The other actions touch no request.
LEMMA NextFresh == ClaimInv /\ Ordered /\ Fresh /\ [Next]_vars => Fresh'
<1> SUFFICES ASSUME ClaimInv, Ordered, Fresh, [Next]_vars PROVE Fresh'
  OBVIOUS
<1>1. UNCHANGED <<requestVars, spent>> => Fresh'
  BY DEF requestVars, Fresh, Issued
<1>2. ASSUME NEW c \in Corr, Start(c) \/ BeginFails(c) \/ BeginUpdate(c) \/ Poll(c) PROVE Fresh'
  BY <1>1, <1>2, PollEffect DEF Start, BeginFails, BeginUpdate
<1> QED  BY <1>1, <1>2, RequestFresh, NextCases DEF RequestStep, Tick, vars

LEMMA InitFresh == Init => Fresh
<1> SUFFICES ASSUME Init PROVE Fresh
  OBVIOUS
<1>1. \A r \in Requests : pc[r] = "idle" /\ result[r] = NoResult
  BY DEF Init
<1>2. NoResult.url = 0
  BY DEF NoResult
<1>3. \A r \in Requests : Issued(r) = 0 /\ Len(spent[sess(r)]) = 0
  BY <1>1, <1>2, InitType, TokenType DEF Issued, Init, TypeInv
<1> QED  BY <1>1, <1>2, <1>3 DEF Fresh, Holding

\* Nobody can present the redirect of a request that has yet to answer.
LEMMA Undisclosed ==
  ASSUME TypeOK, Fresh, NEW q \in Requests, pc[q] = "restatus"
  PROVE  <<sess(q), handle[q]>> \notin Disclosed
<1>1. handle[q] \in 0..MaxStep /\ handle[q] > 1 /\ Issued(q) = handle[q]
  BY DEF TypeOK, Fresh, Holding, Issued
<1>2. \A r \in Requests : pc[r] = "answered" /\ sess(r) = sess(q) => result[r].url # handle[q]
  BY <1>1 DEF Fresh, Issued
<1> QED  BY <1>1, <1>2 DEF Disclosed

-----------------------------------------------------------------------------
\* The states that a session has in the index

\* A claimed session has none, and a terminal one only that of a redirect
\* whose request has not written the status yet.
Hidden(c) ==
  /\ session[c].resuming => session[c].oauthState = 0
  /\ Terminal(session[c]) /\ session[c].oauthState # 0 =>
       \E q \in Requests : sess(q) = c /\ pc[q] = "restatus" /\ handle[q] = session[c].oauthState

StatesHidden == \A c \in Corr : Hidden(c)

LEMMA PeekHidden ==
  ASSUME StoreTypeOK, NEW c \in Corr, Hidden(c), Peeks(c), token' = token,
         \A q \in Requests : sess(q) = c /\ pc[q] = "restatus" =>
                               pc'[q] = "restatus" /\ handle'[q] = handle[q]
  PROVE  Hidden(c)'
<1>1. CASE Expired(session[c]) /\ Expire(c)
  <2>1. session[c] \in Session  BY DEF StoreTypeOK
  <2>2. session'[c].oauthState = 0
    BY <1>1, <2>1, ExpiredSession, ExpireEffect
  <2> QED  BY <2>2 DEF Hidden
<1>2. CASE session' = session
  BY <1>2 DEF Hidden, Terminal
<1> QED  BY <1>1, <1>2, ExpireEffect DEF Peeks

LEMMA NextHidden == ClaimInv /\ StatesHidden /\ [Next]_vars => StatesHidden'
<1> SUFFICES ASSUME ClaimInv, StatesHidden, [Next]_vars, NEW c \in Corr PROVE Hidden(c)'
  BY DEF StatesHidden
<1>1. TypeInv /\ TypeOK /\ StoreTypeOK /\ HandleHeld /\ Hidden(c)
  BY DEF ClaimInv, TypeInv, TypeOK, StatesHidden
\* Another journey, or none, takes the step.
<1>2. ASSUME session'[c] = session[c], token' = token,
             \A q \in Requests : sess(q) = c => pc'[q] = pc[q] /\ handle'[q] = handle[q]
      PROVE  Hidden(c)'
  BY <1>1, <1>2 DEF Hidden, Terminal
<1>3. ASSUME NEW d \in Corr, Start(d) \/ BeginUpdate(d) PROVE Hidden(c)'
  <2>1. /\ Others(d) /\ session'[d].status = "authorizing" /\ UNCHANGED <<token, pc, handle>>
        /\ ~session'[d].resuming \/ SameClaim(d)
    BY <1>1, <1>3, StartEffect, NewEffect, BeginUpdateEffect DEF BeginUpdate, requestVars
  <2>2. CASE d = c
    BY <1>1, <2>1, <2>2 DEF SameClaim, Hidden, Terminal, TerminalStatus
  <2>3. CASE d # c
    BY <1>2, <2>1, <2>3 DEF Others
  <2> QED  BY <2>2, <2>3
<1>4. ASSUME NEW d \in Corr, BeginFails(d) PROVE Hidden(c)'
  BY <1>2, <1>4 DEF BeginFails, requestVars
<1>5. ASSUME NEW d \in Corr, Poll(d) PROVE Hidden(c)'
  <2>1. Peeks(d) /\ UNCHANGED <<token, pc, handle>>
    BY <1>5, PollEffect DEF requestVars
  <2>2. CASE d = c
    BY <1>1, <2>1, <2>2, PeekHidden
  <2>3. CASE d # c
    BY <1>1, <1>2, <2>1, <2>3, PeekEffect DEF Others
  <2> QED  BY <2>2, <2>3
<1>6. ASSUME NEW r \in Requests, RequestStep(r) PROVE Hidden(c)'
  <2>1. /\ sess(r) \in Corr /\ token' = token
        /\ \A q \in Requests \ {r} : pc'[q] = pc[q] /\ handle'[q] = handle[q]
    BY <1>1, <1>6, TokenType, RequestFrame
  <2>2. CASE sess(r) # c
    <3>1. session'[c] = session[c]
      BY <1>1, <1>6, <2>2, RequestFrame
    <3> QED  BY <1>2, <2>1, <2>2, <3>1
  <2>3. ASSUME sess(r) = c, session'[c].oauthState = 0 PROVE Hidden(c)'
    BY <2>3 DEF Hidden
  <2>4. ASSUME sess(r) = c, Peeks(c), pc[r] # "restatus" PROVE Hidden(c)'
    BY <1>1, <2>1, <2>4, PeekHidden
  <2>5. CASE sess(r) = c /\ Lookup(r)
    BY <1>1, <2>4, <2>5, LookupEffect
  <2>6. CASE sess(r) = c /\ Consume(r)
    BY <1>1, <2>3, <2>4, <2>6, ConsumeEffect, ClaimEffect
  <2>7. CASE sess(r) = c /\ DrivesOn(r)
    <3>1. session[c].resuming /\ Drove(r)
      BY <1>1, <2>1, <2>7, DrivesOnEffect DEF ClaimInv, ClaimExclusive, Drives
    <3> QED  BY <1>1, <2>3, <2>7, <3>1 DEF Drove, SameClaim, Hidden
  <2>8. CASE sess(r) = c /\ Redirect(r)
    <3>1. /\ handle[r] \in Step /\ SetState(c, handle[r])
          /\ pc'[r] = "restatus" /\ handle' = handle
      BY <1>1, <2>8, RedirectEffect DEF HandleHeld, Holding, TypeOK, Step, Moves
    <3>2. session'[c].oauthState = handle[r] /\ session'[c].resuming = FALSE
      BY <1>1, <3>1, SetStateEffect
    <3> QED  BY <2>1, <2>8, <3>1, <3>2 DEF Hidden
  <2>9. CASE sess(r) = c /\ Restatus(r)
    <3>1. Drove(r) /\ session'[c].status = "authorizing"
      BY <1>1, <2>9, RestatusStep
    <3> QED  BY <1>1, <2>9, <3>1 DEF Drove, SameClaim, Hidden, Terminal, TerminalStatus
  <2>10. CASE sess(r) = c /\ FinalizeSession(r)
    BY <1>1, <2>3, <2>10, FinalizeStep, FinalizeEffect
  <2>11. CASE sess(r) = c /\ View(r)
    BY <1>1, <2>4, <2>11, ViewEffect
  <2> QED  BY <1>6, <2>2, <2>5, <2>6, <2>7, <2>8, <2>9, <2>10, <2>11 DEF RequestStep
<1>7. CASE Tick
  BY <1>2, <1>7 DEF Tick, requestVars
<1>8. CASE UNCHANGED vars
  BY <1>2, <1>8 DEF vars, requestVars
<1> QED  BY <1>3, <1>4, <1>5, <1>6, <1>7, <1>8, NextCases DEF RequestStep

\* What the theorems below rest on.
OutcomeInv == ClaimInv /\ Indexed /\ Ordered /\ Fresh /\ StatesHidden

LEMMA InitOutcome == Init => OutcomeInv
<1>1. Init => Indexed
  BY DEF Init, StoreInit, Indexed
<1>2. Init => StatesHidden
  <2> SUFFICES ASSUME Init, NEW c \in Corr PROVE Hidden(c)
    BY DEF StatesHidden
  <2>1. session[c] = NilSession
    BY DEF Init, StoreInit
  <2>2. NilSession.oauthState = 0
    BY DEF NilSession
  <2> QED  BY <2>1, <2>2 DEF Hidden
<1> QED  BY <1>1, <1>2, InitClaim, InitOrdered, InitFresh DEF OutcomeInv

LEMMA NextOutcome == OutcomeInv /\ [Next]_vars => OutcomeInv'
  BY NextClaimInv, NextIndexed, NextOrdered, NextFresh, NextHidden DEF OutcomeInv

\* A lookup finds a live session only, so one that has not expired.
LEMMA FoundIsLive ==
  ASSUME OutcomeInv, NEW r \in Requests, Lookup(r), pc'[r] = "consume"
  PROVE  clock <= session[sess(r)].expiresAt /\ sess(r) \in byID /\ ~Terminal(session[sess(r)])
<1> DEFINE c == sess(r)
<1>1. /\ TypeInv /\ TypeOK /\ StoreTypeOK /\ c \in Corr /\ state(r) \in Step
      /\ token[r] = <<c, state(r)>> /\ session[c] \in Session
  BY TokenType DEF OutcomeInv, ClaimInv, TypeInv, TypeOK, StoreTypeOK
<1>2. c \in byID /\ token[r] \in Disclosed /\ token[r] \in byState /\ token[r] \in byState' /\ Peeks(c)
  BY <1>1, LookupEffect DEF Moves
<1>3. session[c].oauthState = state(r) /\ state(r) # 0
  BY <1>1, <1>2 DEF OutcomeInv, Indexed, Step
<1>4. ~Expired(session[c])
  <2>1. Expire(c) => byState' = byState \ IndexEntry(c) \/ ~Expired(session[c])
    BY <1>1, ExpireEffect
  <2>2. token[r] \in IndexEntry(c)
    BY <1>1, <1>3 DEF IndexEntry
  <2>3. Expire(c)
    BY <1>2 DEF Lookup, GetByState
  <2> QED  BY <1>2, <2>1, <2>2, <2>3
<1>5. ~Terminal(session[c])
  <2> SUFFICES ASSUME Terminal(session[c]) PROVE FALSE
    OBVIOUS
  <2>1. PICK q \in Requests : sess(q) = c /\ pc[q] = "restatus" /\ handle[q] = session[c].oauthState
    BY <1>1, <1>3 DEF OutcomeInv, StatesHidden, Hidden
  <2>2. <<sess(q), handle[q]>> \notin Disclosed
    BY <1>1, <2>1, Undisclosed DEF OutcomeInv
  <2> QED  BY <1>1, <1>2, <1>3, <2>1, <2>2
<1>6. clock \in Nat /\ session[c].expiresAt \in Nat
  BY <1>1 DEF StoreTypeOK, Session
<1> QED  BY <1>2, <1>4, <1>5, <1>6 DEF Expired

-----------------------------------------------------------------------------
\* How long a session is kept

\* A request got past its lookup before its session expired, and is within
\* its budget.
InTime ==
  \A r \in Requests : pc[r] \in Running =>
    /\ startedAt[r] <= session[sess(r)].expiresAt
    /\ clock <= startedAt[r] + Budget

LEMMA LookupOrRunning ==
  ASSUME TypeOK, NEW r \in Requests, RequestStep(r)
  PROVE  \/ Lookup(r) /\ startedAt'[r] = clock /\ (pc'[r] \in Running => pc'[r] = "consume")
         \/ pc[r] \in Running /\ startedAt' = startedAt
<1>1. CASE Lookup(r)
  BY <1>1, LookupEffect DEF Moves, Running, Driving, TypeOK
<1>2. CASE Consume(r) \/ Restatus(r) \/ View(r)
  BY <1>2, ConsumeEffect, RestatusStep, ViewEffect DEF Running, Drove
<1>3. CASE DrivesOn(r)
  BY <1>3, DrivesOnEffect DEF Running, Drove
<1>4. CASE Redirect(r) \/ FinalizeSession(r)
  BY <1>4, RedirectEffect, FinalizeStep DEF Running, Driving
<1> QED  BY <1>1, <1>2, <1>3, <1>4 DEF RequestStep

LEMMA NextInTime == OutcomeInv /\ InTime /\ [Next]_vars => InTime'
<1> SUFFICES ASSUME OutcomeInv, InTime, [Next]_vars, NEW r \in Requests, pc'[r] \in Running
             PROVE  /\ startedAt'[r] <= session'[sess(r)'].expiresAt
                    /\ clock' <= startedAt'[r] + Budget
  BY DEF InTime
<1> DEFINE c == sess(r)
<1>1. /\ TypeInv /\ TypeOK /\ StoreTypeOK /\ Unbegun /\ c \in Corr
      /\ clock \in Nat /\ startedAt[r] \in Nat /\ Budget \in Nat
  BY TokenType, FlowAssumption
     DEF OutcomeInv, ClaimInv, TypeInv, TypeOK, StoreTypeOK, FlowAssumption
\* Neither the request nor its session's expiry changes.
<1>2. ASSUME session'[c].expiresAt = session[c].expiresAt, pc[r] \in Running,
             startedAt'[r] = startedAt[r], token' = token, clock' = clock
      PROVE  /\ startedAt'[r] <= session'[sess(r)'].expiresAt
             /\ clock' <= startedAt'[r] + Budget
  BY <1>2 DEF InTime
<1>3. ASSUME NEW d \in Corr, Start(d) \/ BeginFails(d) \/ BeginUpdate(d)
      PROVE  /\ startedAt'[r] <= session'[sess(r)'].expiresAt
             /\ clock' <= startedAt'[r] + Budget
  <2>1. /\ Others(d) \/ session' = session
        /\ begun[d] # "answered" /\ UNCHANGED <<token, pc, startedAt, clock>>
    BY <1>1, <1>3, StartEffect, NewEffect, BeginUpdateEffect
       DEF BeginFails, BeginUpdate, requestVars
  <2>2. c # d
    BY <1>1, <2>1 DEF Unbegun, Running, Driving
  <2> QED  BY <1>1, <1>2, <2>1, <2>2 DEF Others
<1>4. ASSUME NEW d \in Corr, Poll(d)
      PROVE  /\ startedAt'[r] <= session'[sess(r)'].expiresAt
             /\ clock' <= startedAt'[r] + Budget
  <2>1. Peeks(d) /\ UNCHANGED <<token, pc, startedAt, clock>>
    BY <1>4, PollEffect DEF requestVars
  <2>2. session'[c].expiresAt = session[c].expiresAt
    BY <1>1, <2>1, PeekEffect DEF Others
  <2> QED  BY <1>2, <2>1, <2>2
<1>5. ASSUME NEW q \in Requests, RequestStep(q)
      PROVE  /\ startedAt'[r] <= session'[sess(r)'].expiresAt
             /\ clock' <= startedAt'[r] + Budget
  <2>1. /\ session'[c].expiresAt = session[c].expiresAt /\ token' = token /\ clock' = clock
        /\ r # q => pc'[r] = pc[r] /\ startedAt'[r] = startedAt[r]
    BY <1>1, <1>5, RequestKeepsExpiry, RequestFrame
  <2>2. CASE r # q
    BY <1>2, <2>1, <2>2
  <2>3. CASE r = q /\ Lookup(r) /\ startedAt'[r] = clock /\ pc'[r] = "consume"
    BY <1>1, <2>1, <2>3, FoundIsLive
  <2>4. CASE r = q /\ pc[r] \in Running /\ startedAt' = startedAt
    BY <1>2, <2>1, <2>4
  <2> QED  BY <1>1, <1>5, <2>2, <2>3, <2>4, LookupOrRunning
<1>6. CASE Tick
  BY <1>1, <1>6 DEF Tick, requestVars, InTime
<1>7. CASE UNCHANGED vars
  BY <1>2, <1>7 DEF vars, requestVars
<1> QED  BY <1>3, <1>4, <1>5, <1>6, <1>7, NextCases DEF RequestStep

LEMMA NextKept ==
  Budget <= Grace /\ OutcomeInv /\ InTime /\ RunningIsStored /\ [Next]_vars => RunningIsStored'
<1> SUFFICES ASSUME Budget <= Grace, OutcomeInv, InTime, RunningIsStored, [Next]_vars,
                    NEW r \in Requests, pc'[r] \in Running
             PROVE  sess(r)' \in byID'
  BY DEF RunningIsStored
<1>1. TypeInv /\ TypeOK /\ StoreTypeOK /\ sess(r) \in Corr
  BY TokenType DEF OutcomeInv, ClaimInv, TypeInv, TypeOK
<1>2. ASSUME byID' = byID, pc[r] \in Running, token' = token PROVE sess(r)' \in byID'
  BY <1>2 DEF RunningIsStored
<1>3. ASSUME NEW d \in Corr, Start(d) PROVE sess(r)' \in byID'
  <2>1. /\ byID' = (byID \ Evicted) \cup {d} /\ UNCHANGED <<token, pc>>
    BY <1>1, <1>3, StartEffect, NewEffect DEF requestVars
  <2>2. ~Evictable(session[sess(r)])
    <3>1. /\ startedAt[r] <= session[sess(r)].expiresAt
          /\ clock <= startedAt[r] + Budget
      BY <2>1 DEF InTime
    <3>2. /\ clock \in Nat /\ startedAt[r] \in Nat /\ Budget \in Nat /\ Grace \in Nat
          /\ session[sess(r)].expiresAt \in Nat
      BY <1>1, FlowAssumption, StoreAssumption
         DEF FlowAssumption, StoreAssumption, TypeOK, StoreTypeOK, Session
    <3> QED  BY <3>1, <3>2 DEF Evictable
  <2> QED  BY <2>1, <2>2 DEF RunningIsStored, Evicted
<1>4. ASSUME NEW d \in Corr, BeginFails(d) \/ BeginUpdate(d) \/ Poll(d) PROVE sess(r)' \in byID'
  BY <1>1, <1>2, <1>4, BeginUpdateEffect, PollEffect, PeekEffect
     DEF BeginFails, BeginUpdate, requestVars
<1>5. ASSUME NEW q \in Requests, RequestStep(q) PROVE sess(r)' \in byID'
  <2>1. /\ byID' = byID /\ token' = token /\ (r # q => pc'[r] = pc[r])
    BY <1>1, <1>5, RequestFrame
  <2>2. CASE r # q
    BY <1>2, <2>1, <2>2
  <2>3. CASE r = q /\ Lookup(r) /\ pc'[r] = "consume"
    BY <2>1, <2>3, FoundIsLive
  <2>4. CASE r = q /\ pc[r] \in Running
    BY <1>2, <2>1, <2>4
  <2> QED  BY <1>1, <1>5, <2>2, <2>3, <2>4, LookupOrRunning
<1>6. CASE Tick
  BY <1>2, <1>6 DEF Tick, requestVars
<1>7. CASE UNCHANGED vars
  BY <1>2, <1>7 DEF vars, requestVars
<1> QED  BY <1>3, <1>4, <1>5, <1>6, <1>7, NextCases DEF RequestStep

\* Where evictGrace is at least requestBudget, a request finds its session
\* when it comes to answer, though it may have released the claim by then.
THEOREM RunningStaysStored == Budget <= Grace => (Spec => []RunningIsStored)
<1> SUFFICES ASSUME Budget <= Grace PROVE Spec => []RunningIsStored
  OBVIOUS
<1>1. Init => InTime /\ RunningIsStored
  BY DEF Init, InTime, RunningIsStored, Running, Driving
<1>2. OutcomeInv /\ InTime /\ RunningIsStored /\ [Next]_vars => RunningIsStored'
  BY NextKept
<1> QED  BY <1>1, <1>2, InitOutcome, NextOutcome, NextInTime, PTL DEF Spec

-----------------------------------------------------------------------------
\* Completion

\* A request presents a redirect that has left the gateway.
Admitted == \A r \in Requests : pc[r] # "idle" => token[r] \in Disclosed

LEMMA NextAdmitted == TypeInv /\ Admitted /\ [Next]_vars => Admitted'
<1> SUFFICES ASSUME TypeInv, Admitted, [Next]_vars PROVE Admitted'
  OBVIOUS
<1>1. TypeInv /\ TypeOK /\ begun \in [Corr -> {"no", "refused", "stored", "answered"}]
  BY DEF TypeInv, TypeOK
\* What has left the gateway has left it.
<1>2. ASSUME token' = token, \A c \in Corr : begun[c] = "answered" => begun'[c] = "answered",
             \A q \in Requests : pc[q] = "answered" => pc'[q] = "answered" /\ result'[q] = result[q]
      PROVE  Disclosed \subseteq Disclosed'
  BY <1>2 DEF Disclosed, Token
<1>3. ASSUME NEW c \in Corr, Start(c) \/ BeginFails(c) \/ BeginUpdate(c) \/ Poll(c)
      PROVE  Admitted'
  <2>1. /\ \A d \in Corr : begun[d] = "answered" => begun'[d] = "answered"
        /\ UNCHANGED <<token, pc, result>>
    BY <1>1, <1>3, StartEffect, PollEffect DEF BeginFails, BeginUpdate, requestVars
  <2> QED  BY <1>2, <2>1 DEF Admitted
<1>4. ASSUME NEW r \in Requests, RequestStep(r) PROVE Admitted'
  <2>1. /\ begun' = begun /\ token' = token /\ (pc[r] # "idle" \/ token[r] \in Disclosed)
        /\ \A q \in Requests \ {r} : pc'[q] = pc[q]
    BY <1>1, <1>4, RequestFrame
  <2>2. pc[r] # "answered" /\ \A q \in Requests \ {r} : result'[q] = result[q]
    BY <1>1, <1>4, ViewedIsAnswered, IssuedEffect
  <2>3. Disclosed \subseteq Disclosed'
    BY <1>2, <2>1, <2>2
  <2> QED  BY <2>1, <2>3 DEF Admitted
<1>5. CASE Tick
  BY <1>2, <1>5 DEF Tick, requestVars, Admitted
<1>6. CASE UNCHANGED vars
  BY <1>2, <1>6 DEF vars, requestVars, Admitted
<1> QED  BY <1>3, <1>4, <1>5, <1>6, NextCases DEF RequestStep

\* While r has released the claim and not written the status, a rival that
\* claims the session presents a state older than the handle it is given,
\* or is given none: if the SDK checks the state, the rival only fails.
Overtaken(c, r) ==
  /\ session[c].status # "completed"
  /\ ~session[c].resuming => session[c].handle \in {0, handle[r]}
  /\ \A q \in Requests : sess(q) = c =>
       /\ pc[q] \notin Driving \ {"resume", "failed", "finalize"}
       /\ pc[q] = "resume" => handle[q] \in {0, handle[r]}

\* Nobody is left who would write to a completed journey.
Concluded(c) ==
  session[c].status = "completed" =>
    /\ begun[c] = "answered"
    /\ \A q \in Requests : sess(q) = c => pc[q] \notin Driving \ {"finalize"}

Concluding ==
  \A c \in Corr :
    /\ Concluded(c)
    /\ \A r \in Requests : sess(r) = c /\ pc[r] = "restatus" => Overtaken(c, r)

\* What the driver of a journey does to its status.
LEMMA DriveStatus ==
  ASSUME TypeOK, NEW r \in Requests, DrivesOn(r)
  PROVE  \/ session'[sess(r)].status = session[sess(r)].status
         \/ /\ pc'[r] = "finalize"
            /\ session'[sess(r)].status \in {"failed", "declined"} \/ pc[r] = "done"
<1>1. StoreTypeOK /\ sess(r) \in Corr /\ handle[r] \in 0..MaxStep /\ pc[r] \in Running \cup {"idle", "answered"}
  BY TokenType DEF TypeOK
<1>2. ASSUME NEW status \in {"failed", "declined"}, NEW reason \in Reason, fail(r, status, reason)
      PROVE  pc'[r] = "finalize" /\ session'[sess(r)].status = status
  <2>1. Goto(r, "finalize") /\ status \in Status
    BY <1>2 DEF fail, Status
  <2>2. pc'[r] = "finalize"
    BY <2>1 DEF Goto, TypeOK
  <2> QED  BY <1>1, <1>2, <2>1, <2>2, FailEffect
<1>3. ASSUME NEW step \in SdkStep(handle[r]), Advance(r, step)
      PROVE  session'[sess(r)].status = session[sess(r)].status
  <2>1. handle[r] + 1 \in 0..MaxStep
    BY <1>1, SdkStepNext, StoreAssumption DEF StoreAssumption, Step
  <2> QED  BY <1>1, <1>3, <2>1, AdvanceEffect
<1>4. "resume_error" \in Reason /\ "upstream_error" \in Reason /\ "declined" \in Reason /\ "outcome" \in Reason
  BY DEF Reason
<1>5. CASE ResumeRedirect(r) \/ PerformHttp(r)
  <2>1. \A h, n : SdkRedirectStep(h, n) \subseteq SdkStep(h)
    BY DEF SdkRedirectStep
  <2>2. ResumeError(r) \/ \E step \in SdkStep(handle[r]) : Advance(r, step)
    BY <1>5, <2>1 DEF ResumeRedirect, PerformHttp
  <2> QED  BY <1>2, <1>3, <1>4, <2>2 DEF ResumeError
<1>6. CASE HttpError(r) \/ Failed(r) \/ Malformed(r)
  <2>1. CASE HttpError(r)
    BY <1>2, <1>4, <2>1 DEF HttpError
  <2>2. CASE Malformed(r)
    BY <1>2, <1>4, <2>2 DEF Malformed
  <2>3. CASE Failed(r)
    <3>1. PICK verdict \in {<<"declined", "declined">>, <<"failed", "outcome">>} :
            fail(r, verdict[1], verdict[2])
      BY <2>3 DEF Failed
    <3>2. verdict[1] \in {"failed", "declined"} /\ verdict[2] \in Reason
      BY <1>4
    <3> QED  BY <1>2, <3>1, <3>2
  <2> QED  BY <1>6, <2>1, <2>2, <2>3
<1>7. CASE Done(r)
  BY <1>7 DEF Done, Goto, TypeOK
<1> QED  BY <1>5, <1>6, <1>7 DEF DrivesOn

\* The SDK refuses a state its handle did not emit.
LEMMA RivalFails ==
  ASSUME TypeOK, SdkChecksState, NEW q \in Requests, ResumeRedirect(q),
         handle[q] = 0 \/ state(q) # handle[q]
  PROVE  pc'[q] \in {"failed", "finalize"}
<1>1. ResumeError(q) \/ \E step \in SdkRedirectStep(handle[q], state(q)) : Advance(q, step)
  BY DEF ResumeRedirect
<1>2. SdkRedirectStep(handle[q], state(q)) \subseteq {"failed"}
  BY DEF SdkRedirectStep, SdkStep, stepKind
<1>3. ResumeError(q) => Goto(q, "finalize")
  BY DEF ResumeError, fail
<1>4. \A step : Advance(q, step) => Goto(q, step)
  BY DEF Advance
<1> QED  BY <1>1, <1>2, <1>3, <1>4 DEF Goto, TypeOK

\* A lookup, a refusal or a view fails an expired session, and leaves a
\* terminal one as it is.
LEMMA PeekStatus ==
  ASSUME StoreTypeOK, NEW c \in Corr, Peeks(c)
  PROVE  /\ session'[c].status \in {session[c].status, "failed"}
         /\ Terminal(session[c]) => session'[c] = session[c]
<1>1. CASE Expired(session[c]) /\ Expire(c)
  <2>1. session[c] \in Session  BY DEF StoreTypeOK
  <2>2. session'[c].status = "failed"
    BY <1>1, <2>1, ExpiredSession, ExpireEffect
  <2> QED  BY <1>1, <2>2 DEF Expired
<1>2. CASE session' = session
  BY <1>2
<1> QED  BY <1>1, <1>2, ExpireEffect DEF Peeks

\* The claimant of a journey that r has not finished with gets r's redirect
\* for a handle, or none, but presents another state.
LEMMA ClaimantIsOld ==
  ASSUME OutcomeInv, Admitted, NEW r \in Requests, NEW q \in Requests,
         sess(q) = sess(r), pc[r] = "restatus", pc[q] # "idle"
  PROVE  state(q) # handle[r]
<1>1. <<sess(r), handle[r]>> \notin Disclosed
  BY Undisclosed DEF OutcomeInv, ClaimInv, TypeInv
<1>2. token[q] = <<sess(q), state(q)>> /\ token[q] \in Disclosed
  BY TokenType DEF OutcomeInv, ClaimInv, TypeInv, Admitted
<1> QED  BY <1>1, <1>2

LEMMA RequestConcluding ==
  ASSUME SdkChecksState, OutcomeInv, Admitted, Concluding, NEW p \in Requests, RequestStep(p),
         NEW c \in Corr
  PROVE  /\ Concluded(c)'
         /\ \A r \in Requests : sess(r)' = c /\ pc'[r] = "restatus" => Overtaken(c, r)'
<1>1. /\ TypeInv /\ TypeOK /\ StoreTypeOK /\ HandleHeld /\ ClaimExclusive /\ Concluded(c)
      /\ \A r \in Requests : sess(r) = c /\ pc[r] = "restatus" => Overtaken(c, r)
      /\ OrderOf(c)
  BY DEF OutcomeInv, ClaimInv, TypeInv, TypeOK, Concluding, Ordered
<1>2. /\ sess(p) \in Corr /\ token' = token /\ begun' = begun /\ handle[p] \in 0..MaxStep
      /\ \A q \in Requests \ {p} : pc'[q] = pc[q] /\ handle'[q] = handle[q]
  BY <1>1, TokenType, RequestFrame DEF TypeOK
<1>3. CASE sess(p) # c
  <2>1. session'[c] = session[c]
    BY <1>1, <1>3, RequestFrame
  <2> QED  BY <1>1, <1>2, <1>3, <2>1 DEF Concluded, Overtaken
\* The session is at most expired, by a request that does not drive it.
<1>4. ASSUME sess(p) = c, Peeks(c), handle' = handle,
             pc[p] \notin Driving \cup {"restatus"}, pc'[p] \notin Driving \cup {"restatus"}
      PROVE  /\ Concluded(c)'
             /\ \A r \in Requests : sess(r)' = c /\ pc'[r] = "restatus" => Overtaken(c, r)'
  <2>1. /\ session'[c].status \in {session[c].status, "failed"}
        /\ session'[c].resuming = session[c].resuming
        /\ session'[c].handle \in {session[c].handle, 0}
    BY <1>1, <1>4, PeekStatus, PeekEffect
  <2>2. Concluded(c)'
    BY <1>1, <1>2, <1>4, <2>1 DEF Concluded
  <2>3. ASSUME NEW r \in Requests, sess(r) = c, pc'[r] = "restatus" PROVE Overtaken(c, r)'
    <3>1. Overtaken(c, r) /\ r # p
      BY <1>1, <1>2, <1>4, <2>3
    <3> QED  BY <1>2, <1>4, <2>1, <2>3, <3>1 DEF Overtaken, Driving
  <2> QED  BY <1>2, <2>2, <2>3
<1>5. CASE sess(p) = c /\ Lookup(p)
  BY <1>1, <1>4, <1>5, LookupEffect DEF Moves, Driving
<1>6. CASE sess(p) = c /\ View(p)
  BY <1>1, <1>4, <1>6, ViewEffect DEF Moves, Driving
<1>7. CASE sess(p) = c /\ Consume(p)
  <2>1. CASE ConsumeForResume(c, "claimed") /\ pc'[p] = "resume"
    <3>1. /\ ~Terminal(session[c]) /\ ~session[c].resuming /\ session'[c].resuming
          /\ session'[c].status = session[c].status /\ handle'[p] = session[c].handle
      <4>1. handle' = [handle EXCEPT ![p] = session[c].handle]
        BY <1>1, <1>7, <2>1, ConsumeEffect DEF Moves
      <4>2. handle'[p] = session[c].handle
        BY <1>1, <4>1 DEF TypeOK
      <4> QED  BY <1>1, <1>2, <1>7, <2>1, <4>2, ClaimEffect
    <3>2. session'[c].status # "completed"
      BY <3>1 DEF Terminal, TerminalStatus
    <3>3. Concluded(c)'
      BY <3>2 DEF Concluded
    <3>4. ASSUME NEW r \in Requests, sess(r) = c, pc'[r] = "restatus" PROVE Overtaken(c, r)'
      <4>1. Overtaken(c, r) /\ r # p /\ handle'[r] = handle[r]
        BY <1>1, <1>2, <2>1, <3>4
      <4> QED  BY <1>2, <2>1, <3>1, <3>2, <4>1 DEF Overtaken
    <3> QED  BY <1>2, <3>3, <3>4
  <2>2. CASE Peeks(c) /\ pc'[p] = "view" /\ handle' = handle
    BY <1>1, <1>4, <1>7, <2>2, ConsumeEffect DEF Driving
  <2> QED  BY <1>1, <1>7, <2>1, <2>2, ConsumeEffect DEF Moves
<1>8. CASE sess(p) = c /\ DrivesOn(p)
  <2>1. /\ pc[p] \in Driving \ {"finalize"} /\ Drove(p) /\ (Advancing(p) \/ Ending(p))
        /\ session[c].resuming
        /\ \A q \in Requests \ {p} : sess(q) = c => pc[q] \notin Driving
    BY <1>1, <1>8, DrivesOnEffect DEF ClaimExclusive, Drives
  <2>2. session[c].status # "completed" /\ session'[c].resuming /\ begun[c] = "answered"
    <3>1. begun[c] = "answered"
      BY <1>1, <1>8, <2>1, DisclosedBegun DEF Driving, OutcomeInv, ClaimInv
    <3> QED  BY <1>1, <1>8, <2>1, <3>1 DEF Concluded, Drove, SameClaim
  <2>3. pc'[p] # "restatus" /\ pc'[p] # "resume"
    BY <2>1 DEF Advancing, Ending, Moves
  <2>4. Concluded(c)'
    <3>1. CASE pc'[p] = "finalize"
      BY <1>2, <2>1, <2>2, <3>1 DEF Concluded
    <3>2. CASE session'[c].status = session[c].status
      BY <2>2, <3>2 DEF Concluded
    <3> QED  BY <1>1, <1>8, <3>1, <3>2, DriveStatus
  <2>5. ASSUME NEW r \in Requests, sess(r) = c, pc'[r] = "restatus" PROVE Overtaken(c, r)'
    <3>1. r # p /\ Overtaken(c, r) /\ pc[r] = "restatus"
      BY <1>1, <1>2, <2>3, <2>5
    <3>2. pc[p] \in {"resume", "failed"} /\ (pc[p] = "resume" => handle[p] \in {0, handle[r]})
      BY <1>8, <2>1, <3>1 DEF Overtaken
    <3>3. session'[c].status # "completed"
      BY <1>1, <1>8, <2>2, <3>2, DriveStatus
    <3>4. pc'[p] \in {"failed", "finalize"}
      <4>1. CASE pc[p] = "failed"
        BY <1>1, <1>8, <4>1 DEF DrivesOn, ResumeRedirect, PerformHttp, HttpError, Done, Failed,
                                Malformed, fail, Goto, TypeOK
      <4>2. CASE pc[p] = "resume"
        <5>1. ResumeRedirect(p)
          BY <1>8, <4>2 DEF DrivesOn, PerformHttp, HttpError, Done, Failed, Malformed
        <5>2. state(p) # handle[r]
          BY <1>8, <2>5, <3>1, <4>2, ClaimantIsOld
        <5> QED  BY <1>1, <3>2, <4>2, <5>1, <5>2, RivalFails
      <4> QED  BY <3>2, <4>1, <4>2
    <3> QED  BY <1>2, <1>8, <2>1, <2>2, <2>5, <3>3, <3>4 DEF Overtaken, Driving
  <2> QED  BY <1>2, <2>4, <2>5
<1>9. CASE sess(p) = c /\ Redirect(p)
  <2>1. /\ pc[p] = "redirect" /\ SetState(c, handle[p]) /\ handle[p] \in Step
        /\ pc'[p] = "restatus" /\ handle' = handle
    BY <1>1, <1>2, <1>9, RedirectEffect DEF HandleHeld, Holding, Step, Moves
  <2>2. /\ session'[c].status = session[c].status /\ session'[c].handle = session[c].handle
    BY <1>1, <2>1, SetStateEffect
  <2>3. session[c].status # "completed"
    BY <1>1, <1>9, <2>1 DEF Concluded, Driving
  <2>4. session[c].handle \in {0, handle[p]}
    BY <1>1, <1>9, <2>1 DEF OrderOf, Holding
  <2>5. \A q \in Requests \ {p} : sess(q) = c => pc[q] \notin Driving
    BY <1>1, <1>9, <2>1 DEF ClaimExclusive, Drives, Driving
  <2>6. \A r \in Requests \ {p} : sess(r) = c => pc[r] # "restatus"
    BY <1>1, <1>9, <2>1 DEF Overtaken, Driving
  <2>7. Overtaken(c, p)'
    BY <1>2, <2>1, <2>2, <2>3, <2>4, <2>5 DEF Overtaken, Driving
  <2> QED  BY <1>2, <2>2, <2>3, <2>6, <2>7 DEF Concluded
<1>10. CASE sess(p) = c /\ Restatus(p)
  <2>1. /\ Drove(p) /\ session'[c].handle = session[c].handle /\ pc'[p] = "view"
        /\ session'[c].status = "authorizing" /\ handle' = handle
    BY <1>1, <1>10, RestatusStep DEF Moves
  <2>2. ASSUME NEW r \in Requests, sess(r) = c, pc'[r] = "restatus" PROVE Overtaken(c, r)'
    <3>1. Overtaken(c, r) /\ r # p
      BY <1>1, <1>2, <2>1, <2>2
    <3> QED  BY <1>2, <1>10, <2>1, <3>1 DEF Overtaken, Drove, SameClaim, Driving
  <2> QED  BY <1>2, <2>1, <2>2 DEF Concluded
<1>11. CASE sess(p) = c /\ FinalizeSession(p)
  <2>1. /\ pc[p] = "finalize" /\ pc'[p] = "view" /\ handle' = handle
        /\ session'[c].status = session[c].status /\ session'[c].handle = 0
    BY <1>1, <1>11, FinalizeStep, FinalizeEffect DEF Moves
  <2>2. ASSUME NEW r \in Requests, sess(r) = c, pc'[r] = "restatus" PROVE Overtaken(c, r)'
    <3>1. Overtaken(c, r) /\ r # p
      BY <1>1, <1>2, <2>1, <2>2
    <3> QED  BY <1>2, <2>1, <3>1 DEF Overtaken, Driving
  <2>3. Concluded(c)'
    BY <1>1, <1>2, <2>1 DEF Concluded, Driving
  <2> QED  BY <1>2, <2>2, <2>3
<1> QED  BY <1>3, <1>5, <1>6, <1>7, <1>8, <1>9, <1>10, <1>11 DEF RequestStep

\* A start touches its own journey, which it has not answered yet.
LEMMA BeginEffect ==
  ASSUME TypeOK, NEW d \in Corr, Start(d) \/ BeginFails(d) \/ BeginUpdate(d)
  PROVE  /\ begun[d] # "answered" /\ Others(d)
         /\ session'[d].status \in {session[d].status, "authorizing"}
         /\ \A c \in Corr \ {d} : begun'[c] = begun[c]
         /\ UNCHANGED <<token, pc, handle>>
<1>1. StoreTypeOK /\ begun \in [Corr -> {"no", "refused", "stored", "answered"}]
  BY DEF TypeOK
<1>2. CASE Start(d)
  BY <1>1, <1>2, StartEffect, NewEffect DEF requestVars
<1>3. CASE BeginFails(d)
  BY <1>1, <1>3 DEF BeginFails, Others, requestVars
<1>4. CASE BeginUpdate(d)
  <2>1. Others(d) /\ session'[d].status = "authorizing"
    BY <1>1, <1>4, BeginUpdateEffect
  <2> QED  BY <1>1, <1>4, <2>1 DEF BeginUpdate, requestVars
<1> QED  BY <1>2, <1>3, <1>4

LEMMA NextConcluding ==
  SdkChecksState /\ OutcomeInv /\ Admitted /\ Concluding /\ [Next]_vars => Concluding'
<1> SUFFICES ASSUME SdkChecksState, OutcomeInv, Admitted, Concluding, [Next]_vars, NEW c \in Corr
             PROVE  /\ Concluded(c)'
                    /\ \A r \in Requests : sess(r)' = c /\ pc'[r] = "restatus" => Overtaken(c, r)'
  BY DEF Concluding
<1>1. /\ TypeInv /\ TypeOK /\ StoreTypeOK /\ Unbegun /\ Concluded(c)
      /\ \A r \in Requests : sess(r) = c /\ pc[r] = "restatus" => Overtaken(c, r)
  BY DEF OutcomeInv, ClaimInv, TypeInv, TypeOK, Concluding
\* Another journey, or none, takes the step.
<1>2. ASSUME session'[c] = session[c], UNCHANGED <<token, pc, handle>>, begun'[c] = begun[c]
      PROVE  /\ Concluded(c)'
             /\ \A r \in Requests : sess(r)' = c /\ pc'[r] = "restatus" => Overtaken(c, r)'
  BY <1>1, <1>2 DEF Concluded, Overtaken
<1>3. ASSUME NEW d \in Corr, Start(d) \/ BeginUpdate(d) \/ BeginFails(d)
      PROVE  /\ Concluded(c)'
             /\ \A r \in Requests : sess(r)' = c /\ pc'[r] = "restatus" => Overtaken(c, r)'
  <2>1. CASE d = c
    <3>1. begun[c] # "answered" /\ UNCHANGED <<token, pc>>
      BY <1>1, <1>3, <2>1, BeginEffect
    <3>2. session'[c].status # "completed"
      BY <1>1, <1>3, <2>1, <3>1, BeginEffect DEF Concluded
    <3> QED  BY <1>1, <3>1, <3>2 DEF Unbegun, Concluded
  <2>2. CASE d # c
    <3>1. session'[c] = session[c] /\ UNCHANGED <<token, pc, handle>> /\ begun'[c] = begun[c]
      BY <1>1, <1>3, <2>2, BeginEffect DEF Others
    <3> QED  BY <1>2, <3>1
  <2> QED  BY <2>1, <2>2
<1>4. ASSUME NEW d \in Corr, Poll(d)
      PROVE  /\ Concluded(c)'
             /\ \A r \in Requests : sess(r)' = c /\ pc'[r] = "restatus" => Overtaken(c, r)'
  <2>1. Peeks(d) /\ UNCHANGED <<token, pc, handle, begun>>
    BY <1>4, PollEffect DEF requestVars
  <2>2. CASE d = c
    <3>1. /\ session'[c].status \in {session[c].status, "failed"}
          /\ session'[c].resuming = session[c].resuming
          /\ session'[c].handle \in {session[c].handle, 0}
      BY <1>1, <2>1, <2>2, PeekStatus, PeekEffect
    <3> QED  BY <1>1, <2>1, <3>1 DEF Concluded, Overtaken
  <2>3. CASE d # c
    BY <1>1, <1>2, <2>1, <2>3, PeekEffect DEF Others
  <2> QED  BY <2>2, <2>3
<1>5. CASE Tick
  BY <1>2, <1>5 DEF Tick, requestVars
<1>6. CASE UNCHANGED vars
  BY <1>2, <1>6 DEF vars, requestVars
<1> QED  BY <1>3, <1>4, <1>5, <1>6, RequestConcluding, NextCases DEF RequestStep

\* A completed journey keeps its outcome.
Keeps(c) == session'[c].status = "completed" /\ session'[c].pdf = session[c].pdf

LEMMA NextKeeps ==
  ASSUME OutcomeInv, Concluding, [Next]_vars, NEW c \in Corr, session[c].status = "completed"
  PROVE  Keeps(c)
<1>1. /\ TypeInv /\ TypeOK /\ StoreTypeOK /\ begun[c] = "answered" /\ Terminal(session[c])
      /\ \A q \in Requests : sess(q) = c => pc[q] \notin (Driving \ {"finalize"}) \cup {"restatus"}
  BY DEF OutcomeInv, ClaimInv, TypeInv, TypeOK, Concluding, Concluded, Overtaken, Terminal,
         TerminalStatus
<1>2. session'[c] = session[c] => Keeps(c)
  BY DEF Keeps
<1>3. ASSUME NEW d \in Corr, Peeks(d) PROVE Keeps(c)
  <2>1. CASE d = c
    BY <1>1, <1>2, <1>3, <2>1, PeekStatus
  <2>2. CASE d # c
    BY <1>1, <1>2, <1>3, <2>2, PeekEffect DEF Others
  <2> QED  BY <2>1, <2>2
<1>4. ASSUME NEW d \in Corr, Start(d) \/ BeginFails(d) \/ BeginUpdate(d) \/ Poll(d) PROVE Keeps(c)
  <2>1. CASE Poll(d)
    BY <1>3, <2>1, PollEffect
  <2>2. CASE ~Poll(d)
    BY <1>1, <1>2, <1>4, <2>2, BeginEffect DEF Others
  <2> QED  BY <2>1, <2>2
<1>5. ASSUME NEW r \in Requests, RequestStep(r) PROVE Keeps(c)
  <2>1. sess(r) \in Corr /\ (sess(r) # c => session'[c] = session[c])
    BY <1>1, <1>5, TokenType, RequestFrame
  <2>2. CASE sess(r) # c
    BY <1>2, <2>1, <2>2
  <2>3. CASE Lookup(r) \/ View(r)
    BY <1>1, <1>3, <2>1, <2>3, LookupEffect, ViewEffect
  <2>4. CASE sess(r) = c /\ Consume(r)
    BY <1>1, <1>3, <2>4, ConsumeEffect, ClaimEffect
  <2>5. CASE sess(r) = c /\ FinalizeSession(r)
    BY <1>1, <2>5, FinalizeStep, FinalizeEffect DEF Keeps
  <2>6. ASSUME sess(r) = c, DrivesOn(r) \/ Redirect(r) \/ Restatus(r) PROVE FALSE
    BY <1>1, <2>6, DrivesOnEffect, RedirectEffect, RestatusStep DEF Driving
  <2> QED  BY <1>5, <2>2, <2>3, <2>4, <2>5, <2>6 DEF RequestStep
<1>6. CASE Tick \/ UNCHANGED vars
  BY <1>2, <1>6 DEF Tick, vars
<1> QED  BY <1>4, <1>5, <1>6, NextCases DEF RequestStep

\* If the SDK refuses a state that its handle did not emit, a completed
\* journey stays completed, with the PDF it was completed with.
THEOREM CompletedStays == SdkChecksState => (Spec => CompletedIsFinal)
<1> SUFFICES ASSUME SdkChecksState PROVE Spec => CompletedIsFinal
  OBVIOUS
<1>1. Init => Admitted /\ Concluding
  <2> SUFFICES ASSUME Init PROVE Admitted /\ Concluding
    OBVIOUS
  <2>1. \A c \in Corr : session[c] = NilSession
    BY DEF Init, StoreInit
  <2>2. NilSession.status # "completed"
    BY DEF NilSession
  <2>3. \A r \in Requests : pc[r] = "idle"
    BY DEF Init
  <2> QED  BY <2>1, <2>2, <2>3 DEF Admitted, Concluding, Concluded
<1>2. OutcomeInv => TypeInv
  BY DEF OutcomeInv, ClaimInv
<1>3. OutcomeInv /\ Admitted /\ Concluding /\ [Next]_vars => Concluding'
  BY NextConcluding
<1>4. OutcomeInv /\ Concluding /\ [Next]_vars =>
        [\A c \in Corr : session[c].status = "completed" =>
           session'[c].status = "completed" /\ session'[c].pdf = session[c].pdf]_vars
  BY NextKeeps DEF Keeps
<1> QED  BY <1>1, <1>2, <1>3, <1>4, InitOutcome, NextOutcome, NextAdmitted, PTL
         DEF Spec, CompletedIsFinal

=============================================================================
