--------------------------- MODULE ResumableProofs ---------------------------
(***************************************************************************)
(* Proof that nobody is stranded, as long as no state of the journey is    *)
(* claimed twice.                                                          *)
(***************************************************************************)
EXTENDS OutcomeProofs

USE DEF sess, state

-----------------------------------------------------------------------------
\* The result of a request

\* What a result says before the request comes to answer.
Locals ==
  \A r \in Requests :
    /\ pc[r] \notin {"view", "answered"} => result[r].err \in {"", "internal"}
    /\ pc[r] # "answered" => ~result[r].named

LEMMA ReturnEffect ==
  ASSUME result \in [Requests -> Result], NEW r \in Requests, NEW status, NEW url, NEW err,
         Return(r, status, url, err)
  PROVE  /\ result'[r].status = status /\ result'[r].url = url /\ result'[r].err = err
         /\ result'[r].named = result[r].named
         /\ \A q \in Requests \ {r} : result'[q] = result[q]
<1> DEFINE t == [result[r] EXCEPT !.status = status, !.url = url, !.err = err]
<1>1. result' = [result EXCEPT ![r] = t]
  BY DEF Return
<1>2. result[r] \in Result
  OBVIOUS
<1>3. t.status = status /\ t.url = url /\ t.err = err /\ t.named = result[r].named
  BY <1>2 DEF Result
<1> QED  BY <1>1, <1>3

\* The driver either goes on with the handle it has stored, or it ends the
\* journey, for good.
LEMMA DriveOutcome ==
  ASSUME TypeOK, NEW r \in Requests, DrivesOn(r)
  PROVE  /\ \/ pc'[r] = "finalize" /\ Terminal(session'[sess(r)])
            \/ /\ pc'[r] \in Holding \ {"restatus"}
               /\ session'[sess(r)].status = session[sess(r)].status
               /\ session'[sess(r)].handle = handle'[r]
         /\ \/ result' = result
            \/ \E status \in Status : \E err \in {"", "internal"} : Return(r, status, 0, err)
<1> USE DEF Terminal, TerminalStatus
<1>1. /\ StoreTypeOK /\ sess(r) \in Corr /\ handle[r] \in 0..MaxStep
      /\ pc \in [Requests -> Running \cup {"idle", "answered"}]
      /\ handle \in [Requests -> 0..MaxStep]
  BY TokenType DEF TypeOK
<1>2. ASSUME NEW status \in {"failed", "declined"}, NEW reason \in Reason, fail(r, status, reason)
      PROVE  pc'[r] = "finalize" /\ Terminal(session'[sess(r)])
  <2>1. Goto(r, "finalize") /\ status \in Status
    BY <1>2 DEF fail, Status
  <2>2. pc'[r] = "finalize"
    BY <1>1, <2>1 DEF Goto
  <2> QED  BY <1>1, <1>2, <2>1, <2>2, FailEffect
<1>3. /\ {"resume_error", "upstream_error", "declined", "outcome"} \subseteq Reason
      /\ {"", "completed", "declined", "failed"} \subseteq Status
  BY DEF Reason, Status
<1> DEFINE Answers == \E status \in Status : \E err \in {"", "internal"} : Return(r, status, 0, err)
<1>4. ASSUME NEW status \in Status, NEW err \in {"", "internal"}, Return(r, status, 0, err)
      PROVE  Answers
  BY <1>4
<1> HIDE DEF Answers
<1>5. CASE ResumeRedirect(r) \/ PerformHttp(r)
  <2>1. ResumeError(r) \/ \E n : \E step \in SdkRedirectStep(handle[r], n) \cup SdkStep(handle[r]) :
                             Advance(r, step)
    BY <1>5 DEF ResumeRedirect, PerformHttp
  <2>2. CASE ResumeError(r)
    <3>1. fail(r, "failed", "resume_error") /\ Return(r, "", 0, "internal")
      BY <2>2 DEF ResumeError
    <3>2. Answers
      BY <1>3, <1>4, <3>1
    <3>3. pc'[r] = "finalize" /\ Terminal(session'[sess(r)])
      BY <1>2, <1>3, <3>1
    <3> QED  BY <3>2, <3>3 DEF Answers
  <2>3. ASSUME NEW n, NEW step \in SdkRedirectStep(handle[r], n) \cup SdkStep(handle[r]),
               Advance(r, step)
        PROVE  /\ pc'[r] \in Holding \ {"restatus"} /\ result' = result
               /\ session'[sess(r)].status = session[sess(r)].status
               /\ session'[sess(r)].handle = handle'[r]
    <3>1. /\ handle[r] + 1 \in 0..MaxStep
          /\ step \in {"perform_http", "redirect", "done", "failed", "malformed"}
      BY <1>1, <2>3, SdkStepNext, StoreAssumption DEF StoreAssumption, Step
    <3>2. pc'[r] = step /\ handle'[r] = handle[r] + 1 /\ result' = result
      BY <1>1, <2>3 DEF Advance, Goto
    <3>3. /\ session'[sess(r)].handle = handle[r] + 1
          /\ session'[sess(r)].status = session[sess(r)].status
      BY <1>1, <2>3, <3>1, AdvanceEffect
    <3> QED  BY <3>1, <3>2, <3>3 DEF Holding
  <2> QED  BY <2>1, <2>2, <2>3
<1>6. CASE HttpError(r)
  <2>1. fail(r, "failed", "upstream_error") /\ Return(r, "failed", 0, "")
    BY <1>6 DEF HttpError
  <2>2. Answers
    BY <1>3, <1>4, <2>1
  <2>3. pc'[r] = "finalize" /\ Terminal(session'[sess(r)])
    BY <1>2, <1>3, <2>1
  <2> QED  BY <2>2, <2>3 DEF Answers
<1>7. CASE Malformed(r)
  <2>1. PICK status \in {"", "failed"} :
          fail(r, "failed", "resume_error") /\ Return(r, status, 0, "internal")
    BY <1>7 DEF Malformed
  <2>2. Answers
    BY <1>3, <1>4, <2>1
  <2>3. pc'[r] = "finalize" /\ Terminal(session'[sess(r)])
    BY <1>2, <1>3, <2>1
  <2> QED  BY <2>2, <2>3 DEF Answers
<1>8. CASE Failed(r)
  <2>1. PICK verdict \in {<<"declined", "declined">>, <<"failed", "outcome">>} :
          fail(r, verdict[1], verdict[2]) /\ Return(r, verdict[1], 0, "")
    BY <1>8 DEF Failed
  <2>2. /\ verdict[1] \in {"failed", "declined"}
        /\ verdict[1] \in Status
        /\ verdict[2] \in Reason
    <3>1. verdict[1] \in {"failed", "declined"} /\ verdict[2] \in {"declined", "outcome"}
      OBVIOUS
    <3> QED  BY <1>3, <3>1
  <2>3. Answers
    BY <1>4, <2>1, <2>2
  <2>4. pc'[r] = "finalize" /\ Terminal(session'[sess(r)])
    BY <1>2, <2>1, <2>2
  <2> QED  BY <2>3, <2>4 DEF Answers
<1>9. CASE Done(r)
  <2>1. pc'[r] = "finalize" /\ Return(r, "completed", 0, "")
    BY <1>1, <1>9 DEF Done, Goto
  <2>2. Answers
    BY <1>3, <1>4, <2>1
  <2>3. session'[sess(r)].status = "completed"
    BY <1>1, <1>9, DoneEffect
  <2> QED  BY <2>1, <2>2, <2>3 DEF Answers
<1> QED  BY <1>5, <1>6, <1>7, <1>8, <1>9 DEF DrivesOn

\* The view adds what the session says to a result without a status.
LEMMA ViewResult ==
  ASSUME TypeOK, NEW r \in Requests, View(r)
  PROVE  /\ \A q \in Requests \ {r} : result'[q] = result[q]
         /\ \/ /\ result'[r].err = result[r].err
               /\ result'[r].url = result[r].url
               /\ result'[r].status = IF result[r].status = "" THEN session'[sess(r)].status
                                                               ELSE result[r].status
            \/ /\ result'[r].status = "" /\ result'[r].url = 0
               /\ result'[r].named = result[r].named
               /\ result'[r].err = IF result[r].err = "" THEN "view" ELSE result[r].err
<1>1. result \in [Requests -> Result] /\ result[r] \in Result
  BY DEF TypeOK
<1>2. CASE Return(r, "", 0, IF result[r].err = "" THEN "view" ELSE result[r].err)
  <2> DEFINE err == IF result[r].err = "" THEN "view" ELSE result[r].err
  <2>1. Return(r, "", 0, err)
    BY <1>2
  <2> HIDE DEF err
  <2>2. /\ result'[r].status = "" /\ result'[r].url = 0 /\ result'[r].err = err
        /\ result'[r].named = result[r].named
        /\ \A q \in Requests \ {r} : result'[q] = result[q]
    BY <1>1, <2>1, ReturnEffect
  <2> QED  BY <2>2 DEF err
<1>3. ASSUME NEW status, result' = [result EXCEPT ![r].status = status, ![r].named = TRUE]
      PROVE  /\ result'[r].err = result[r].err /\ result'[r].url = result[r].url
             /\ result'[r].status = status
             /\ \A q \in Requests \ {r} : result'[q] = result[q]
  <2> DEFINE t == [result[r] EXCEPT !.status = status, !.named = TRUE]
  <2>1. t.err = result[r].err /\ t.url = result[r].url /\ t.status = status
    BY <1>1 DEF Result
  <2>2. result' = [result EXCEPT ![r] = t]
    BY <1>3
  <2> QED  BY <1>1, <2>1, <2>2
<1>4. CASE ViewByID(sess(r), TRUE)
  <2> DEFINE status == IF result[r].status = "" THEN session'[sess(r)].status ELSE result[r].status
  <2>1. \/ result' = [result EXCEPT ![r].status = status, ![r].named = TRUE]
        \/ Return(r, "", 0, IF result[r].err = "" THEN "view" ELSE result[r].err)
    BY DEF View
  <2> QED  BY <1>2, <1>3, <2>1
<1> QED  BY <1>2, <1>4 DEF View

\* What a step makes of the locals of its request, and that a claim is not
\* forgotten.
LEMMA LocalEffect ==
  ASSUME TypeInv, Locals, NEW r \in Requests, RequestStep(r)
  PROVE  /\ \A q \in Requests \ {r} : result'[q] = result[q]
         /\ pc'[r] \notin {"view", "answered"} => result'[r].err \in {"", "internal"}
         /\ pc'[r] # "answered" => ~result'[r].named
         /\ Claimed(r) => Claimed(r)'
<1>1. /\ TypeOK /\ result \in [Requests -> Result] /\ pc[r] \in Running \cup {"idle", "answered"}
      /\ pc[r] \notin {"view", "answered"} => result[r].err \in {"", "internal"}
      /\ pc[r] # "answered" => ~result[r].named
  BY DEF TypeInv, TypeOK, Locals
<1>2. \A status, url, err : Return(r, status, url, err) =>
        /\ result'[r].err = err /\ result'[r].named = result[r].named
        /\ \A q \in Requests \ {r} : result'[q] = result[q]
  <2>1. result \in [Requests -> Result]
    BY <1>1
  <2> QED  BY <2>1, ReturnEffect
<1>3. CASE Lookup(r)
  BY <1>1, <1>2, <1>3, LookupEffect DEF Moves, Claimed, Driving
<1>4. CASE Consume(r)
  <2>1. pc[r] = "consume" /\ ~Claimed(r)
    BY <1>1, <1>4, ConsumeEffect DEF Claimed, Driving
  <2>2. CASE pc'[r] = "resume" /\ UNCHANGED result
    BY <1>1, <2>1, <2>2
  <2>3. CASE pc'[r] = "view" /\ \E refusal \in {"terminal", "resuming"} : Return(r, "", 0, refusal)
    <3>1. PICK refusal : Return(r, "", 0, refusal)
      BY <2>3
    <3>2. result'[r].named = result[r].named /\ \A q \in Requests \ {r} : result'[q] = result[q]
      BY <1>2, <3>1
    <3> QED  BY <1>1, <2>1, <2>3, <3>2
  <2> QED  BY <1>1, <1>4, <2>2, <2>3, ConsumeEffect DEF Moves
<1>5. CASE DrivesOn(r)
  <2>1. /\ pc[r] \in Driving /\ pc'[r] \in Driving
        /\ \/ result' = result
           \/ \E status \in Status : \E err \in {"", "internal"} : Return(r, status, 0, err)
    BY <1>1, <1>5, DrivesOnEffect, DriveOutcome DEF Driving, Holding
  <2>2. /\ result'[r].err \in {"", "internal"} /\ ~result'[r].named
        /\ \A q \in Requests \ {r} : result'[q] = result[q]
    BY <1>1, <1>2, <2>1 DEF Driving
  <2> QED  BY <2>1, <2>2 DEF Claimed
<1>6. CASE Redirect(r)
  BY <1>1, <1>6, RedirectEffect DEF Moves, Claimed
<1>7. CASE Restatus(r)
  <2>1. pc[r] = "restatus" /\ pc'[r] = "view" /\ Return(r, "authorizing", handle[r], "")
    BY <1>1, <1>7, RestatusStep DEF Moves
  <2> QED  BY <1>1, <1>2, <2>1 DEF Claimed
<1>8. CASE FinalizeSession(r)
  BY <1>1, <1>8, FinalizeStep DEF Moves, Claimed
<1>9. CASE View(r)
  <2>1. pc[r] = "view" /\ pc'[r] = "answered"
    BY <1>1, <1>9, ViewEffect DEF Moves
  <2>2. result'[r].err \in {result[r].err, "view"} /\ (result'[r].err = "view" => result[r].err \in {"", "view"})
    BY <1>1, <1>9, ViewResult
  <2> QED  BY <1>1, <1>9, <2>1, <2>2, ViewResult DEF Claimed, Driving
<1> QED  BY <1>3, <1>4, <1>5, <1>6, <1>7, <1>8, <1>9 DEF RequestStep

LEMMA NextLocals == TypeInv /\ Locals /\ [Next]_vars => Locals'
<1> SUFFICES ASSUME TypeInv, Locals, [Next]_vars PROVE Locals'
  OBVIOUS
<1>1. UNCHANGED <<pc, result>> => Locals'
  BY DEF Locals
<1>2. ASSUME NEW c \in Corr, Start(c) \/ BeginFails(c) \/ BeginUpdate(c) \/ Poll(c) PROVE Locals'
  BY <1>1, <1>2, StartEffect, PollEffect DEF BeginFails, BeginUpdate, requestVars, TypeInv
<1>3. ASSUME NEW r \in Requests, RequestStep(r) PROVE Locals'
  <2>1. \A q \in Requests \ {r} : pc'[q] = pc[q]
    BY <1>3, RequestFrame
  <2>2. /\ \A q \in Requests \ {r} : result'[q] = result[q]
        /\ pc'[r] \notin {"view", "answered"} => result'[r].err \in {"", "internal"}
        /\ pc'[r] # "answered" => ~result'[r].named
    BY <1>3, LocalEffect
  <2> QED  BY <2>1, <2>2 DEF Locals
<1>4. CASE Tick \/ UNCHANGED vars
  BY <1>1, <1>4 DEF Tick, vars, requestVars
<1> QED  BY <1>2, <1>3, <1>4, NextCases DEF RequestStep

-----------------------------------------------------------------------------
\* Journeys that are in order

Overdue(c) == clock > session[c].expiresAt

\* The state that r presents is the pending one, or was claimed before.
Presented(r) ==
  \/ session[sess(r)].oauthState = state(r)
  \/ \E q \in Requests : token[q] = token[r] /\ Claimed(q)

\* A callback answered with this result sends the browser on.
Onward(r) ==
  \/ /\ pc[r] = "view"
     /\ result[r].status \in TerminalStatus \/ (result[r].err = "" /\ result[r].url = 0)
  \/ pc[r] = "answered" /\ result[r].url = 0 /\ returnsToApplication(result[r])

\* Request r of journey c and the session agree: nobody else has interfered.
InStep(c, r) ==
  /\ pc[r] \in (Driving \ {"finalize"}) \cup {"restatus"} => ~Terminal(session[c])
  /\ pc[r] = "finalize" \/ Onward(r) => Terminal(session[c])
  /\ pc[r] \in Holding => session[c].handle = handle[r]
  /\ pc[r] = "restatus" => session[c].oauthState = handle[r] /\ ~session[c].resuming
  /\ pc[r] = "consume" => Presented(r)

\* Where nobody holds the claim, the next callback will find what it needs.
Waiting(c) ==
  /\ begun[c] = "stored" => session[c].oauthState = 1 /\ ~session[c].resuming
  /\ begun[c] = "answered" /\ ~session[c].resuming /\ ~Terminal(session[c]) =>
       session[c].oauthState # 0 /\ session[c].handle = session[c].oauthState

Steady(c) ==
  /\ Waiting(c)
  /\ \A r \in Requests : sess(r) = c => InStep(c, r)

\* It stays so until the session expires or a state is claimed twice.
Orderly == \A c \in Corr : Doubled(c) \/ Overdue(c) \/ Steady(c)

LEMMA SameStep ==
  ASSUME NEW c \in Corr, NEW r \in Requests, sess(r) = c, InStep(c, r), session'[c] = session[c],
         token' = token, pc'[r] = pc[r], handle'[r] = handle[r], result'[r] = result[r],
         \A q \in Requests : Claimed(q) => Claimed(q)'
  PROVE  InStep(c, r)'
<1>1. Onward(r)' <=> Onward(r)
  BY DEF Onward
<1>2. Presented(r) => Presented(r)'
  BY DEF Presented
<1> QED  BY <1>1, <1>2 DEF InStep, Terminal

\* A request that is not driving c while another changes the session.
LEMMA Bystander ==
  ASSUME NEW c \in Corr, NEW r \in Requests, sess(r) = c, InStep(c, r),
         token' = token, pc'[r] = pc[r], handle'[r] = handle[r], result'[r] = result[r],
         pc[r] \notin Driving \cup {"restatus"},
         Terminal(session[c]) => Terminal(session'[c]),
         pc[r] = "consume" => Presented(r)'
  PROVE  InStep(c, r)'
<1>1. Onward(r)' <=> Onward(r)
  BY DEF Onward
<1>2. pc[r] \notin Holding
  BY DEF Holding, Driving
<1> QED  BY <1>1, <1>2 DEF InStep

\* While no state is claimed twice, no two requests stand between SetState
\* and the write of the status, and nobody claims the session of one.
LEMMA OneRedirect ==
  ASSUME OutcomeInv, NEW r \in Requests, NEW q \in Requests, r # q, sess(q) = sess(r),
         pc[r] = "restatus", InStep(sess(r), r), InStep(sess(r), q)
  PROVE  pc[q] # "restatus"
<1>1. handle[r] > 1 /\ handle[r] \in Nat
  BY DEF OutcomeInv, ClaimInv, TypeInv, TypeOK, Fresh, Holding
<1>2. pc[q] = "restatus" => handle[q] = handle[r]
  BY DEF InStep
<1>3. pc[q] = "restatus" => Issued(r) = handle[r] /\ Issued(q) = handle[q]
  BY DEF Issued
<1> QED  BY <1>1, <1>2, <1>3 DEF OutcomeInv, Fresh

\* Every step of a request keeps a journey in order.
LEMMA RequestSteady ==
  ASSUME OutcomeInv, Admitted, Locals, NEW p \in Requests, RequestStep(p), NEW c \in Corr,
         Steady(c), ~Overdue(c), ~Doubled(c)'
  PROVE  Steady(c)'
<1>1. /\ ClaimInv /\ TypeInv /\ TypeOK /\ StoreTypeOK /\ HandleHeld /\ ClaimExclusive
      /\ session[c] \in Session /\ sess(p) \in Corr /\ state(p) \in Step
      /\ result \in [Requests -> Result] /\ handle \in [Requests -> 0..MaxStep]
      /\ \A q \in Requests : state(q) \in Step /\ token[q] = <<sess(q), state(q)>>
  BY TokenType DEF OutcomeInv, ClaimInv, TypeInv, TypeOK, StoreTypeOK
<1>2. /\ token' = token /\ begun' = begun
      /\ \A q \in Requests \ {p} :
           pc'[q] = pc[q] /\ handle'[q] = handle[q] /\ result'[q] = result[q]
  BY <1>1, RequestFrame, LocalEffect
<1>3. \A q \in Requests : Claimed(q) => Claimed(q)'
  BY <1>1, <1>2, LocalEffect DEF Claimed
<1>3a. \A status, url, err : Return(p, status, url, err) =>
         /\ result'[p].status = status /\ result'[p].url = url /\ result'[p].err = err
         /\ result'[p].named = result[p].named
  <2>1. result \in [Requests -> Result]
    BY <1>1
  <2> QED  BY <2>1, ReturnEffect
<1>4. Waiting(c) /\ \A q \in Requests : sess(q) = c => InStep(c, q)
  BY DEF Steady
<1>5. ~Expired(session[c])
  BY DEF Overdue, Expired
<1>6. session[c].resuming => session[c].oauthState = 0
  BY DEF OutcomeInv, StatesHidden, Hidden
<1>7. ASSUME session'[c] = session[c], sess(p) = c => InStep(c, p)' PROVE Steady(c)'
  <2>1. Waiting(c)'
    BY <1>2, <1>4, <1>7 DEF Waiting, Terminal
  <2>2. ASSUME NEW q \in Requests, sess(q) = c PROVE InStep(c, q)'
    BY <1>2, <1>3, <1>4, <1>7, <2>2, SameStep
  <2> QED  BY <1>2, <2>1, <2>2 DEF Steady
<1>8. CASE sess(p) # c
  BY <1>1, <1>7, <1>8, RequestFrame
<1>9. ASSUME sess(p) = c, Peeks(c), InStep(c, p)' PROVE Steady(c)'
  <2>1. session'[c] = session[c]
    BY <1>1, <1>5, <1>9, ExpireEffect DEF Peeks
  <2> QED  BY <1>7, <1>9, <2>1
\* The session changes, and p is the only one to act on it.
<1>10. ASSUME sess(p) = c, InStep(c, p)', Waiting(c)',
              Terminal(session[c]) => Terminal(session'[c]),
              \A q \in Requests \ {p} : sess(q) = c =>
                pc[q] \notin Driving \cup {"restatus"} /\ (pc[q] = "consume" => Presented(q)')
       PROVE  Steady(c)'
  <2>1. ASSUME NEW q \in Requests, q # p, sess(q) = c PROVE InStep(c, q)'
    BY <1>2, <1>4, <1>10, <2>1, Bystander
  <2> QED  BY <1>2, <1>10, <2>1 DEF Steady
<1>11. sess(p) = c => begun[c] = "answered"
  BY <1>1, RequestFrame, DisclosedBegun DEF ClaimInv
<1>12. \A q \in Requests :
         (\E x \in Requests : token[x] = token[q] /\ Claimed(x)') => Presented(q)'
  BY <1>2 DEF Presented
<1>13. ASSUME sess(p) = c, pc[p] \in Driving
       PROVE  /\ session[c].resuming /\ session[c].oauthState = 0
              /\ \A q \in Requests \ {p} : sess(q) = c =>
                   pc[q] \notin Driving \cup {"restatus"} /\ (pc[q] = "consume" => Presented(q)')
  <2>1. session[c].resuming /\ \A q \in Requests \ {p} : sess(q) = c => pc[q] \notin Driving
    BY <1>1, <1>13 DEF ClaimExclusive, Drives
  <2>2. ASSUME NEW q \in Requests \ {p}, sess(q) = c PROVE pc[q] # "restatus"
    BY <1>4, <2>1, <2>2 DEF InStep
  <2>3. ASSUME NEW q \in Requests \ {p}, sess(q) = c, pc[q] = "consume" PROVE Presented(q)'
    <3>1. session[c].oauthState # state(q)
      BY <1>1, <1>6, <2>1 DEF Step
    <3>2. \E x \in Requests : token[x] = token[q] /\ Claimed(x)
      BY <1>4, <2>3, <3>1 DEF InStep, Presented
    <3> QED  BY <1>3, <1>12, <3>2
  <2> QED  BY <1>6, <2>1, <2>2, <2>3
<1>14. CASE sess(p) = c /\ Lookup(p)
  <2>1. Peeks(c) /\ session' = session
    BY <1>1, <1>5, <1>14, LookupEffect, ExpireEffect DEF Peeks
  <2>2. CASE pc'[p] = "consume"
    <3>1. token[p] \in byState
      BY <1>1, <1>14, <2>2, LookupEffect DEF Moves
    <3>2. session[c].oauthState = state(p)
      <4>1. token[p] = <<c, state(p)>> /\ state(p) \in Step
        BY <1>1, <1>14
      <4> HIDE DEF state
      <4> QED  BY <3>1, <4>1 DEF OutcomeInv, Indexed
    <3>3. Presented(p)'
      BY <1>2, <1>14, <2>1, <3>2 DEF Presented
    <3> QED  BY <1>9, <1>14, <2>1, <2>2, <3>3 DEF InStep, Onward, Driving, Holding
  <2>3. CASE pc'[p] = "answered" /\ Return(p, "", 0, "unknown_state")
    <3>1. result'[p].err = "unknown_state" /\ result'[p].named = result[p].named
      BY <1>3a, <2>3
    <3>2. ~result[p].named
      BY <1>1, <1>14, LookupEffect DEF Locals
    <3>3. ~Onward(p)'
      BY <2>3, <3>1, <3>2 DEF Onward, returnsToApplication
    <3> QED  BY <1>9, <1>14, <2>1, <2>3, <3>3 DEF InStep, Driving, Holding
  <2> QED  BY <1>1, <1>14, <2>2, <2>3, LookupEffect DEF Moves
<1>15. CASE sess(p) = c /\ Consume(p)
  <2>1. pc[p] = "consume" /\ Presented(p)
    BY <1>1, <1>4, <1>15, ConsumeEffect DEF InStep
  <2>2. ASSUME Peeks(c), pc'[p] = "view", NEW refusal \in {"terminal", "resuming"},
               Return(p, "", 0, refusal)
        PROVE  Steady(c)'
    <3>1. result'[p].err # "" /\ result'[p].status = ""
      BY <1>3a, <2>2
    <3>2. ~Onward(p)'
      BY <2>2, <3>1 DEF Onward, TerminalStatus
    <3> QED  BY <1>9, <1>15, <2>2, <3>2 DEF InStep, Driving, Holding
  <2>3. CASE ConsumeForResume(c, "claimed") /\ pc'[p] = "resume"
    <3>1. /\ ~Terminal(session[c]) /\ ~session[c].resuming /\ session'[c].resuming
          /\ session'[c].status = session[c].status
      BY <1>1, <2>3, ClaimEffect
    <3>2. Claimed(p)' /\ ~Claimed(p)
      BY <2>1, <2>3 DEF Claimed, Driving
    \* p is the first to claim with its state ...
    <3>3. session[c].oauthState = state(p)
      <4>1. ASSUME NEW q \in Requests, token[q] = token[p], Claimed(q) PROVE FALSE
        <5>1. q # p /\ Claimed(q)' /\ sess(q) = c
          BY <1>3, <1>15, <3>2, <4>1
        <5>2. token'[p] = token'[q] /\ sess(p)' = c
          BY <1>2, <1>15, <4>1
        <5> QED  BY <3>2, <5>1, <5>2 DEF Doubled
      <4> QED  BY <1>15, <2>1, <4>1 DEF Presented
    \* ... which is not that of a redirect nobody has seen yet.
    <3>4. ASSUME NEW q \in Requests \ {p}, sess(q) = c PROVE pc[q] \notin Driving \cup {"restatus"}
      <4>1. pc[q] \notin Driving
        BY <1>1, <3>1, <3>4 DEF ClaimExclusive, Drives
      <4>2. pc[q] = "restatus" => state(p) # handle[q]
        BY <1>15, <2>1, <3>4, ClaimantIsOld
      <4> QED  BY <1>4, <3>3, <3>4, <4>1, <4>2 DEF InStep
    <3>5. ASSUME NEW q \in Requests \ {p}, sess(q) = c, pc[q] = "consume" PROVE Presented(q)'
      <4>1. CASE session[c].oauthState = state(q)
        <5>1. token[p] = token[q]
          BY <1>1, <1>15, <3>3, <3>5, <4>1
        <5> QED  BY <1>12, <3>2, <5>1
      <4>2. CASE session[c].oauthState # state(q)
        BY <1>3, <1>4, <1>12, <3>5, <4>2 DEF InStep, Presented
      <4> QED  BY <4>1, <4>2
    <3>6. Waiting(c)' /\ ~Terminal(session'[c])
      BY <1>2, <1>11, <1>15, <3>1 DEF Waiting, Terminal
    <3>7. InStep(c, p)'
      BY <2>3, <3>6 DEF InStep, Onward, Holding
    <3> QED  BY <1>10, <1>15, <3>1, <3>4, <3>5, <3>6, <3>7
  <2> QED  BY <1>1, <1>15, <2>2, <2>3, ConsumeEffect DEF Moves
<1>16. CASE sess(p) = c /\ DrivesOn(p)
  <2>1. pc[p] \in Driving \ {"finalize"} /\ SameClaim(c)
    BY <1>1, <1>16, DrivesOnEffect DEF Drove
  <2>2. ~Terminal(session[c]) /\ session'[c].resuming
    BY <1>4, <1>13, <1>16, <2>1 DEF InStep, SameClaim
  <2>3. Waiting(c)'
    BY <1>2, <1>11, <1>16, <2>2 DEF Waiting
  <2>4. InStep(c, p)'
    <3>1. CASE pc'[p] = "finalize" /\ Terminal(session'[c])
      BY <3>1 DEF InStep, Onward, Holding
    <3>2. CASE /\ pc'[p] \in Holding \ {"restatus"} /\ session'[c].status = session[c].status
               /\ session'[c].handle = handle'[p]
      BY <2>2, <3>2 DEF InStep, Onward, Holding, Terminal
    <3> QED  BY <1>1, <1>16, <3>1, <3>2, DriveOutcome
  <2> QED  BY <1>10, <1>13, <1>16, <2>1, <2>2, <2>3, <2>4
<1>17. CASE sess(p) = c /\ Redirect(p)
  <2>1. /\ pc[p] = "redirect" /\ SetState(c, handle[p]) /\ pc'[p] = "restatus"
        /\ handle' = handle /\ handle[p] \in Step /\ handle[p] # 0
    BY <1>1, <1>17, RedirectEffect DEF Moves, HandleHeld, Holding, Step
  <2>2. /\ session'[c].oauthState = handle[p] /\ ~session'[c].resuming
        /\ session'[c].handle = session[c].handle /\ session'[c].status = session[c].status
    BY <1>1, <2>1, SetStateEffect
  <2>3. ~Terminal(session[c]) /\ session[c].handle = handle[p]
    BY <1>4, <1>17, <2>1 DEF InStep, Driving, Holding
  <2>4. Waiting(c)'
    BY <1>2, <1>11, <1>17, <2>1, <2>2, <2>3 DEF Waiting
  <2>5. InStep(c, p)'
    BY <2>1, <2>2, <2>3 DEF InStep, Onward, Terminal
  <2> QED  BY <1>10, <1>13, <1>17, <2>1, <2>3, <2>4, <2>5 DEF Driving
<1>18. CASE sess(p) = c /\ Restatus(p)
  <2>1. /\ pc[p] = "restatus" /\ pc'[p] = "view" /\ SameClaim(c)
        /\ session'[c].handle = session[c].handle /\ session'[c].status = "authorizing"
        /\ Return(p, "authorizing", handle[p], "") /\ handle[p] # 0
    BY <1>1, <1>18, RestatusStep DEF Moves, Drove, HandleHeld, Holding
  <2>2. ~Terminal(session[c]) /\ ~session[c].resuming /\ ~Terminal(session'[c])
    BY <1>4, <1>18, <2>1 DEF InStep, Terminal, TerminalStatus
  <2>3. Waiting(c)'
    BY <1>2, <1>4, <1>11, <1>18, <2>1, <2>2 DEF Waiting, SameClaim
  <2>4. ASSUME NEW q \in Requests \ {p}, sess(q) = c
        PROVE  pc[q] \notin Driving \cup {"restatus"} /\ (pc[q] = "consume" => Presented(q)')
    <3>1. pc[q] \notin Driving
      BY <1>1, <2>2, <2>4 DEF ClaimExclusive, Drives
    <3>2. pc[q] # "restatus"
      BY <1>4, <1>18, <2>1, <2>4, OneRedirect
    <3>3. Presented(q) => Presented(q)'
      BY <1>2, <1>3, <2>1, <2>4 DEF Presented, SameClaim
    <3> QED  BY <1>4, <2>4, <3>1, <3>2, <3>3 DEF InStep
  <2>5. result'[p].status = "authorizing" /\ result'[p].url = handle[p]
    BY <1>3a, <2>1
  <2>6. ~Onward(p)'
    BY <2>1, <2>5 DEF Onward, TerminalStatus
  <2>7. InStep(c, p)'
    BY <2>1, <2>6 DEF InStep, Driving, Holding
  <2> QED  BY <1>10, <1>18, <2>2, <2>3, <2>4, <2>7
<1>19. CASE sess(p) = c /\ FinalizeSession(p)
  <2>1. pc[p] = "finalize" /\ Finalize(c) /\ pc'[p] = "view"
    BY <1>1, <1>19, FinalizeStep DEF Moves
  <2>2. Terminal(session[c]) /\ Terminal(session'[c])
    BY <1>1, <1>4, <1>19, <2>1, FinalizeEffect DEF InStep, Terminal
  <2>3. Waiting(c)' /\ InStep(c, p)'
    BY <1>2, <1>11, <1>19, <2>1, <2>2 DEF Waiting, InStep, Driving, Holding
  <2> QED  BY <1>10, <1>13, <1>19, <2>1, <2>2, <2>3 DEF Driving
<1>20. CASE sess(p) = c /\ View(p)
  <2>1. pc[p] = "view" /\ pc'[p] = "answered" /\ Peeks(c) /\ session' = session
    BY <1>1, <1>5, <1>20, ViewEffect, ExpireEffect DEF Moves, Peeks
  <2>2. ~result[p].named
    BY <2>1 DEF Locals
  <2>3. Onward(p)' => Terminal(session[c])
    <3>1. CASE /\ result'[p].err = result[p].err /\ result'[p].url = result[p].url
               /\ result'[p].status = IF result[p].status = "" THEN session'[c].status
                                                               ELSE result[p].status
      BY <1>4, <1>20, <2>1, <3>1 DEF InStep, Onward, returnsToApplication, Terminal
    <3>2. CASE /\ result'[p].named = result[p].named /\ result'[p].err # ""
      BY <2>1, <2>2, <3>2 DEF Onward, returnsToApplication
    <3> QED  BY <1>1, <1>20, <3>1, <3>2, ViewResult
  <2>4. InStep(c, p)'
    BY <2>1, <2>3 DEF InStep, Driving, Holding
  <2> QED  BY <1>9, <1>20, <2>1, <2>4
<1> QED  BY <1>8, <1>14, <1>15, <1>16, <1>17, <1>18, <1>19, <1>20 DEF RequestStep

\* A start begins a journey that no request has come to yet.
LEMMA StartSteady ==
  ASSUME ClaimInv, NEW c \in Corr, Start(c)
  PROVE  Steady(c)'
<1>1. TypeOK /\ StoreTypeOK /\ Unbegun
  BY DEF ClaimInv, TypeInv, TypeOK
<1>2. /\ begun[c] = "no" /\ begun'[c] = "stored" /\ UNCHANGED requestVars
      /\ session'[c].oauthState = 1 /\ ~session'[c].resuming
  BY <1>1, StartEffect, NewEffect
<1>3. \A r \in Requests : sess(r) = c => pc[r] = "idle"
  BY <1>1, <1>2 DEF Unbegun
<1> QED  BY <1>2, <1>3 DEF Steady, Waiting, InStep, Onward, Driving, Holding, requestVars

\* A step of no request of c, and none that changes its session.
LEMMA SameSteady ==
  ASSUME NEW c \in Corr, Doubled(c) \/ Overdue(c) \/ Steady(c), ~Doubled(c)', ~Overdue(c),
         session'[c] = session[c], begun'[c] = begun[c], UNCHANGED <<token, pc, handle, result>>
  PROVE  Steady(c)'
<1>1. \A q \in Requests : Claimed(q)' <=> Claimed(q)
  BY DEF Claimed
<1>2. Steady(c)
  BY <1>1 DEF Doubled
<1>3. \A q \in Requests : sess(q) = c => InStep(c, q)'
  BY <1>1, <1>2, SameStep DEF Steady
<1>4. Waiting(c)'
  BY <1>2 DEF Steady, Waiting, Terminal
<1> QED  BY <1>3, <1>4 DEF Steady

LEMMA NextOrderly == OutcomeInv /\ Admitted /\ Locals /\ Orderly /\ [Next]_vars => Orderly'
<1> SUFFICES ASSUME OutcomeInv, Admitted, Locals, Orderly, [Next]_vars, NEW c \in Corr,
                    ~Doubled(c)', ~Overdue(c)'
             PROVE  Steady(c)'
  BY DEF Orderly
<1>1. /\ ClaimInv /\ TypeInv /\ TypeOK /\ StoreTypeOK /\ Unbegun
      /\ clock \in Nat /\ session \in [Corr -> Session] /\ session[c].expiresAt \in Nat
      /\ Doubled(c) \/ Overdue(c) \/ Steady(c)
  BY DEF OutcomeInv, ClaimInv, TypeInv, TypeOK, StoreTypeOK, Session, Orderly
<1>2. ASSUME session'[c].expiresAt = session[c].expiresAt, clock' \in {clock, clock + 1}
      PROVE  ~Overdue(c)
  BY <1>1, <1>2 DEF Overdue
<1>3. ASSUME NEW d \in Corr, Start(d) PROVE Steady(c)'
  <2>1. CASE d = c
    BY <1>1, <1>3, <2>1, StartSteady
  <2>2. CASE d # c
    <3>1. Others(d) /\ begun'[c] = begun[c] /\ UNCHANGED <<clock, requestVars>>
      BY <1>1, <1>3, <2>2, StartEffect, NewEffect
    <3>2. session'[c] = session[c] /\ UNCHANGED <<token, pc, handle, result, clock>>
      BY <2>2, <3>1 DEF Others, requestVars
    <3> QED  BY <1>1, <1>2, <3>1, <3>2, SameSteady
  <2> QED  BY <2>1, <2>2
<1>4. ASSUME NEW d \in Corr, BeginFails(d) PROVE Steady(c)'
  <2>1. /\ session' = session /\ UNCHANGED <<token, pc, handle, result, clock>>
        /\ begun[d] = "no" /\ begun' = [begun EXCEPT ![d] = "refused"]
    BY <1>4 DEF BeginFails, requestVars
  <2>2. CASE d # c
    BY <1>1, <1>2, <2>1, <2>2, SameSteady DEF TypeOK
  <2>3. CASE d = c
    <3>1. begun'[c] = "refused" /\ \A r \in Requests : sess(r) = c => pc'[r] = "idle"
      BY <1>1, <2>1, <2>3 DEF TypeOK, Unbegun
    <3> QED  BY <2>1, <3>1 DEF Steady, Waiting, InStep, Onward, Driving, Holding
  <2> QED  BY <2>2, <2>3
<1>5. ASSUME NEW d \in Corr, BeginUpdate(d) PROVE Steady(c)'
  <2>1. /\ Others(d) /\ SameClaim(d) /\ session'[d].handle = 1
        /\ UNCHANGED <<token, pc, handle, result, clock>>
        /\ begun[d] = "stored" /\ begun' = [begun EXCEPT ![d] = "answered"]
    BY <1>1, <1>5, BeginUpdateEffect DEF BeginUpdate, requestVars
  <2>2. CASE d # c
    BY <1>1, <1>2, <2>1, <2>2, SameSteady DEF TypeOK, Others
  <2>3. CASE d = c
    <3>1. /\ begun'[c] = "answered" /\ \A r \in Requests : sess(r) = c => pc[r] = "idle"
      BY <1>1, <2>1, <2>3 DEF TypeOK, Unbegun
    <3>2. ~Doubled(c)
      BY <3>1 DEF Doubled, Claimed, Driving
    <3>3. Waiting(c)
      BY <1>1, <1>2, <2>1, <2>3, <3>2 DEF SameClaim, Steady
    <3>4. Waiting(c)'
      BY <2>1, <2>3, <3>1, <3>3 DEF Waiting, SameClaim
    <3> QED  BY <2>1, <3>1, <3>4 DEF Steady, InStep, Onward, Driving, Holding
  <2> QED  BY <2>2, <2>3
<1>6. ASSUME NEW d \in Corr, Poll(d) PROVE Steady(c)'
  <2>1. Peeks(d) /\ begun' = begun /\ UNCHANGED <<token, pc, handle, result, clock>>
    BY <1>6, PollEffect DEF requestVars
  <2>2. session'[c].expiresAt = session[c].expiresAt
    BY <1>1, <2>1, PeekEffect DEF Others
  <2>3. ~Overdue(c) /\ ~Expired(session[c])
    BY <1>2, <2>1, <2>2 DEF Overdue, Expired
  <2>4. session'[c] = session[c]
    <3>1. CASE d = c
      BY <1>1, <2>1, <2>3, <3>1, ExpireEffect DEF Peeks
    <3>2. CASE d # c
      BY <1>1, <2>1, <3>2, PeekEffect DEF Others
    <3> QED  BY <3>1, <3>2
  <2> QED  BY <1>1, <2>1, <2>3, <2>4, SameSteady
<1>7. ASSUME NEW r \in Requests, RequestStep(r) PROVE Steady(c)'
  <2>1. /\ session'[c].expiresAt = session[c].expiresAt /\ clock' = clock /\ token' = token
        /\ \A q \in Requests \ {r} : pc'[q] = pc[q] /\ result'[q] = result[q]
        /\ Claimed(r) => Claimed(r)'
    BY <1>1, <1>7, RequestKeepsExpiry, RequestFrame, LocalEffect
  <2>2. \A q \in Requests : Claimed(q) => Claimed(q)'
    BY <2>1 DEF Claimed
  <2>3. ~Doubled(c) /\ ~Overdue(c)
    BY <1>2, <2>1, <2>2 DEF Doubled
  <2> QED  BY <1>1, <1>7, <2>3, RequestSteady
<1>8. CASE Tick
  BY <1>1, <1>2, <1>8, SameSteady DEF Tick, requestVars
<1>9. CASE UNCHANGED vars
  BY <1>1, <1>2, <1>9, SameSteady DEF vars, requestVars
<1> QED  BY <1>3, <1>4, <1>5, <1>6, <1>7, <1>8, <1>9, NextCases DEF RequestStep

LEMMA InitOrderly == Init => Admitted /\ Locals /\ Orderly
<1> SUFFICES ASSUME Init PROVE Admitted /\ Locals /\ Orderly
  OBVIOUS
<1>1. \A r \in Requests : pc[r] = "idle" /\ result[r] = NoResult
  BY DEF Init
<1>2. \A c \in Corr : begun[c] = "no"
  BY DEF Init
<1>3. Admitted
  BY <1>1 DEF Admitted
<1>4. Locals
  <2>1. NoResult.err = "" /\ ~NoResult.named
    BY DEF NoResult
  <2> QED  BY <1>1, <2>1 DEF Locals
<1>5. Orderly
  BY <1>1, <1>2 DEF Orderly, Steady, Waiting, InStep, Onward, Driving, Holding
<1> QED  BY <1>3, <1>4, <1>5

LEMMA OrderlyInvariant == Spec => [](OutcomeInv /\ Locals /\ Orderly)
<1>1. OutcomeInv => TypeInv
  BY DEF OutcomeInv, ClaimInv
<1> QED  BY <1>1, InitOutcome, NextOutcome, InitOrderly, NextAdmitted, NextLocals, NextOrderly, PTL
         DEF Spec

-----------------------------------------------------------------------------
\* Nobody is stranded: where no state was claimed twice, a journey that
\* waits has a handle and the pending state that goes with it, and the index
\* finds it.
THEOREM PendingStaysResumable == Spec => []PendingIsResumable
<1>1. OutcomeInv /\ Orderly => PendingIsResumable
  <2> SUFFICES ASSUME OutcomeInv, Orderly, NEW c \in Corr, Pending(c), ~Doubled(c)
               PROVE  Resumable(c)
    BY DEF PendingIsResumable
  <2>1. /\ TypeOK /\ ClaimExclusive /\ Indexed /\ session[c] \in Session
    BY DEF OutcomeInv, ClaimInv, TypeInv, TypeOK, StoreTypeOK
  <2>2. /\ ~Terminal(session[c]) /\ ~Overdue(c) /\ begun[c] = "answered" /\ c \in byID
    BY DEF Pending, Expired, Overdue, Terminal, TerminalStatus
  <2>3. ~session[c].resuming
    BY <2>1 DEF Pending, Attended, ClaimExclusive, Drives
  <2>4. session[c].oauthState # 0 /\ session[c].handle = session[c].oauthState
    BY <2>2, <2>3 DEF Orderly, Steady, Waiting
  <2>5. session[c].oauthState \in Step
    BY <2>1, <2>4 DEF Session, Step
  <2>6. <<c, session[c].oauthState>> \in byState
    BY <2>1, <2>2, <2>5 DEF Indexed
  <2> QED  BY <2>4, <2>6 DEF Resumable, IndexEntry
<1> QED  BY <1>1, OrderlyInvariant, PTL

=============================================================================
