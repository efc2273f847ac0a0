---------------------------- MODULE AnswerProofs ----------------------------
(***************************************************************************)
(* Proofs about what the callers of the gateway are told: that a journey   *)
(* signs last, that nobody is refused without a cause, that the end a      *)
(* completion reports stays the end, that no browser is sent on to the     *)
(* application before its journey is decided, and that the flow implements *)
(* JourneyOutcome.                                                         *)
(***************************************************************************)
EXTENDS ResumableProofs

USE DEF sess, state

-----------------------------------------------------------------------------
\* The document

\* A failed step leaves the journey declined or failed, and says so.
LEMMA FailedVerdict ==
  ASSUME NEW r \in Requests, Failed(r)
  PROVE  \E status \in {"failed", "declined"}, reason \in Reason :
           fail(r, status, reason) /\ Return(r, status, 0, "")
<1>1. PICK verdict \in {<<"declined", "declined">>, <<"failed", "outcome">>} :
        fail(r, verdict[1], verdict[2]) /\ Return(r, verdict[1], 0, "")
  BY DEF Failed
<1>2. verdict[1] \in {"failed", "declined"} /\ verdict[2] \in {"declined", "outcome"}
  OBVIOUS
<1>3. {"declined", "outcome"} \subseteq Reason
  BY DEF Reason
<1> QED  BY <1>1, <1>2, <1>3

\* Only a step of kind done writes the document of a journey.
LEMMA DocumentEffect ==
  ASSUME TypeInv, NEW r \in Requests, RequestStep(r), ~Done(r)
  PROVE  session'[sess(r)].pdf = session[sess(r)].pdf
<1>1. /\ TypeOK /\ StoreTypeOK /\ sess(r) \in Corr /\ handle[r] \in 0..MaxStep /\ HandleHeld
  BY TokenType DEF TypeInv, TypeOK
<1>2. CASE Lookup(r) \/ View(r)
  BY <1>1, <1>2, LookupEffect, ViewEffect, PeekEffect
<1>3. CASE Consume(r)
  BY <1>1, <1>3, ConsumeEffect, ClaimEffect, PeekEffect
<1>4. CASE Redirect(r)
  <2>1. handle[r] \in Step
    BY <1>1, <1>4, RedirectEffect DEF HandleHeld, Holding, Step
  <2> QED  BY <1>1, <1>4, <2>1, RedirectEffect, SetStateEffect
<1>5. CASE Restatus(r) \/ FinalizeSession(r)
  BY <1>1, <1>5, RestatusStep, FinalizeStep, FinalizeEffect
<1>6. CASE ResumeRedirect(r) \/ PerformHttp(r) \/ HttpError(r) \/ Failed(r) \/ Malformed(r)
  <2>1. /\ "failed" \in Status /\ "declined" \in Status
        /\ {"resume_error", "upstream_error", "declined", "outcome"} \subseteq Reason
    BY DEF Status, Reason
  <2>2. ASSUME NEW status \in {"failed", "declined"}, NEW reason \in Reason, fail(r, status, reason)
        PROVE  session'[sess(r)].pdf = session[sess(r)].pdf
    BY <1>1, <2>1, <2>2, FailEffect
  <2>3. ASSUME NEW n, NEW step \in SdkRedirectStep(handle[r], n) \cup SdkStep(handle[r]),
               Advance(r, step)
        PROVE  session'[sess(r)].pdf = session[sess(r)].pdf
    <3>1. handle[r] + 1 \in 0..MaxStep
      BY <1>1, <2>3, SdkStepNext, StoreAssumption DEF StoreAssumption, Step
    <3> QED  BY <1>1, <2>3, <3>1, AdvanceEffect
  <2>4. ResumeError(r) => session'[sess(r)].pdf = session[sess(r)].pdf
    BY <2>1, <2>2 DEF ResumeError
  <2>5. CASE ResumeRedirect(r) \/ PerformHttp(r)
    BY <2>3, <2>4, <2>5 DEF ResumeRedirect, PerformHttp
  <2>6. CASE HttpError(r) \/ Malformed(r)
    BY <2>1, <2>2, <2>6 DEF HttpError, Malformed
  <2>7. CASE Failed(r)
    BY <2>2, <2>7, FailedVerdict
  <2> QED  BY <1>6, <2>5, <2>6, <2>7
<1> QED  BY <1>2, <1>3, <1>4, <1>5, <1>6 DEF RequestStep, DrivesOn

\* A journey that has its document holds no handle any more: the session
\* has none for the next claimant, and its driver none to resume.
Signed(c) ==
  session[c].pdf # 0 =>
    /\ begun[c] = "answered"
    /\ Len(spent[c]) = session[c].pdf - 1
    /\ ~session[c].resuming => session[c].handle = 0
    /\ \A q \in Requests : Drives(q, c) =>
         pc[q] = "finalize" \/ (pc[q] = "resume" /\ handle[q] = 0)

Signing == \A c \in Corr : Signed(c)

\* A step that writes no document, uses up no handle and gives nobody the
\* claim.
LEMMA SameSigned ==
  ASSUME NEW c \in Corr, Signed(c), session'[c].pdf = session[c].pdf,
         spent'[c] = spent[c], begun[c] = "answered" => begun'[c] = "answered", token' = token,
         ~session'[c].resuming => session'[c].handle = 0 \/
             (~session[c].resuming /\ session'[c].handle = session[c].handle),
         \A q \in Requests : sess(q) = c =>
           \/ pc'[q] = pc[q] /\ handle'[q] = handle[q]
           \/ pc'[q] \notin Driving
           \/ pc'[q] = "finalize"
  PROVE  Signed(c)'
  BY DEF Signed, Drives, Driving

LEMMA NextSigning == ClaimInv /\ Ordered /\ Signing /\ [Next]_vars => Signing'
<1> SUFFICES ASSUME ClaimInv, Ordered, Signing, [Next]_vars, NEW c \in Corr PROVE Signed(c)'
  BY DEF Signing
<1>1. /\ TypeInv /\ TypeOK /\ StoreTypeOK /\ HandleHeld /\ Signed(c) /\ OrderOf(c)
      /\ ClaimExclusive
  BY DEF ClaimInv, TypeInv, TypeOK, Signing, Ordered
\* Another journey, or none, takes the step.
<1>2. ASSUME session'[c] = session[c], UNCHANGED <<token, pc, handle, spent>>,
             begun[c] = "answered" => begun'[c] = "answered"
      PROVE  Signed(c)'
  BY <1>1, <1>2, SameSigned
<1>3. ASSUME NEW d \in Corr, Start(d) \/ BeginFails(d) \/ BeginUpdate(d) PROVE Signed(c)'
  <2>1. /\ begun[d] # "answered" /\ Others(d) /\ UNCHANGED <<token, pc, handle, spent>>
        /\ \A e \in Corr \ {d} : begun'[e] = begun[e]
    BY <1>1, <1>3, BeginEffect DEF Start, BeginFails, BeginUpdate
  <2>2. CASE d # c
    BY <1>2, <2>1, <2>2 DEF Others
  <2>3. CASE d = c
    <3>1. session[c].pdf = 0
      BY <1>1, <2>1, <2>3 DEF Signed
    <3>2. session'[c].pdf = 0
      BY <1>1, <1>3, <2>3, <3>1, StartEffect, NewEffect, BeginUpdateEffect DEF BeginFails
    <3> QED  BY <3>2 DEF Signed
  <2> QED  BY <2>2, <2>3
<1>4. ASSUME NEW d \in Corr, Peeks(d), UNCHANGED <<token, pc, handle, spent, begun>>
      PROVE  Signed(c)'
  <2>1. CASE d = c
    BY <1>1, <1>4, <2>1, PeekEffect, SameSigned
  <2>2. CASE d # c
    BY <1>1, <1>2, <1>4, <2>2, PeekEffect DEF Others
  <2> QED  BY <2>1, <2>2
<1>5. ASSUME NEW d \in Corr, Poll(d) PROVE Signed(c)'
  BY <1>4, <1>5, PollEffect DEF requestVars
<1>6. ASSUME NEW r \in Requests, RequestStep(r) PROVE Signed(c)'
  <2>1. /\ sess(r) \in Corr /\ token' = token /\ begun' = begun /\ handle[r] \in 0..MaxStep
        /\ \A q \in Requests \ {r} : pc'[q] = pc[q] /\ handle'[q] = handle[q]
    BY <1>1, <1>6, TokenType, RequestFrame DEF TypeOK
  <2>2. CASE sess(r) # c
    BY <1>1, <1>6, <2>1, <2>2, RequestFrame, SameSigned
  <2>3. ASSUME sess(r) = c, Peeks(c), pc'[r] \notin Driving, spent' = spent PROVE Signed(c)'
    BY <1>1, <2>1, <2>3, PeekEffect, SameSigned
  <2>4. CASE sess(r) = c /\ (Lookup(r) \/ View(r))
    BY <1>1, <2>3, <2>4, LookupEffect, ViewEffect DEF Moves, Driving
  <2>5. CASE sess(r) = c /\ Consume(r)
    <3>1. CASE /\ ConsumeForResume(c, "claimed") /\ Moves(r, "resume")
               /\ handle' = [handle EXCEPT ![r] = session[c].handle]
      <4>1. ~session[c].resuming /\ session'[c].resuming /\ session'[c].pdf = session[c].pdf
        BY <1>1, <3>1, ClaimEffect
      <4>2. \A q \in Requests : ~Drives(q, c)
        BY <1>1, <4>1 DEF ClaimExclusive
      <4>3. pc'[r] = "resume" /\ handle'[r] = session[c].handle /\ spent' = spent
        BY <1>1, <2>5, <3>1, ConsumeEffect DEF Moves, TypeOK
      <4> QED  BY <1>1, <2>1, <4>1, <4>2, <4>3 DEF Signed, Drives
    <3>2. CASE Peeks(c) /\ Moves(r, "view")
      BY <1>1, <2>3, <2>5, <3>2, ConsumeEffect DEF Moves, Driving
    <3> QED  BY <1>1, <2>5, <3>1, <3>2, ConsumeEffect
  <2>6. CASE sess(r) = c /\ DrivesOn(r)
    <3>1. /\ pc[r] \in Driving \ {"finalize"} /\ Drove(r) /\ Drives(r, c)
          /\ session[c].resuming /\ session'[c].resuming
          /\ \A q \in Requests \ {r} : sess(q) = c => pc[q] \notin Driving
      BY <1>1, <2>6, DrivesOnEffect DEF ClaimExclusive, Drives, Drove, SameClaim
    <3>2. CASE session[c].pdf # 0
      <4>1. pc[r] = "resume" /\ handle[r] = 0
        BY <1>1, <3>1, <3>2 DEF Signed
      <4>2. pc'[r] = "finalize" /\ spent' = spent /\ ~Done(r)
        BY <1>1, <2>6, <4>1, DrivesOnEffect
           DEF Advancing, Ending, Spending, Step, Moves, Done
      <4>3. session'[c].pdf = session[c].pdf
        BY <1>1, <1>6, <2>6, <4>2, DocumentEffect
      <4> QED  BY <1>1, <2>1, <3>1, <4>2, <4>3, SameSigned
    <3>3. CASE session[c].pdf = 0 /\ Done(r)
      <4>1. pc[r] = "done" /\ pc'[r] = "finalize" /\ spent' = spent
        BY <1>1, <3>3 DEF Done, Goto, TypeOK
      <4>2. session'[c].pdf = handle[r] /\ Len(spent[c]) = handle[r] - 1
        BY <1>1, <2>1, <2>6, <3>3, <4>1, DoneEffect DEF OrderOf, Holding, TypeOK
      <4>3. begun[c] = "answered"
        BY <1>1, <1>6, <2>6, RequestFrame, DisclosedBegun DEF ClaimInv
      <4> QED  BY <2>1, <3>1, <4>1, <4>2, <4>3 DEF Signed, Drives
    <3>4. CASE session[c].pdf = 0 /\ ~Done(r)
      BY <1>1, <1>6, <2>6, <3>4, DocumentEffect DEF Signed
    <3> QED  BY <3>2, <3>3, <3>4
  <2>7. CASE sess(r) = c /\ Redirect(r)
    <3>1. pc[r] = "redirect" /\ Drives(r, c)
      BY <1>1, <2>7, RedirectEffect DEF Drives, Driving
    <3>2. session[c].pdf = 0
      BY <1>1, <3>1 DEF Signed
    <3>3. ~Done(r)
      BY <3>1 DEF Done
    <3> QED  BY <1>1, <1>6, <2>7, <3>2, <3>3, DocumentEffect DEF Signed
  <2>8. CASE sess(r) = c /\ Restatus(r)
    <3>1. /\ Drove(r) /\ pc'[r] = "view" /\ spent' = spent
          /\ session'[c].handle = session[c].handle /\ session'[c].pdf = session[c].pdf
      BY <1>1, <2>8, RestatusStep DEF Moves
    <3> QED  BY <1>1, <2>1, <2>8, <3>1, SameSigned DEF Drove, SameClaim, Driving
  <2>9. CASE sess(r) = c /\ FinalizeSession(r)
    <3>1. /\ pc'[r] = "view" /\ spent' = spent
          /\ session'[c].handle = 0 /\ session'[c].pdf = session[c].pdf
      BY <1>1, <2>9, FinalizeStep, FinalizeEffect DEF Moves
    <3> QED  BY <1>1, <2>1, <2>9, <3>1, SameSigned DEF Driving
  <2> QED  BY <1>6, <2>2, <2>4, <2>5, <2>6, <2>7, <2>8, <2>9 DEF RequestStep
<1>7. CASE Tick
  BY <1>2, <1>7 DEF Tick, requestVars
<1>8. CASE UNCHANGED vars
  BY <1>2, <1>8 DEF vars, requestVars
<1> QED  BY <1>3, <1>5, <1>6, <1>7, <1>8, NextCases DEF RequestStep

LEMMA InitSigning == Init => Signing
<1> SUFFICES ASSUME Init, NEW c \in Corr PROVE Signed(c)
  BY DEF Signing
<1>1. session[c] = NilSession
  BY DEF Init, StoreInit
<1>2. NilSession.pdf = 0
  BY DEF NilSession
<1> QED  BY <1>1, <1>2 DEF Signed

\* Once a journey has its document, none of its handles is resumed any more,
\* whatever the SDK makes of stale states, and however many requests hold on
\* to the journey.
THEOREM SigningIsLast == Spec => []NothingAfterSigning
<1>1. Signing => NothingAfterSigning
  BY DEF Signing, Signed, NothingAfterSigning
<1> QED  BY <1>1, InitSigning, InitOrdered, InitClaim, NextClaimInv, NextOrdered, NextSigning, PTL
         DEF Spec

-----------------------------------------------------------------------------
\* Refusals

\* The redirect with state n is the pending one, or was claimed before.
Reached(c, n) ==
  \/ session[c].oauthState = n
  \/ \E q \in Requests : token[q] = <<c, n>> /\ Claimed(q)

\* No redirect of c that was issued is lost: neither the first one nor any
\* that a request has recorded.
Redeemable(c) ==
  /\ begun[c] \in {"stored", "answered"} => Reached(c, 1)
  /\ \A r \in Requests, n \in Step : sess(r) = c /\ Issued(r) = n => Reached(c, n)

\* It stays so until the session expires or a state is claimed twice.
Issuing == \A c \in Corr : Doubled(c) \/ Overdue(c) \/ Redeemable(c)

\* The pending state leaves the session with the first who presents it.
LEMMA ReachedStays ==
  ASSUME OutcomeInv, Locals, NEW r \in Requests, RequestStep(r), NEW c \in Corr,
         Steady(c), ~Overdue(c), ~Doubled(c)', NEW n \in Step, Reached(c, n)
  PROVE  Reached(c, n)'
<1>1. /\ ClaimInv /\ TypeInv /\ TypeOK /\ StoreTypeOK /\ HandleHeld /\ ClaimExclusive
      /\ sess(r) \in Corr /\ token[r] = <<sess(r), state(r)>> /\ ~Expired(session[c]) /\ n # 0
      /\ token' = token
  BY TokenType, RequestFrame
     DEF OutcomeInv, ClaimInv, TypeInv, TypeOK, Overdue, Expired, Step
<1>2. \A q \in Requests : Claimed(q) => Claimed(q)'
  BY <1>1, RequestFrame, LocalEffect DEF Claimed
<1>3. ASSUME session'[c].oauthState = session[c].oauthState PROVE Reached(c, n)'
  BY <1>1, <1>2, <1>3 DEF Reached
<1>4. ASSUME session[c].oauthState # n PROVE Reached(c, n)'
  BY <1>1, <1>2, <1>4 DEF Reached
<1>5. CASE sess(r) # c
  BY <1>1, <1>3, <1>5, RequestFrame
<1>6. ASSUME sess(r) = c, Peeks(c) PROVE Reached(c, n)'
  BY <1>1, <1>3, <1>6, ExpireEffect DEF Peeks
<1>7. CASE sess(r) = c /\ (Lookup(r) \/ View(r))
  BY <1>1, <1>6, <1>7, LookupEffect, ViewEffect
<1>8. CASE sess(r) = c /\ Consume(r)
  <2>1. pc[r] = "consume" /\ Presented(r) /\ ~Claimed(r)
    BY <1>1, <1>8, ConsumeEffect DEF Steady, InStep, Claimed, Driving
  <2>2. CASE pc'[r] = "resume"
    <3>1. Claimed(r)'
      BY <2>2 DEF Claimed, Driving
    <3>2. session[c].oauthState = state(r)
      <4>1. ASSUME NEW q \in Requests, token[q] = token[r], Claimed(q) PROVE FALSE
        BY <1>1, <1>2, <1>8, <2>1, <3>1, <4>1 DEF Doubled
      <4> QED  BY <1>8, <2>1, <4>1 DEF Presented
    <3>3. n = state(r) => Reached(c, n)'
      BY <1>1, <1>8, <3>1 DEF Reached
    <3> QED  BY <1>4, <3>2, <3>3
  <2>3. CASE Peeks(c)
    BY <1>6, <1>8, <2>3
  <2> QED  BY <1>1, <1>8, <2>2, <2>3, ConsumeEffect DEF Moves
<1>9. CASE sess(r) = c /\ (DrivesOn(r) \/ Restatus(r))
  <2>1. Drove(r)
    BY <1>1, <1>9, DrivesOnEffect, RestatusStep
  <2> QED  BY <1>3, <1>9, <2>1 DEF Drove, SameClaim
<1>10. CASE sess(r) = c /\ (Redirect(r) \/ FinalizeSession(r))
  <2>1. Drives(r, c)
    BY <1>1, <1>10, RedirectEffect, FinalizeStep DEF Drives, Driving
  <2>2. session[c].oauthState = 0
    BY <1>1, <2>1 DEF ClaimExclusive, OutcomeInv, StatesHidden, Hidden
  <2> QED  BY <1>1, <1>4, <2>2
<1> QED  BY <1>5, <1>7, <1>8, <1>9, <1>10 DEF RequestStep

LEMMA RequestRedeemable ==
  ASSUME OutcomeInv, Locals, NEW r \in Requests, RequestStep(r), NEW c \in Corr,
         Steady(c), Redeemable(c), ~Overdue(c), ~Doubled(c)'
  PROVE  Redeemable(c)'
<1>1. /\ ClaimInv /\ TypeInv /\ TypeOK /\ StoreTypeOK /\ HandleHeld /\ 1 \in Step
      /\ token' = token /\ begun' = begun
      /\ handle \in [Requests -> 0..MaxStep] /\ result \in [Requests -> Result]
  BY RequestFrame, StoreAssumption
     DEF OutcomeInv, ClaimInv, TypeInv, TypeOK, StoreAssumption, Step
<1>2. \A n \in Step : Reached(c, n) => Reached(c, n)'
  BY ReachedStays
<1>3. begun'[c] \in {"stored", "answered"} => Reached(c, 1)'
  BY <1>1, <1>2 DEF Redeemable
<1>4. ASSUME NEW q \in Requests, NEW n \in Step, sess(q) = c, Issued(q)' = n
      PROVE  Reached(c, n)'
  <2>1. CASE Issued(q)' = Issued(q)
    BY <1>2, <1>4, <2>1 DEF Redeemable
  <2>2. CASE q = r /\ Redirect(r) /\ Issued(r)' = handle[r]
    <3>1. session'[c].oauthState = n
      BY <1>1, <1>4, <2>2, RedirectEffect, SetStateEffect
    <3> QED  BY <3>1 DEF Reached
  <2>3. n # 0
    BY DEF Step
  <2> QED  BY <1>1, <1>4, <2>1, <2>2, <2>3, IssuedEffect
<1> QED  BY <1>1, <1>3, <1>4 DEF Redeemable

\* A step of no request that leaves the states of c alone.
LEMMA SameRedeemable ==
  ASSUME NEW c \in Corr, Redeemable(c), session'[c].oauthState = session[c].oauthState,
         begun'[c] \in {"stored", "answered"} => begun[c] \in {"stored", "answered"},
         UNCHANGED <<token, pc, handle, result>>
  PROVE  Redeemable(c)'
<1>1. \A q \in Requests : Claimed(q)' <=> Claimed(q)
  BY DEF Claimed
<1>2. \A q \in Requests : Issued(q)' = Issued(q)
  BY DEF Issued
<1>3. \A n \in Step : Reached(c, n) => Reached(c, n)'
  BY <1>1 DEF Reached
<1>4. 1 \in Step
  BY StoreAssumption DEF StoreAssumption, Step
<1> QED  BY <1>2, <1>3, <1>4 DEF Redeemable

\* The start issues the first redirect of its journey, and it is pending.
LEMMA StartRedeemable ==
  ASSUME OutcomeInv, NEW c \in Corr, Start(c)
  PROVE  Redeemable(c)'
<1>1. TypeOK /\ StoreTypeOK /\ Unbegun
  BY DEF OutcomeInv, ClaimInv, TypeInv, TypeOK
<1>2. begun[c] = "no" /\ session'[c].oauthState = 1 /\ UNCHANGED requestVars
  BY <1>1, StartEffect, NewEffect
<1>3. \A r \in Requests : sess(r) = c => Issued(r)' = 0
  BY <1>1, <1>2 DEF Unbegun, OutcomeInv, Fresh, Issued, requestVars
<1>4. 0 \notin Step
  BY DEF Step
<1> QED  BY <1>2, <1>3, <1>4 DEF Redeemable, Reached, requestVars

\* Who presents what never changes, and a claim is not forgotten.
LEMMA ClaimsStay ==
  ASSUME TypeInv, Locals, [Next]_vars
  PROVE  /\ token' = token
         /\ \A q \in Requests : Claimed(q) => Claimed(q)'
         /\ \A c \in Corr : Doubled(c) => Doubled(c)'
<1>1. TypeOK
  BY DEF TypeInv
<1>2. SUFFICES token' = token /\ \A q \in Requests : Claimed(q) => Claimed(q)'
  BY DEF Doubled
<1>3. UNCHANGED <<token, pc, result>> => \A q \in Requests : Claimed(q) => Claimed(q)'
  BY DEF Claimed
<1>4. ASSUME NEW c \in Corr, Start(c) \/ BeginFails(c) \/ BeginUpdate(c) \/ Poll(c)
      PROVE  UNCHANGED <<token, pc, result>>
  BY <1>1, <1>4, StartEffect, PollEffect DEF BeginFails, BeginUpdate, requestVars
<1>5. ASSUME NEW r \in Requests, RequestStep(r)
      PROVE  token' = token /\ \A q \in Requests : Claimed(q) => Claimed(q)'
  <2>1. /\ token' = token
        /\ \A q \in Requests \ {r} : pc'[q] = pc[q] /\ result'[q] = result[q]
        /\ Claimed(r) => Claimed(r)'
    BY <1>5, RequestFrame, LocalEffect
  <2> QED  BY <2>1 DEF Claimed
<1>6. CASE Tick \/ UNCHANGED vars
  BY <1>3, <1>6 DEF Tick, vars, requestVars
<1> QED  BY <1>3, <1>4, <1>5, <1>6, NextCases DEF RequestStep

\* A journey is started once, and its expiry is set then.
LEMMA OverdueStays ==
  ASSUME TypeInv, [Next]_vars, NEW c \in Corr, ~Start(c), Overdue(c)
  PROVE  Overdue(c)'
<1>1. /\ TypeOK /\ StoreTypeOK /\ clock \in Nat /\ session[c].expiresAt \in Nat
  BY DEF TypeInv, TypeOK, StoreTypeOK, Session
<1>2. ASSUME session'[c].expiresAt = session[c].expiresAt, clock' \in {clock, clock + 1}
      PROVE  Overdue(c)'
  BY <1>1, <1>2 DEF Overdue
<1>3. ASSUME NEW d \in Corr, Start(d) \/ BeginFails(d) \/ BeginUpdate(d) PROVE Overdue(c)'
  <2>1. Others(d) /\ clock' = clock
    BY <1>1, <1>3, BeginEffect DEF Start, BeginFails, BeginUpdate
  <2>2. CASE d = c
    BY <1>1, <1>2, <1>3, <2>1, <2>2, BeginUpdateEffect DEF BeginFails, SameClaim
  <2>3. CASE d # c
    BY <1>2, <2>1, <2>3 DEF Others
  <2> QED  BY <2>2, <2>3
<1>4. ASSUME NEW d \in Corr, Poll(d) PROVE Overdue(c)'
  <2>1. Peeks(d) /\ clock' = clock
    BY <1>4, PollEffect
  <2>2. session'[c].expiresAt = session[c].expiresAt
    BY <1>1, <2>1, PeekEffect DEF Others
  <2> QED  BY <1>2, <2>1, <2>2
<1>5. ASSUME NEW r \in Requests, RequestStep(r) PROVE Overdue(c)'
  BY <1>2, <1>5, RequestFrame, RequestKeepsExpiry
<1>6. CASE Tick \/ UNCHANGED vars
  BY <1>2, <1>6 DEF Tick, vars
<1> QED  BY <1>3, <1>4, <1>5, <1>6, NextCases DEF RequestStep

LEMMA NextIssuing ==
  OutcomeInv /\ Locals /\ Orderly /\ Issuing /\ [Next]_vars => Issuing'
<1> SUFFICES ASSUME OutcomeInv, Locals, Orderly, Issuing, [Next]_vars, NEW c \in Corr,
                    ~Doubled(c)', ~Overdue(c)'
             PROVE  Redeemable(c)'
  BY DEF Issuing
<1>1. /\ TypeInv /\ TypeOK /\ StoreTypeOK
      /\ begun \in [Corr -> {"no", "refused", "stored", "answered"}]
  BY DEF OutcomeInv, ClaimInv, TypeInv, TypeOK
<1>2. CASE Start(c)
  BY <1>2, StartRedeemable
<1>3. CASE ~Start(c)
  <2>1. ~Overdue(c) /\ Steady(c) /\ Redeemable(c)
    BY <1>1, <1>3, ClaimsStay, OverdueStays DEF Issuing, Orderly
  <2>2. ASSUME NEW d \in Corr, Start(d) \/ BeginFails(d) \/ BeginUpdate(d) PROVE Redeemable(c)'
    <3>1. /\ Others(d) /\ UNCHANGED <<token, pc, handle, result>>
          /\ \A e \in Corr \ {d} : begun'[e] = begun[e]
      BY <1>1, <2>2, BeginEffect DEF Start, BeginFails, BeginUpdate, requestVars
    <3>2. CASE d # c
      BY <2>1, <3>1, <3>2, SameRedeemable DEF Others
    <3>3. CASE d = c /\ BeginFails(d)
      BY <1>1, <2>1, <3>1, <3>3, SameRedeemable DEF BeginFails
    <3>4. CASE d = c /\ BeginUpdate(d)
      BY <1>1, <2>1, <3>1, <3>4, BeginUpdateEffect, SameRedeemable DEF BeginUpdate, SameClaim
    <3> QED  BY <1>3, <2>2, <3>2, <3>3, <3>4
  <2>3. ASSUME NEW d \in Corr, Poll(d) PROVE Redeemable(c)'
    <3>1. Peeks(d) /\ UNCHANGED <<begun, token, pc, handle, result>>
      BY <2>3, PollEffect DEF requestVars
    <3>2. session'[c] = session[c]
      BY <1>1, <2>1, <3>1, PeekEffect, ExpireEffect DEF Others, Peeks, Overdue, Expired
    <3> QED  BY <2>1, <3>1, <3>2, SameRedeemable
  <2>4. ASSUME NEW r \in Requests, RequestStep(r) PROVE Redeemable(c)'
    BY <2>1, <2>4, RequestRedeemable
  <2>5. CASE Tick
    BY <2>1, <2>5, SameRedeemable DEF Tick, requestVars
  <2>6. CASE UNCHANGED vars
    BY <2>1, <2>6, SameRedeemable DEF vars, requestVars
  <2> QED  BY <2>2, <2>3, <2>4, <2>5, <2>6, NextCases DEF RequestStep
<1> QED  BY <1>2, <1>3

LEMMA InitIssuing == Init => Issuing
<1> SUFFICES ASSUME Init, NEW c \in Corr PROVE Redeemable(c)
  BY DEF Issuing
<1>1. \A r \in Requests : pc[r] = "idle" /\ result[r] = NoResult
  BY DEF Init
<1>2. NoResult.url = 0 /\ 0 \notin Step
  BY DEF NoResult, Step
<1>3. begun[c] = "no" /\ \A r \in Requests : Issued(r) = 0
  BY <1>1, <1>2 DEF Init, Issued
<1> QED  BY <1>2, <1>3 DEF Redeemable

\* Another request got the claim with the state that r presents.
Beaten(r) == \E q \in Requests \ {r} : token[q] = token[r] /\ Claimed(q)

\* The lookup finds no session, and the journey is not overdue: the state
\* has left the index, and so was claimed.
LEMMA LookupRefusal ==
  ASSUME OutcomeInv, NEW r \in Requests, Lookup(r), pc'[r] # "consume",
         ~Overdue(sess(r)), Redeemable(sess(r))
  PROVE  Beaten(r)
<1> DEFINE c == sess(r)
<1>1. /\ ClaimInv /\ TypeInv /\ TypeOK /\ StoreTypeOK /\ c \in Corr /\ state(r) \in Step
      /\ token[r] = <<c, state(r)>> /\ ~Expired(session[c]) /\ pc[r] = "idle"
  BY TokenType, LookupEffect DEF OutcomeInv, ClaimInv, TypeInv, TypeOK, Overdue, Expired
<1>2. token[r] \in Disclosed /\ begun[c] = "answered"
  BY <1>1, LookupEffect, DisclosedBegun DEF ClaimInv
<1>3. c \in byID
  BY <1>1, <1>2 DEF ClaimInv, EvictedIsExpired, Overdue
<1>4. token[r] \notin byState
  <2>1. ~Goto(r, "consume")
    BY <1>1 DEF Goto, TypeOK
  <2>2. GetByState(token[r], FALSE)
    BY <2>1 DEF Lookup
  <2>3. Expire(c) => byState' = byState
    BY <1>1, ExpireEffect
  <2> QED  BY <1>1, <1>3, <2>2, <2>3 DEF GetByState
<1>5. session[c].oauthState # state(r)
  <2>1. \A d \in Corr, n \in Step : d \in byID /\ session[d].oauthState = n => <<d, n>> \in byState
    BY DEF OutcomeInv, Indexed
  <2>2. <<c, state(r)>> \notin byState
    BY <1>1, <1>4
  <2> HIDE DEF state, c
  <2> QED  BY <1>1, <1>3, <2>1, <2>2
<1>6. Reached(c, state(r))
  <2>1. CASE state(r) = 1
    BY <1>2, <2>1 DEF Redeemable
  <2>2. CASE \E q \in Requests : pc[q] = "answered" /\ sess(q) = c /\ result[q].url = state(r)
    BY <1>1, <2>2 DEF Redeemable, Issued
  <2> QED  BY <1>2, <2>1, <2>2 DEF Disclosed
<1>7. PICK q \in Requests : token[q] = token[r] /\ Claimed(q)
  BY <1>1, <1>5, <1>6 DEF Reached
<1>8. q # r
  BY <1>1, <1>7 DEF Claimed, Driving
<1> QED  BY <1>7, <1>8 DEF Beaten

\* The claim is refused, in an orderly journey: its state was claimed.
LEMMA ClaimRefusal ==
  ASSUME OutcomeInv, Admitted, NEW r \in Requests, Consume(r), pc'[r] # "resume",
         ~Overdue(sess(r)), InStep(sess(r), r)
  PROVE  Beaten(r)
<1> DEFINE c == sess(r)
<1>1. /\ ClaimInv /\ TypeInv /\ TypeOK /\ StoreTypeOK /\ c \in Corr /\ state(r) \in Step
      /\ session[c] \in Session /\ ~Expired(session[c]) /\ pc[r] = "consume"
  BY TokenType, ConsumeEffect
     DEF OutcomeInv, ClaimInv, TypeInv, TypeOK, StoreTypeOK, Overdue, Expired
<1>2. Presented(r) /\ ~Claimed(r)
  BY <1>1 DEF InStep, Claimed, Driving
<1>3. session[c].oauthState # state(r)
  <2> SUFFICES ASSUME session[c].oauthState = state(r) PROVE FALSE
    OBVIOUS
  <2>1. ~session[c].resuming
    BY <1>1 DEF OutcomeInv, StatesHidden, Hidden, Step
  <2>2. ~Terminal(session[c])
    <3> SUFFICES ASSUME Terminal(session[c]) PROVE FALSE
      OBVIOUS
    <3>1. PICK q \in Requests : sess(q) = c /\ pc[q] = "restatus" /\ handle[q] = state(r)
      BY <1>1 DEF OutcomeInv, StatesHidden, Hidden, Step
    <3> QED  BY <1>1, <3>1, ClaimantIsOld
  <2>3. expireLocked(session[c]) = session[c]
    BY <1>1, ExpiredSession
  <2>4. ~Goto(r, "resume")
    BY <1>1 DEF Goto, TypeOK
  <2> QED  BY <2>1, <2>2, <2>3, <2>4 DEF Consume, ConsumeForResume
<1> QED  BY <1>2, <1>3 DEF Presented, Beaten

\* A redirect is answered without an error.
LEMMA RestatusResult ==
  ASSUME TypeOK, NEW r \in Requests, Restatus(r)
  PROVE  result'[r].status = "authorizing" /\ result'[r].err = ""
<1> DEFINE none == ""
<1>1. result \in [Requests -> Result] /\ Return(r, "authorizing", handle[r], none)
  BY RestatusStep DEF TypeOK
<1> HIDE DEF none
<1>2. result'[r].status = "authorizing" /\ result'[r].err = none
  BY <1>1, ReturnEffect
<1> QED  BY <1>2 DEF none

LEMMA NextRefused ==
  OutcomeInv /\ Admitted /\ Locals /\ Orderly /\ Issuing /\ RefusedForCause /\ [Next]_vars
    => RefusedForCause'
<1> SUFFICES ASSUME OutcomeInv, Admitted, Locals, Orderly, Issuing, RefusedForCause, [Next]_vars,
                    NEW r \in Requests, Refused(r)', ~Doubled(sess(r))', ~Overdue(sess(r))'
             PROVE  Beaten(r)'
  BY DEF RefusedForCause, Overdue, Beaten
<1> DEFINE c == sess(r)
<1>1. /\ ClaimInv /\ TypeInv /\ TypeOK /\ StoreTypeOK /\ Unbegun /\ c \in Corr
      /\ result \in [Requests -> Result]
  BY TokenType DEF OutcomeInv, ClaimInv, TypeInv, TypeOK
<1>2. token' = token /\ \A q \in Requests : Claimed(q) => Claimed(q)'
  BY <1>1, ClaimsStay
<1>3. ASSUME Start(c) PROVE FALSE
  <2>1. pc'[r] = "idle"
    BY <1>1, <1>3, StartEffect DEF Unbegun, requestVars
  <2> QED  BY <2>1 DEF Refused
<1>4. ~Doubled(c) /\ ~Overdue(c) /\ Steady(c) /\ Redeemable(c)
  <2>1. sess(r)' = c
    BY <1>2
  <2>2. ~Doubled(c)' /\ ~Overdue(c)'
    BY <2>1 DEF Doubled, Overdue
  <2> QED  BY <1>1, <1>3, <2>2, ClaimsStay, OverdueStays DEF Orderly, Issuing
<1>5. Refused(r) => Beaten(r)
  BY <1>4 DEF RefusedForCause, Overdue, Beaten
<1>6. ASSUME UNCHANGED <<token, pc, result>> PROVE Beaten(r)'
  BY <1>5, <1>6 DEF Refused, Beaten, Claimed
<1>7. ASSUME NEW d \in Corr, Start(d) \/ BeginFails(d) \/ BeginUpdate(d) \/ Poll(d)
      PROVE  Beaten(r)'
  BY <1>1, <1>6, <1>7, StartEffect, PollEffect DEF BeginFails, BeginUpdate, requestVars
<1>8. ASSUME NEW p \in Requests, RequestStep(p) PROVE Beaten(r)'
  <2>1. \A q \in Requests \ {p} : pc'[q] = pc[q] /\ result'[q] = result[q]
    BY <1>1, <1>8, RequestFrame, LocalEffect
  <2>3. Beaten(r) => Beaten(r)'
    BY <1>2 DEF Beaten
  <2>4. CASE Refused(r)
    BY <1>5, <2>3, <2>4
  <2>5. CASE p # r
    BY <1>5, <2>1, <2>3, <2>5 DEF Refused
  <2>6. CASE p = r /\ Lookup(r)
    BY <1>4, <2>3, <2>6, LookupRefusal DEF Refused
  <2>7. CASE p = r /\ Consume(r)
    BY <1>4, <2>3, <2>7, ClaimRefusal DEF Refused, Steady
  <2>8. CASE p = r /\ (DrivesOn(r) \/ Redirect(r))
    BY <1>1, <2>8, DrivesOnEffect, RedirectEffect DEF Refused, Advancing, Ending, Moves
  <2>9. CASE p = r /\ Restatus(r)
    BY <1>1, <2>9, RestatusResult DEF Refused
  <2>10. CASE p = r /\ FinalizeSession(r)
    BY <1>1, <2>10, FinalizeStep DEF Refused, Locals
  <2>11. CASE p = r /\ View(r)
    <3>1. pc[r] = "view" /\ result'[r].err \in {result[r].err, "view"}
      BY <1>1, <2>11, ViewEffect, ViewResult
    <3>2. Refused(r)
      BY <3>1 DEF Refused
    <3> QED  BY <2>4, <3>2
  <2> QED  BY <1>8, <2>5, <2>6, <2>7, <2>8, <2>9, <2>10, <2>11 DEF RequestStep
<1>9. CASE Tick \/ UNCHANGED vars
  BY <1>6, <1>9 DEF Tick, vars, requestVars
<1> QED  BY <1>7, <1>8, <1>9, NextCases DEF RequestStep

\* The first callback for a redirect, if it comes in time, is let through,
\* whatever its rivals, expiry and evictions do meanwhile, as long as no
\* state of the journey is claimed twice.
THEOREM RefusedOnlyForCause == Spec => []RefusedForCause
<1>1. Init => RefusedForCause
  BY DEF Init, RefusedForCause, Refused
<1>2. OutcomeInv => TypeInv
  BY DEF OutcomeInv, ClaimInv
<1> QED  BY <1>1, <1>2, InitOutcome, NextOutcome, InitOrderly, NextAdmitted, NextLocals, NextOrderly,
            InitIssuing, NextIssuing, NextRefused, PTL
         DEF Spec

-----------------------------------------------------------------------------
\* Answers

Busy(r) == pc[r] \in Driving \cup {"restatus"}

\* At most one request is about to write to c.
Alone(c) ==
  \A r, q \in Requests : sess(r) = c /\ sess(q) = c /\ Busy(r) /\ Busy(q) => r = q

\* The claim protects a journey beyond its release, until the status is
\* written, as long as no state is claimed twice.
Undisturbed == \A c \in Corr : Doubled(c) \/ Alone(c)

\* Nobody claims a journey while another is about to write to it: a live
\* session in that position shows a redirect nobody can have seen.
LEMMA ClaimsAlone ==
  ASSUME OutcomeInv, Admitted, Locals, Orderly, NEW r \in Requests, Consume(r), pc'[r] = "resume",
         [Next]_vars, ~Doubled(sess(r))'
  PROVE  \A q \in Requests : sess(q) = sess(r) => ~Busy(q)
<1> DEFINE c == sess(r)
<1>1. /\ ClaimInv /\ TypeInv /\ TypeOK /\ StoreTypeOK /\ ClaimExclusive /\ c \in Corr
      /\ clock \in Nat /\ session[c].expiresAt \in Nat /\ pc[r] = "consume"
      /\ ConsumeForResume(c, "claimed")
  BY TokenType, ConsumeEffect
     DEF OutcomeInv, ClaimInv, TypeInv, TypeOK, StoreTypeOK, Session, Moves
<1>2. ~session[c].resuming /\ ~Terminal(session[c]) /\ ~Overdue(c)
  BY <1>1, ClaimEffect DEF Expired, Overdue
<1>3. token' = token /\ (\A q \in Requests : Claimed(q) => Claimed(q)') /\ ~Doubled(c)
  BY <1>1, ClaimsStay DEF Doubled
<1>4. Steady(c)
  BY <1>1, <1>2, <1>3 DEF Orderly
<1>5. session[c].oauthState = state(r)
  <2>1. ASSUME NEW q \in Requests, token[q] = token[r], Claimed(q) PROVE FALSE
    <3>1. Claimed(r)' /\ Claimed(q)' /\ q # r
      BY <1>1, <1>3, <2>1 DEF Claimed, Driving
    <3> QED  BY <1>3, <2>1, <3>1 DEF Doubled
  <2>2. Presented(r)
    BY <1>1, <1>4 DEF Steady, InStep
  <2> QED  BY <2>1, <2>2 DEF Presented
<1>6. ASSUME NEW q \in Requests, sess(q) = c PROVE ~Busy(q)
  <2>1. pc[q] \notin Driving
    BY <1>1, <1>2, <1>6 DEF ClaimExclusive, Drives
  <2>2. pc[q] = "restatus" => session[c].oauthState = handle[q]
    BY <1>4, <1>6 DEF Steady, InStep
  <2>3. pc[q] = "restatus" => state(r) # handle[q]
    BY <1>1, <1>6, ClaimantIsOld
  <2> QED  BY <1>5, <2>1, <2>2, <2>3 DEF Busy
<1> QED  BY <1>6

LEMMA NextUndisturbed ==
  OutcomeInv /\ Admitted /\ Locals /\ Orderly /\ Undisturbed /\ [Next]_vars => Undisturbed'
<1> SUFFICES ASSUME OutcomeInv, Admitted, Locals, Orderly, Undisturbed, [Next]_vars,
                    NEW c \in Corr, ~Doubled(c)'
             PROVE  Alone(c)'
  BY DEF Undisturbed
<1>1. TypeInv /\ TypeOK
  BY DEF OutcomeInv, ClaimInv, TypeInv
<1>2. Alone(c) /\ token' = token
  BY <1>1, ClaimsStay DEF Undisturbed
<1>3. UNCHANGED <<token, pc>> => Alone(c)'
  BY <1>2 DEF Alone, Busy
<1>4. ASSUME NEW d \in Corr, Start(d) \/ BeginFails(d) \/ BeginUpdate(d) \/ Poll(d)
      PROVE  Alone(c)'
  BY <1>1, <1>3, <1>4, StartEffect, PollEffect DEF BeginFails, BeginUpdate, requestVars
<1>5. ASSUME NEW r \in Requests, RequestStep(r) PROVE Alone(c)'
  <2>1. \A q \in Requests \ {r} : pc'[q] = pc[q]
    BY <1>1, <1>5, RequestFrame
  <2>2. CASE Busy(r)' => Busy(r)
    BY <1>2, <2>1, <2>2 DEF Alone, Busy
  <2>3. CASE sess(r) # c
    BY <1>2, <2>1, <2>3 DEF Alone, Busy
  <2>4. CASE sess(r) = c /\ Consume(r) /\ pc'[r] = "resume"
    <3>1. ~Doubled(sess(r))'
      BY <1>2, <2>4 DEF Doubled
    <3>2. \A q \in Requests : sess(q) = sess(r) => ~Busy(q)
      BY <2>4, <3>1, ClaimsAlone
    <3> QED  BY <1>2, <2>1, <2>4, <3>2 DEF Alone, Busy
  <2>5. CASE Lookup(r) \/ (Consume(r) /\ pc'[r] # "resume") \/ View(r) \/ FinalizeSession(r)
    BY <1>1, <2>2, <2>5, LookupEffect, ConsumeEffect, ViewEffect, FinalizeStep
       DEF Busy, Moves, Driving
  <2>6. CASE DrivesOn(r) \/ Redirect(r) \/ Restatus(r)
    BY <1>1, <2>2, <2>6, DrivesOnEffect, RedirectEffect, RestatusStep DEF Busy, Driving
  <2> QED  BY <1>5, <2>3, <2>4, <2>5, <2>6 DEF RequestStep
<1>6. CASE Tick \/ UNCHANGED vars
  BY <1>3, <1>6 DEF Tick, vars, requestVars
<1> QED  BY <1>4, <1>5, <1>6, NextCases DEF RequestStep

\* A driver that ends its journey without an error tells what it has written.
LEMMA EndOutcome ==
  ASSUME TypeOK, NEW r \in Requests, DrivesOn(r), pc'[r] = "finalize"
  PROVE  result'[r].err = "" =>
           result'[r].status = session'[sess(r)].status /\ Terminal(session'[sess(r)])
<1>1. /\ StoreTypeOK /\ sess(r) \in Corr /\ handle[r] \in 0..MaxStep
      /\ pc \in [Requests -> Running \cup {"idle", "answered"}]
  BY TokenType DEF TypeOK
<1>0. result \in [Requests -> Result]
  BY DEF TypeOK
<1>2. SUFFICES result'[r].err = "" => result'[r].status = session'[sess(r)].status
  BY <1>1, DriveOutcome DEF Holding
<1>3. ASSUME NEW status, NEW err, Return(r, status, 0, err)
      PROVE  result'[r].status = status /\ result'[r].err = err
  BY <1>3, <1>0, ReturnEffect
<1>4. ASSUME NEW status \in {"failed", "declined"}, NEW reason \in Reason, fail(r, status, reason),
             Return(r, status, 0, "")
      PROVE  result'[r].status = session'[sess(r)].status
  BY <1>1, <1>3, <1>4, FailEffect DEF Status
<1>5. {"upstream_error", "declined", "outcome"} \subseteq Reason
  BY DEF Reason
<1>6. CASE ResumeRedirect(r) \/ PerformHttp(r)
  <2>1. ResumeError(r) \/ \E n : \E step \in SdkRedirectStep(handle[r], n) \cup SdkStep(handle[r]) :
                             Advance(r, step)
    BY <1>6 DEF ResumeRedirect, PerformHttp
  <2>2. ResumeError(r) => result'[r].err = "internal"
    BY <1>3 DEF ResumeError
  <2>3. ASSUME NEW n, NEW step \in SdkRedirectStep(handle[r], n) \cup SdkStep(handle[r]),
               Advance(r, step)
        PROVE  FALSE
    <3>1. step # "finalize"
      BY <1>1, <2>3, SdkStepNext
    <3>2. pc'[r] = step
      BY <1>1, <2>3 DEF Advance, Goto
    <3> QED  BY <3>1, <3>2
  <2> QED  BY <2>1, <2>2, <2>3
<1>7. CASE HttpError(r)
  BY <1>4, <1>5, <1>7 DEF HttpError
<1>8. CASE Malformed(r)
  <2>1. PICK status \in {"", "failed"} : Return(r, status, 0, "internal")
    BY <1>8 DEF Malformed
  <2>2. result'[r].err = "internal"
    BY <1>3, <2>1
  <2> QED  BY <2>2
<1>9. CASE Failed(r)
  <2>1. PICK status \in {"failed", "declined"}, reason \in Reason :
          fail(r, status, reason) /\ Return(r, status, 0, "")
    BY <1>9, FailedVerdict
  <2> QED  BY <1>4, <2>1
<1>10. CASE Done(r)
  BY <1>1, <1>3, <1>10, DoneEffect DEF Done
<1> QED  BY <1>6, <1>7, <1>8, <1>9, <1>10 DEF DrivesOn

\* Request r tells, or has told, its client of an end.
Told(r) ==
  /\ pc[r] \in {"finalize", "view", "answered"}
  /\ result[r].err = "" /\ result[r].status \in TerminalStatus

\* What r tells is what the session says, and nobody is left to change it.
Answers(r) ==
  /\ pc[r] \in {"finalize", "view"} /\ result[r].err = "" => result[r].status # ""
  /\ Told(r) /\ ~Doubled(sess(r)) =>
       /\ session[sess(r)].status = result[r].status
       /\ \A q \in Requests \ {r} : sess(q) = sess(r) => ~Busy(q)

Answering == \A r \in Requests : Answers(r)

\* Nobody starts to write, and r's result and the status of its session stay.
LEMMA SameAnswer ==
  ASSUME NEW r \in Requests, Answers(r), token' = token, Doubled(sess(r)) => Doubled(sess(r))',
         result'[r] = result[r],
         pc'[r] = pc[r] \/ pc[r] = "finalize",
         Told(r) => session'[sess(r)].status = session[sess(r)].status,
         \A q \in Requests : Busy(q)' /\ sess(q) = sess(r) => Busy(q)
  PROVE  Answers(r)'
  BY DEF Answers, Told, Doubled

\* The steps of another request of the same journey.
LEMMA RivalAnswer ==
  ASSUME OutcomeInv, Locals, [Next]_vars, NEW r \in Requests, Answers(r),
         NEW p \in Requests, p # r, RequestStep(p)
  PROVE  Answers(r)'
<1> DEFINE c == sess(r)
<1>1. /\ TypeInv /\ TypeOK /\ StoreTypeOK /\ c \in Corr /\ token' = token
      /\ \A q \in Requests \ {p} : pc'[q] = pc[q] /\ result'[q] = result[q]
      /\ Doubled(c) => Doubled(c)'
  BY TokenType, RequestFrame, LocalEffect, ClaimsStay
     DEF OutcomeInv, ClaimInv, TypeInv, TypeOK
<1>2. CASE sess(p) # c
  <2>1. session'[c] = session[c]
    BY <1>1, <1>2, RequestFrame
  <2>2. \A q \in Requests : Busy(q)' /\ sess(q) = sess(r) => Busy(q)
    BY <1>1, <1>2 DEF Busy
  <2> QED  BY <1>1, <2>1, <2>2, SameAnswer DEF Doubled
<1>3. ASSUME ~Told(r) \/ Doubled(c) PROVE Answers(r)'
  BY <1>1, <1>3 DEF Answers, Told, Doubled
<1>4. CASE sess(p) = c /\ Told(r) /\ ~Doubled(c)
  <2>1. ~Busy(p) /\ Terminal(session[c])
    BY <1>4 DEF Answers, Told, Terminal
  <2>2. ASSUME Peeks(c), ~Busy(p)' PROVE Answers(r)'
    <3>1. session'[c] = session[c]
      BY <1>1, <2>1, <2>2, PeekStatus
    <3>2. \A q \in Requests : Busy(q)' /\ sess(q) = sess(r) => Busy(q)
      BY <1>1, <2>2 DEF Busy
    <3> QED  BY <1>1, <3>1, <3>2, SameAnswer DEF Doubled
  <2>3. CASE Lookup(p) \/ View(p)
    BY <1>1, <1>4, <2>2, <2>3, LookupEffect, ViewEffect DEF Moves, Busy, Driving
  <2>4. CASE Consume(p)
    BY <1>1, <1>4, <2>1, <2>2, <2>4, ConsumeEffect, ClaimEffect DEF Moves, Busy, Driving
  <2>5. ~DrivesOn(p) /\ ~Redirect(p) /\ ~Restatus(p) /\ ~FinalizeSession(p)
    BY <1>1, <2>1, DrivesOnEffect, RedirectEffect, RestatusStep, FinalizeStep DEF Busy, Driving
  <2> QED  BY <2>3, <2>4, <2>5 DEF RequestStep
<1> QED  BY <1>2, <1>3, <1>4

\* The steps of r itself.
LEMMA OwnAnswer ==
  ASSUME OutcomeInv, Locals, Undisturbed, [Next]_vars, NEW r \in Requests, Answers(r),
         RequestStep(r)
  PROVE  Answers(r)'
<1> DEFINE c == sess(r)
<1>1. /\ TypeInv /\ TypeOK /\ StoreTypeOK /\ c \in Corr /\ token' = token
      /\ \A q \in Requests \ {r} : pc'[q] = pc[q] /\ result'[q] = result[q]
      /\ Doubled(c) => Doubled(c)'
  BY TokenType, RequestFrame, LocalEffect, ClaimsStay
     DEF OutcomeInv, ClaimInv, TypeInv, TypeOK
<1>0. result \in [Requests -> Result]
  BY <1>1 DEF TypeOK
<1>2. ASSUME pc'[r] \notin {"finalize", "view", "answered"} \/ result'[r].err # "" PROVE Answers(r)'
  BY <1>2 DEF Answers, Told
<1>3. CASE Lookup(r) \/ Consume(r)
  <2>1. ASSUME NEW err, err # "", Return(r, "", 0, err) PROVE result'[r].err # ""
    BY <1>0, <2>1, ReturnEffect
  <2>2. pc'[r] \in {"consume", "resume"} \/ result'[r].err # ""
    BY <1>1, <1>3, <2>1, LookupEffect, ConsumeEffect DEF Moves
  <2> QED  BY <1>2, <2>2
<1>4. CASE DrivesOn(r)
  <2>1. CASE pc'[r] = "finalize" /\ result'[r].err = ""
    <3>1. result'[r].status = session'[c].status /\ Terminal(session'[c])
      BY <1>1, <1>4, <2>1, EndOutcome
    <3>2. Busy(r)
      BY <1>1, <1>4, DrivesOnEffect DEF Busy
    <3>3. ~Doubled(c) => \A q \in Requests \ {r} : sess(q) = c => ~Busy(q)
      BY <1>1, <3>2 DEF Undisturbed, Alone
    <3>4. ~Doubled(c)' => \A q \in Requests \ {r} : sess(q) = c => ~Busy(q)'
      BY <1>1, <3>3 DEF Busy
    <3> QED  BY <1>1, <2>1, <3>1, <3>4 DEF Answers, Told, Terminal, TerminalStatus, Doubled
  <2>2. CASE pc'[r] \notin {"finalize", "view", "answered"}
    BY <1>2, <2>2
  <2>3. CASE result'[r].err # ""
    BY <1>2, <2>3
  <2> QED  BY <1>1, <1>4, <2>1, <2>2, <2>3, DrivesOnEffect DEF Advancing, Ending, Moves
<1>5. CASE Redirect(r)
  BY <1>1, <1>2, <1>5, RedirectEffect DEF Moves
<1>6. CASE Restatus(r)
  <2>1. result'[r].status = "authorizing"
    BY <1>1, <1>6, RestatusResult
  <2> QED  BY <2>1 DEF Answers, Told, TerminalStatus
<1>7. CASE FinalizeSession(r)
  <2>1. /\ pc[r] = "finalize" /\ pc'[r] = "view" /\ result' = result
        /\ session'[c].status = session[c].status
    BY <1>1, <1>7, FinalizeStep, FinalizeEffect DEF Moves
  <2>2. \A q \in Requests : Busy(q)' /\ sess(q) = sess(r) => Busy(q)
    BY <1>1, <2>1 DEF Busy, Driving
  <2> QED  BY <1>1, <2>1, <2>2 DEF Answers, Told, Doubled, Busy
<1>8. CASE View(r)
  <2>1. pc[r] = "view" /\ pc'[r] = "answered" /\ Peeks(c)
    BY <1>1, <1>8, ViewEffect DEF Moves
  <2>2. CASE result'[r].err # ""
    BY <1>2, <2>2
  <2>3. CASE result'[r].err = ""
    <3>1. result[r].err = "" /\ result'[r].status = result[r].status
      BY <1>1, <1>8, <2>1, <2>3, ViewResult DEF Answers
    <3>2. Terminal(session[c]) => session'[c] = session[c]
      BY <1>1, <2>1, PeekStatus
    <3>3. \A q \in Requests \ {r} : Busy(q)' <=> Busy(q)
      BY <1>1 DEF Busy
    <3> QED  BY <1>1, <2>1, <3>1, <3>2, <3>3 DEF Answers, Told, Doubled, Terminal
  <2> QED  BY <2>2, <2>3
<1> QED  BY <1>3, <1>4, <1>5, <1>6, <1>7, <1>8 DEF RequestStep

LEMMA NextAnswering ==
  OutcomeInv /\ Locals /\ Undisturbed /\ Answering /\ [Next]_vars => Answering'
<1> SUFFICES ASSUME OutcomeInv, Locals, Undisturbed, Answering, [Next]_vars, NEW r \in Requests
             PROVE  Answers(r)'
  BY DEF Answering
<1> DEFINE c == sess(r)
<1>1. /\ TypeInv /\ TypeOK /\ StoreTypeOK /\ Unbegun /\ c \in Corr /\ token' = token
      /\ Answers(r)
      /\ Doubled(c) => Doubled(c)'
  BY TokenType, ClaimsStay DEF OutcomeInv, ClaimInv, TypeInv, TypeOK, Answering
<1>2. ASSUME UNCHANGED <<token, pc, result>>, ~Told(r) \/ Doubled(c) PROVE Answers(r)'
  <2>1. (Told(r)' => Told(r)) /\ (Doubled(c) => Doubled(sess(r))')
    BY <1>1, <1>2 DEF Told, Doubled
  <2> QED  BY <1>1, <1>2, <2>1 DEF Answers, Told
<1>3. ASSUME UNCHANGED <<token, pc, result>>, Told(r) => session'[c].status = session[c].status
      PROVE  Answers(r)'
  <2>1. \A q \in Requests : Busy(q)' => Busy(q)
    BY <1>3 DEF Busy
  <2>2. Doubled(sess(r)) => Doubled(sess(r))'
    BY <1>1 DEF Doubled
  <2> QED  BY <1>1, <1>3, <2>1, <2>2, SameAnswer
<1>4. ASSUME NEW d \in Corr, Start(d) \/ BeginFails(d) \/ BeginUpdate(d) PROVE Answers(r)'
  <2>1. begun[d] # "answered" /\ Others(d) /\ UNCHANGED <<token, pc, result>>
    BY <1>1, <1>4, BeginEffect DEF Start, BeginFails, BeginUpdate, requestVars
  <2>2. Told(r) => c # d
    BY <1>1, <2>1 DEF Unbegun, Told
  <2>3. CASE ~Told(r)
    BY <1>2, <2>1, <2>3
  <2>4. CASE Told(r)
    <3>1. session'[c] = session[c]
      BY <1>1, <2>1, <2>2, <2>4 DEF Others
    <3> QED  BY <1>3, <2>1, <3>1
  <2> QED  BY <2>3, <2>4
<1>5. ASSUME NEW d \in Corr, Poll(d) PROVE Answers(r)'
  <2>1. Peeks(d) /\ UNCHANGED <<token, pc, result>>
    BY <1>5, PollEffect DEF requestVars
  <2>2. CASE d = c /\ Terminal(session[c])
    BY <1>1, <1>3, <2>1, <2>2, PeekStatus
  <2>3. CASE d = c /\ ~Terminal(session[c])
    <3>1. ~Told(r) \/ Doubled(c)
      BY <1>1, <2>3 DEF Answers, Told, Terminal
    <3> QED  BY <1>2, <2>1, <3>1
  <2>4. CASE d # c
    BY <1>1, <1>3, <2>1, <2>4, PeekEffect DEF Others
  <2> QED  BY <2>2, <2>3, <2>4
<1>6. ASSUME NEW p \in Requests, RequestStep(p) PROVE Answers(r)'
  <2>1. CASE p = r
    BY <1>1, <1>6, <2>1, OwnAnswer
  <2>2. CASE p # r
    BY <1>1, <1>6, <2>2, RivalAnswer
  <2> QED  BY <2>1, <2>2
<1>7. CASE Tick \/ UNCHANGED vars
  BY <1>3, <1>7 DEF Tick, vars, requestVars
<1> QED  BY <1>4, <1>5, <1>6, <1>7, NextCases DEF RequestStep

\* The end that a completion without an error has reported stays the end of
\* its journey, whatever other requests, polls and expiry do, as long as no
\* state of the journey is claimed twice.
THEOREM AnswersHold == Spec => []AnswerHolds
<1>1. Init => Undisturbed /\ Answering
  BY DEF Init, Undisturbed, Alone, Busy, Driving, Answering, Answers, Told
<1>2. OutcomeInv => TypeInv
  BY DEF OutcomeInv, ClaimInv
<1>3. Answering => AnswerHolds
  BY DEF Answering, Answers, Told, AnswerHolds
<1> QED  BY <1>1, <1>2, <1>3, InitOutcome, NextOutcome, InitOrderly, NextAdmitted, NextLocals,
            NextOrderly, NextUndisturbed, NextAnswering, PTL
         DEF Spec

-----------------------------------------------------------------------------
\* Browsers that are sent on

\* Nobody claims a journey that is over for good, and who drives it only
\* scrubs it.
LEMMA DecidedStays ==
  ASSUME TypeInv, Unbegun, [Next]_vars, NEW c \in Corr, begun[c] = "answered", Decided(c)
  PROVE  Decided(c)'
<1> DEFINE Writing(q) == pc[q] \in (Driving \ {"finalize"}) \cup {"restatus"}
<1>1. /\ TypeOK /\ StoreTypeOK /\ Terminal(session[c])
      /\ \A q \in Requests : sess(q) = c => ~Writing(q)
  BY DEF TypeInv, TypeOK, Decided
<1>2. ASSUME token' = token, session'[c].status = session[c].status,
             \A q \in Requests : sess(q) = c => ~Writing(q)'
      PROVE  Decided(c)'
  BY <1>1, <1>2 DEF Decided, Terminal
<1>3. ASSUME UNCHANGED <<token, pc>>, session'[c].status = session[c].status PROVE Decided(c)'
  BY <1>1, <1>2, <1>3
<1>4. ASSUME NEW d \in Corr, Start(d) \/ BeginFails(d) \/ BeginUpdate(d) PROVE Decided(c)'
  BY <1>1, <1>3, <1>4, BeginEffect DEF Others
<1>5. ASSUME NEW d \in Corr, Poll(d) PROVE Decided(c)'
  <2>1. Peeks(d) /\ UNCHANGED <<token, pc>>
    BY <1>5, PollEffect DEF requestVars
  <2>2. session'[c] = session[c]
    BY <1>1, <2>1, PeekStatus, PeekEffect DEF Others
  <2> QED  BY <1>3, <2>1, <2>2
<1>6. ASSUME NEW p \in Requests, RequestStep(p) PROVE Decided(c)'
  <2>1. token' = token /\ \A q \in Requests \ {p} : pc'[q] = pc[q]
    BY <1>6, RequestFrame
  <2>2. CASE sess(p) # c
    <3>1. session'[c] = session[c]
      BY <1>6, <2>2, RequestFrame
    <3> QED  BY <1>1, <1>2, <2>1, <2>2, <3>1
  <2>3. CASE sess(p) = c
    <3>1. ASSUME session'[c].status = session[c].status, pc'[p] \in {"consume", "view", "answered"}
          PROVE  Decided(c)'
      <4>1. ~Writing(p)'
        BY <3>1 DEF Driving
      <4> QED  BY <1>1, <1>2, <2>1, <3>1, <4>1
    <3>2. Peeks(c) => session'[c] = session[c]
      BY <1>1, PeekStatus
    <3>3. CASE Lookup(p) \/ View(p)
      BY <1>1, <2>3, <3>1, <3>2, <3>3, LookupEffect, ViewEffect DEF Moves
    <3>4. CASE Consume(p)
      BY <1>1, <2>3, <3>1, <3>2, <3>4, ConsumeEffect, ClaimEffect DEF Moves
    <3>5. CASE FinalizeSession(p)
      BY <1>1, <2>3, <3>1, <3>5, FinalizeStep, FinalizeEffect DEF Moves
    <3>6. ~Writing(p)
      BY <1>1, <2>3
    <3>7. ~DrivesOn(p) /\ ~Redirect(p) /\ ~Restatus(p)
      BY <1>1, <3>6, DrivesOnEffect, RedirectEffect, RestatusStep DEF Driving
    <3> QED  BY <1>6, <3>3, <3>4, <3>5, <3>7 DEF RequestStep
  <2> QED  BY <2>2, <2>3
<1>7. CASE Tick \/ UNCHANGED vars
  BY <1>3, <1>7 DEF Tick, vars, requestVars
<1> QED  BY <1>4, <1>5, <1>6, <1>7, NextCases DEF RequestStep

\* A callback answered with this result is sent on to the application.
Onto(res) == res.url = 0 /\ returnsToApplication(res)

\* Request r has ended its journey, and sends its browser on if it answers.
EndedBy(r) ==
  \/ pc[r] = "finalize"
  \/ pc[r] = "view" /\ result[r].err \in {"", "internal"} /\ result[r].url = 0
  \/ pc[r] = "answered" /\ result[r].err \in {"", "internal"} /\ Onto(result[r])

\* Request r has lost a race and has sent its browser on, in time.
Sent(r) == pc[r] = "answered" /\ Onto(result[r]) /\ LostInTime(r)

Deciding ==
  \A r \in Requests : (EndedBy(r) \/ Sent(r)) /\ ~Doubled(sess(r)) => Decided(sess(r))

\* Only the driver's last step ends the journey in its request's eyes, and
\* nobody else is about to write to it by then.
LEMMA OwnEnd ==
  ASSUME OutcomeInv, Undisturbed, NEW r \in Requests, RequestStep(r), NEW c \in Corr, sess(r) = c,
         ~EndedBy(r), EndedBy(r)', ~Doubled(c)
  PROVE  Decided(c)'
<1>1. /\ TypeInv /\ TypeOK /\ StoreTypeOK /\ HandleHeld /\ result \in [Requests -> Result]
      /\ handle[r] \in 0..MaxStep
      /\ token' = token /\ \A q \in Requests \ {r} : pc'[q] = pc[q]
  BY RequestFrame DEF OutcomeInv, ClaimInv, TypeInv, TypeOK
<1>2. ASSUME NEW url, NEW status, NEW err, Return(r, status, url, err)
      PROVE  result'[r].url = url /\ result'[r].err = err
  BY <1>1, <1>2, ReturnEffect
<1>3. ~Lookup(r)
  <2>1. Lookup(r) => pc'[r] = "consume" \/ (pc'[r] = "answered" /\ result'[r].err = "unknown_state")
    BY <1>1, <1>2, LookupEffect DEF Moves
  <2> QED  BY <2>1 DEF EndedBy
<1>4. ~Consume(r)
  <2>1. ASSUME Consume(r)
        PROVE  pc'[r] = "resume" \/ (pc'[r] = "view" /\ result'[r].err \in {"terminal", "resuming"})
    BY <1>1, <1>2, <2>1, ConsumeEffect DEF Moves
  <2> QED  BY <2>1 DEF EndedBy
<1>5. ~Redirect(r) /\ ~FinalizeSession(r)
  BY <1>1, RedirectEffect, FinalizeStep DEF Moves, EndedBy
<1>6. ~Restatus(r)
  <2>1. Restatus(r) => pc'[r] = "view" /\ result'[r].url = handle[r] /\ handle[r] # 0
    BY <1>1, <1>2, RestatusStep DEF Moves, HandleHeld, Holding
  <2> QED  BY <2>1 DEF EndedBy
<1>7. ~View(r)
  <2> SUFFICES ASSUME View(r) PROVE FALSE
    OBVIOUS
  <2>1. pc[r] = "view" /\ pc'[r] = "answered"
    BY <1>1, ViewEffect DEF Moves
  <2>2. result'[r].err \in {"", "internal"} /\ Onto(result'[r])
    BY <2>1 DEF EndedBy
  <2>3. result'[r].err = "" \/ result'[r].status \in TerminalStatus
    BY <2>2 DEF Onto, returnsToApplication
  <2>4. result'[r].err = result[r].err /\ result'[r].url = result[r].url
    BY <1>1, <2>2, <2>3, ViewResult DEF TerminalStatus
  <2> QED  BY <2>1, <2>2, <2>4 DEF EndedBy, Onto
<1>8. CASE DrivesOn(r)
  <2>1. pc'[r] = "finalize" /\ Terminal(session'[c]) /\ Busy(r)
    <3>1. pc'[r] \in Driving
      BY <1>1, <1>8, DriveOutcome DEF Driving, Holding
    <3>2. pc'[r] = "finalize"
      BY <3>1 DEF EndedBy, Driving
    <3> QED  BY <1>1, <1>8, <3>2, DriveOutcome, DrivesOnEffect DEF Holding, Busy
  <2>2. \A q \in Requests \ {r} : sess(q) = c => ~Busy(q)
    BY <2>1 DEF Undisturbed, Alone
  <2>3. \A q \in Requests \ {r} : sess(q) = c => pc'[q] \notin (Driving \ {"finalize"}) \cup {"restatus"}
    BY <1>1, <2>2 DEF Busy
  <2> QED  BY <1>1, <2>1, <2>3 DEF Decided
<1> QED  BY <1>3, <1>4, <1>5, <1>6, <1>7, <1>8 DEF RequestStep

\* Who lost a race and is sent on in time has seen the journey decided: its
\* session has not expired, so the view found what the winner has written.
LEMMA LostEnd ==
  ASSUME OutcomeInv, InTime, Admitted, Locals, Orderly, [Next]_vars,
         NEW r \in Requests, RequestStep(r), NEW c \in Corr, sess(r) = c,
         ~Sent(r), Sent(r)', ~Doubled(c)'
  PROVE  Decided(c)'
<1>1. /\ TypeInv /\ TypeOK /\ StoreTypeOK /\ result \in [Requests -> Result] /\ token' = token
      /\ clock' = clock /\ session'[c].expiresAt = session[c].expiresAt
      /\ clock \in Nat /\ session[c].expiresAt \in Nat /\ startedAt[r] \in Nat /\ Budget \in Nat
  BY RequestFrame, RequestKeepsExpiry, FlowAssumption
     DEF OutcomeInv, ClaimInv, TypeInv, TypeOK, StoreTypeOK, Session, FlowAssumption
<1>2. pc'[r] = "answered" /\ Onto(result'[r]) /\ result'[r].err \in {"terminal", "resuming"}
  BY DEF Sent, LostInTime
<1>3. startedAt'[r] + Budget <= session'[c].expiresAt
  BY <1>1 DEF Sent, LostInTime
<1>4. ~Lookup(r)
  <2>1. ASSUME NEW status, NEW url, NEW err, Return(r, status, url, err)
        PROVE  result'[r].err = err
    BY <1>1, <2>1, ReturnEffect
  <2>2. Lookup(r) => pc'[r] = "consume" \/ result'[r].err = "unknown_state"
    BY <1>1, <2>1, LookupEffect DEF Moves
  <2> QED  BY <1>2, <2>2
<1>5. pc[r] \in Running /\ startedAt' = startedAt
  BY <1>1, <1>4, LookupOrRunning
<1>6. ~Overdue(c)'
  BY <1>1, <1>3, <1>5 DEF InTime, Overdue
<1>7. Steady(c)'
  BY <1>6, NextOrderly DEF Orderly
<1>8. \A q \in Requests : sess(q) = c => InStep(c, q)'
  BY <1>1, <1>7 DEF Steady
<1>9. Onward(r)'
  BY <1>2 DEF Onto, Onward
<1>10. Terminal(session'[c])
  BY <1>8, <1>9 DEF InStep
<1>11. \A q \in Requests : sess(q) = c => pc'[q] \notin (Driving \ {"finalize"}) \cup {"restatus"}
  BY <1>8, <1>10 DEF InStep
<1> QED  BY <1>1, <1>10, <1>11 DEF Decided

LEMMA NextDeciding ==
  OutcomeInv /\ InTime /\ Admitted /\ Locals /\ Orderly /\ Undisturbed /\ Deciding /\ [Next]_vars
    => Deciding'
<1> SUFFICES ASSUME OutcomeInv, InTime, Admitted, Locals, Orderly, Undisturbed, Deciding,
                    [Next]_vars
             PROVE  Deciding'
  OBVIOUS
<1>0. token' = token /\ \A r \in Requests : sess(r) \in Corr
  BY ClaimsStay, TokenType DEF OutcomeInv, ClaimInv, TypeInv, TypeOK
<1> SUFFICES ASSUME NEW r \in Requests, NEW c \in Corr, sess(r) = c, ~Doubled(c)',
                    EndedBy(r)' \/ Sent(r)'
             PROVE  Decided(c)'
  BY <1>0 DEF Deciding
<1>1. /\ TypeInv /\ TypeOK /\ StoreTypeOK /\ Unbegun /\ token' = token /\ ~Doubled(c)
  BY ClaimsStay DEF OutcomeInv, ClaimInv, TypeInv, TypeOK
<1>2. ASSUME EndedBy(r) \/ Sent(r) PROVE Decided(c)'
  <2>1. pc[r] # "idle"
    BY <1>2 DEF EndedBy, Sent
  <2>2. begun[c] = "answered" /\ Decided(c)
    BY <1>1, <1>2, <2>1 DEF Unbegun, Deciding
  <2> QED  BY <1>1, <2>2, DecidedStays
<1>3. ASSUME pc'[r] = pc[r], result'[r] = result[r], startedAt'[r] = startedAt[r],
             pc[r] # "idle" => session'[c].expiresAt = session[c].expiresAt
      PROVE  Decided(c)'
  BY <1>1, <1>2, <1>3 DEF EndedBy, Sent, LostInTime
<1>4. ASSUME NEW d \in Corr, Start(d) \/ BeginFails(d) \/ BeginUpdate(d) PROVE Decided(c)'
  <2>1. /\ begun[d] # "answered" /\ Others(d) /\ UNCHANGED <<pc, result, startedAt>>
    BY <1>1, <1>4, BeginEffect DEF Start, BeginFails, BeginUpdate, requestVars
  <2>2. pc[r] # "idle" => c # d
    BY <1>1, <2>1 DEF Unbegun
  <2> QED  BY <1>3, <2>1, <2>2 DEF Others
<1>5. ASSUME NEW d \in Corr, Poll(d) PROVE Decided(c)'
  <2>1. Peeks(d) /\ UNCHANGED <<pc, result, startedAt>>
    BY <1>5, PollEffect DEF requestVars
  <2>2. session'[c].expiresAt = session[c].expiresAt
    BY <1>1, <2>1, PeekEffect DEF Others
  <2> QED  BY <1>3, <2>1, <2>2
<1>6. ASSUME NEW p \in Requests, RequestStep(p) PROVE Decided(c)'
  <2>1. CASE p = r
    BY <1>1, <1>2, <1>6, <2>1, OwnEnd, LostEnd
  <2>2. CASE p # r
    <3>1. /\ pc'[r] = pc[r] /\ startedAt'[r] = startedAt[r]
          /\ result'[r] = result[r] /\ session'[c].expiresAt = session[c].expiresAt
      BY <1>1, <1>6, <2>2, RequestFrame, LocalEffect, RequestKeepsExpiry
    <3> QED  BY <1>3, <3>1
  <2> QED  BY <2>1, <2>2
<1>7. CASE Tick \/ UNCHANGED vars
  BY <1>3, <1>7 DEF Tick, vars, requestVars
<1> QED  BY <1>4, <1>5, <1>6, <1>7, NextCases DEF RequestStep

\* A browser that was sent on to the application finds its journey decided,
\* for good, if its own request ended the journey, or if that request lost a
\* race and could not outlast the session, as long as no state of the journey
\* is claimed twice.
THEOREM ReturnedStaysSettled == Spec => []ReturnedIsSettled
<1>1. Init => InTime /\ Undisturbed /\ Deciding
  BY DEF Init, InTime, Running, Undisturbed, Alone, Busy, Driving, Deciding, EndedBy, Sent
<1>2. OutcomeInv => TypeInv
  BY DEF OutcomeInv, ClaimInv
<1>3. Deciding => ReturnedIsSettled
  BY DEF Deciding, EndedBy, Sent, Onto, ReturnedIsSettled, handleOAuthCallback
<1> QED  BY <1>1, <1>2, <1>3, InitOutcome, NextOutcome, InitOrderly, NextAdmitted, NextLocals,
            NextOrderly, NextInTime, NextUndisturbed, NextDeciding, PTL
         DEF Spec

-----------------------------------------------------------------------------
\* Every outcome is final

outcomes == [c \in Corr |-> Outcome(c)]

documents == [c \in Corr |-> IF c \in byID THEN session[c].pdf ELSE 0]

\* A journey waits, unresumed, for handleStart to answer.
Started == \A c \in Corr : begun[c] = "stored" => session[c].status = "authorizing"

LEMMA NextStarted == ClaimInv /\ Started /\ [Next]_vars => Started'
<1> SUFFICES ASSUME ClaimInv, Started, [Next]_vars, NEW c \in Corr, begun'[c] = "stored"
             PROVE  session'[c].status = "authorizing"
  BY DEF Started
<1>1. TypeInv /\ TypeOK /\ StoreTypeOK /\ Unbegun
  BY DEF ClaimInv, TypeInv, TypeOK
<1>2. UNCHANGED <<session, begun>> => session'[c].status = "authorizing"
  BY DEF Started
<1>3. ASSUME NEW d \in Corr, Start(d) PROVE session'[c].status = "authorizing"
  <2>1. New(d, 1) /\ 1 \in Step /\ \A e \in Corr \ {d} : begun'[e] = begun[e]
    BY <1>1, <1>3, StartEffect
  <2>2. session'[d].status = "authorizing" /\ Others(d)
    BY <1>1, <2>1, NewEffect
  <2> QED  BY <2>1, <2>2 DEF Started, Others
<1>4. ASSUME NEW d \in Corr, BeginUpdate(d) PROVE session'[c].status = "authorizing"
  BY <1>1, <1>4, BeginUpdateEffect DEF Started, BeginUpdate, Others, TypeOK
<1>5. ASSUME NEW d \in Corr, BeginFails(d) PROVE session'[c].status = "authorizing"
  BY <1>1, <1>5 DEF Started, BeginFails, TypeOK
<1>6. ASSUME NEW d \in Corr, Poll(d) PROVE session'[c].status = "authorizing"
  <2>1. begun[d] = "answered" /\ Peeks(d) /\ begun' = begun
    BY <1>6, PollEffect DEF Poll, requestVars
  <2> QED  BY <1>1, <2>1, PeekEffect DEF Started, Others
<1>7. ASSUME NEW r \in Requests, RequestStep(r) PROVE session'[c].status = "authorizing"
  <2>1. begun' = begun /\ begun[sess(r)] = "answered" /\ (sess(r) # c => session'[c] = session[c])
    BY <1>1, <1>7, RequestFrame, DisclosedBegun
  <2> QED  BY <2>1 DEF Started
<1> QED  BY <1>2, <1>3, <1>4, <1>5, <1>6, <1>7, NextCases DEF RequestStep, Tick, vars, requestVars

\* Only a step of kind done completes a journey.
LEMMA CompletionEffect ==
  ASSUME TypeInv, NEW r \in Requests, RequestStep(r), ~Done(r),
         session'[sess(r)].status = "completed"
  PROVE  session[sess(r)].status = "completed"
<1>1. /\ TypeOK /\ StoreTypeOK /\ sess(r) \in Corr /\ handle[r] \in 0..MaxStep /\ HandleHeld
  BY TokenType DEF TypeInv, TypeOK
<1>2. CASE Lookup(r) \/ View(r)
  BY <1>1, <1>2, LookupEffect, ViewEffect, PeekStatus
<1>3. CASE Consume(r)
  BY <1>1, <1>3, ConsumeEffect, ClaimEffect, PeekStatus
<1>4. CASE Redirect(r)
  <2>1. handle[r] \in Step
    BY <1>1, <1>4, RedirectEffect DEF HandleHeld, Holding, Step
  <2> QED  BY <1>1, <1>4, <2>1, RedirectEffect, SetStateEffect
<1>5. CASE Restatus(r) \/ FinalizeSession(r)
  BY <1>1, <1>5, RestatusStep, FinalizeStep, FinalizeEffect
<1>6. CASE DrivesOn(r)
  <2>1. pc[r] = "done" => Done(r)
    BY <1>6 DEF DrivesOn, ResumeRedirect, PerformHttp, HttpError, Failed, Malformed
  <2> QED  BY <1>1, <1>6, <2>1, DriveStatus
<1> QED  BY <1>2, <1>3, <1>4, <1>5, <1>6 DEF RequestStep

\* What a step does to the outcome of journey c: nothing; it ends it, or it
\* completes it.
SameOutcome(c) ==
  session'[c].pdf = session[c].pdf /\ (Ended(c)' <=> Ended(c))
    /\ (Ended(c) => session'[c].status = session[c].status)

Ends(c) ==
  /\ ~Ended(c) /\ Ended(c)'
  /\ session'[c].status \in {"declined", "failed"} /\ session'[c].pdf = session[c].pdf

Completes(c) ==
  /\ ~Ended(c) /\ Ended(c)'
  /\ session'[c].status = "completed" /\ session'[c].pdf \in Step

LEMMA OpenOutcome ==
  ASSUME NEW c \in Corr, ~Ended(c), session'[c].status # "completed",
         session'[c].pdf = session[c].pdf
  PROVE  SameOutcome(c) \/ Ends(c)
  BY DEF SameOutcome, Ends, Ended, Terminal, TerminalStatus

LEMMA PeekOutcome ==
  ASSUME StoreTypeOK, NEW c \in Corr, Peeks(c), Attended(c)' <=> Attended(c)
  PROVE  SameOutcome(c) \/ Ends(c)
<1>1. CASE Terminal(session[c])
  <2>1. session'[c] = session[c]
    BY <1>1, PeekStatus
  <2> QED  BY <2>1 DEF SameOutcome, Ended, Terminal
<1>2. CASE ~Terminal(session[c])
  <2>1. session'[c].pdf = session[c].pdf /\ session'[c].status # "completed" /\ ~Ended(c)
    BY <1>2, PeekStatus, PeekEffect DEF Ended, Terminal, TerminalStatus
  <2> QED  BY <2>1, OpenOutcome
<1> QED  BY <1>1, <1>2

LEMMA RequestOutcome ==
  ASSUME OutcomeInv, Concluding, [Next]_vars, NEW r \in Requests, RequestStep(r),
         NEW c \in Corr, sess(r) = c
  PROVE  SameOutcome(c) \/ Ends(c) \/ Completes(c)
<1>1. /\ TypeInv /\ TypeOK /\ StoreTypeOK /\ HandleHeld /\ token' = token
      /\ \A q \in Requests \ {r} : pc'[q] = pc[q]
  BY TokenType, RequestFrame DEF OutcomeInv, ClaimInv, TypeInv, TypeOK
<1>2. CASE session[c].status = "completed"
  <2>1. session'[c].status = "completed" /\ session'[c].pdf = session[c].pdf
    BY <1>1, <1>2, NextKeeps DEF Keeps
  <2> QED  BY <1>2, <2>1 DEF SameOutcome, Ended
<1>3. CASE Terminal(session[c]) /\ ~Attended(c)
  <2>1. pc[r] \notin Driving \cup {"restatus"}
    BY <1>3 DEF Attended
  <2>2. /\ ~DrivesOn(r) /\ ~Redirect(r) /\ ~Restatus(r) /\ ~FinalizeSession(r)
    BY <1>1, <2>1, DrivesOnEffect, RedirectEffect, RestatusStep, FinalizeStep DEF Driving
  <2>3. Peeks(c) /\ pc'[r] \notin Driving \cup {"restatus"}
    <3>1. CASE Lookup(r) \/ View(r)
      BY <1>1, <3>1, LookupEffect, ViewEffect DEF Moves, Driving
    <3>2. CASE Consume(r)
      BY <1>1, <1>3, <3>2, ConsumeEffect, ClaimEffect DEF Moves, Driving
    <3> QED  BY <2>2, <3>1, <3>2 DEF RequestStep
  <2>4. Attended(c)' <=> Attended(c)
    BY <1>1, <2>1, <2>3 DEF Attended
  <2> QED  BY <1>1, <2>3, <2>4, PeekOutcome
<1>4. CASE ~Ended(c) /\ Done(r)
  <2>1. session'[c].status = "completed" /\ session'[c].pdf = handle[r]
    BY <1>1, <1>4, DoneEffect DEF TypeOK
  <2>2. handle[r] \in Step
    <3>1. handle[r] # 0 /\ handle[r] \in 0..MaxStep
      BY <1>1, <1>4 DEF Done, HandleHeld, Holding, TypeOK
    <3> QED  BY <3>1, StoreAssumption DEF Step, StoreAssumption
  <2> QED  BY <1>4, <2>1, <2>2 DEF Completes, Ended
<1>5. CASE ~Ended(c) /\ ~Done(r)
  <2>1. session'[c].pdf = session[c].pdf /\ session'[c].status # "completed"
    BY <1>1, <1>5, DocumentEffect, CompletionEffect DEF Ended
  <2> QED  BY <1>1, <1>5, <2>1, OpenOutcome
<1> QED  BY <1>2, <1>3, <1>4, <1>5 DEF Ended

\* A journey that a step does not touch keeps its outcome and its document.
LEMMA Untouched ==
  ASSUME NEW d \in Corr, session'[d] = session[d], Attended(d)' <=> Attended(d),
         begun'[d] = begun[d], (d \in byID)' <=> d \in byID
  PROVE  Outcome(d)' = Outcome(d) /\ documents'[d] = documents[d]
<1>1. Ended(d)' <=> Ended(d)
  BY DEF Ended, Terminal
<1> QED  BY <1>1 DEF Outcome, documents

LEMMA OutcomesSame ==
  ASSUME \A d \in Corr : Outcome(d)' = Outcome(d) /\ documents'[d] = documents[d]
  PROVE  UNCHANGED <<outcomes, documents>>
  BY DEF outcomes, documents

\* A step on journey c, once it has been started.
LEMMA JourneyStep ==
  ASSUME NEW c \in Corr, begun[c] = "answered", UNCHANGED <<begun, byID>>,
         SameOutcome(c) \/ Ends(c) \/ Completes(c),
         \A d \in Corr \ {c} : session'[d] = session[d] /\ (Attended(d)' <=> Attended(d))
  PROVE  Outcomes!Next \/ UNCHANGED <<outcomes, documents>>
<1>1. \A d \in Corr \ {c} : Outcome(d)' = Outcome(d) /\ documents'[d] = documents[d]
  BY Untouched
<1>2. ASSUME Outcome(c)' = Outcome(c), documents'[c] = documents[c]
      PROVE  UNCHANGED <<outcomes, documents>>
  BY <1>1, <1>2, OutcomesSame
<1>3. CASE c \notin byID
  <2>1. Outcome(c) = "gone" /\ Outcome(c)' = "gone" /\ documents'[c] = documents[c]
    BY <1>3 DEF Outcome, documents
  <2> QED  BY <1>2, <2>1
<1>4. CASE c \in byID /\ SameOutcome(c)
  BY <1>2, <1>4 DEF SameOutcome, Outcome, documents
<1>5. CASE c \in byID /\ Ends(c)
  <2>1. PICK end \in {"declined", "failed"} : session'[c].status = end
    BY <1>5 DEF Ends
  <2>2. Outcome(c) = "open" /\ Outcome(c)' = end /\ documents'[c] = documents[c]
    BY <1>5, <2>1 DEF Ends, Outcome, documents
  <2>3. outcomes' = [outcomes EXCEPT ![c] = end] /\ documents' = documents
    BY <1>1, <2>2 DEF outcomes, documents
  <2>4. outcomes[c] = "open"
    BY <2>2 DEF outcomes
  <2> QED  BY <2>3, <2>4 DEF Outcomes!Next, Outcomes!End, outcomes, documents
<1>6. CASE c \in byID /\ Completes(c)
  <2>1. PICK pdf \in Step : session'[c].pdf = pdf
    BY <1>6 DEF Completes
  <2>2. Outcome(c) = "open" /\ Outcome(c)' = "completed" /\ documents'[c] = pdf
    BY <1>6, <2>1 DEF Completes, Outcome, documents
  <2>3. /\ outcomes' = [outcomes EXCEPT ![c] = "completed"]
        /\ documents' = [documents EXCEPT ![c] = pdf]
    BY <1>1, <2>2 DEF outcomes, documents
  <2>4. outcomes[c] = "open"
    BY <2>2 DEF outcomes
  <2> QED  BY <2>3, <2>4 DEF Outcomes!Next, Outcomes!Complete, outcomes, documents, Step
<1> QED  BY <1>3, <1>4, <1>5, <1>6

\* A start opens its journey, and forgets those it evicts.
LEMMA StartOutcome ==
  ASSUME OutcomeInv, NEW c \in Corr, Start(c)
  PROVE  Outcomes!Next
<1>1. /\ TypeOK /\ StoreTypeOK /\ byID \subseteq Corr
      /\ \A d \in Corr : begun[d] \in {"no", "refused"} => d \notin byID
  BY DEF OutcomeInv, ClaimInv, TypeInv, TypeOK, StoreTypeOK, Unbegun
<1>2. /\ begun[c] = "no" /\ begun'[c] = "stored" /\ Others(c)
      /\ \A d \in Corr \ {c} : begun'[d] = begun[d]
      /\ session'[c].status = "authorizing" /\ session'[c].pdf = 0
      /\ byID' = (byID \ Evicted) \cup {c} /\ UNCHANGED <<token, pc>>
  BY <1>1, StartEffect, NewEffect DEF requestVars
<1>3. Evicted \subseteq byID /\ c \notin byID
  BY <1>1, <1>2 DEF Evicted
<1>4. \A d \in Corr : Attended(d)' <=> Attended(d)
  BY <1>2 DEF Attended
<1>5. /\ Outcome(c) = "none" /\ Outcome(c)' = "open"
      /\ documents[c] = 0 /\ documents'[c] = 0
  BY <1>2, <1>3 DEF Outcome, Ended, Terminal, TerminalStatus, documents
<1>6. ASSUME NEW d \in Evicted
      PROVE  Outcome(d) # "none" /\ Outcome(d)' = "gone" /\ documents'[d] = 0
  <2>1. d \in Corr \ {c} /\ d \in byID /\ d \notin byID' /\ begun[d] \notin {"no", "refused"}
    BY <1>1, <1>2, <1>3
  <2>2. begun'[d] = begun[d]
    BY <1>2, <2>1
  <2>3. Outcome(d) # "none"
    BY <2>1 DEF Outcome, Ended, Terminal, TerminalStatus
  <2> QED  BY <2>1, <2>2, <2>3 DEF Outcome, documents
<1>7. ASSUME NEW d \in Corr \ {c}, d \notin Evicted
      PROVE  Outcome(d)' = Outcome(d) /\ documents'[d] = documents[d]
  <2>1. /\ session'[d] = session[d] /\ begun'[d] = begun[d]
        /\ (d \in byID)' <=> d \in byID
    BY <1>2, <1>7 DEF Others
  <2> QED  BY <1>4, <2>1, Untouched
<1>8. outcomes' = [d \in Corr |->
        IF d = c THEN "open" ELSE IF d \in Evicted THEN "gone" ELSE outcomes[d]]
  BY <1>5, <1>6, <1>7 DEF outcomes
<1>9. documents' = [d \in Corr |-> IF d \in Evicted THEN 0 ELSE documents[d]]
  BY <1>5, <1>6, <1>7 DEF documents
<1>10. outcomes[c] = "none" /\ \A d \in Evicted : outcomes[d] # "none"
  BY <1>1, <1>3, <1>5, <1>6 DEF outcomes
<1>11. Evicted \in SUBSET Corr
  BY <1>1, <1>3
<1> QED  BY <1>8, <1>9, <1>10, <1>11 DEF Outcomes!Next, Outcomes!Start, outcomes, documents

LEMMA NextOutcomes ==
  OutcomeInv /\ Concluding /\ Started /\ [Next]_vars
    => [Outcomes!Next]_<<outcomes, documents>>
<1> SUFFICES ASSUME OutcomeInv, Concluding, Started, [Next]_vars
             PROVE  Outcomes!Next \/ UNCHANGED <<outcomes, documents>>
  BY DEF outcomes, documents
<1>1. TypeInv /\ TypeOK /\ StoreTypeOK /\ Unbegun
  BY DEF OutcomeInv, ClaimInv, TypeInv, TypeOK
<1>2. UNCHANGED <<token, pc>> => \A d \in Corr : Attended(d)' <=> Attended(d)
  BY DEF Attended
<1>3. ASSUME UNCHANGED <<session, byID, begun, token, pc>>
      PROVE  UNCHANGED <<outcomes, documents>>
  BY <1>2, <1>3, Untouched, OutcomesSame
<1>4. ASSUME NEW c \in Corr, BeginFails(c) PROVE UNCHANGED <<outcomes, documents>>
  <2>1. /\ begun[c] = "no" /\ begun'[c] = "refused"
        /\ \A d \in Corr \ {c} : begun'[d] = begun[d]
        /\ UNCHANGED <<session, byID, token, pc>>
    BY <1>1, <1>4 DEF BeginFails, TypeOK, requestVars
  <2>2. Outcome(c)' = Outcome(c) /\ documents'[c] = documents[c]
    BY <2>1 DEF Outcome, documents
  <2>3. \A d \in Corr \ {c} : Outcome(d)' = Outcome(d) /\ documents'[d] = documents[d]
    BY <1>2, <2>1, Untouched
  <2> QED  BY <2>2, <2>3, OutcomesSame
<1>5. ASSUME NEW c \in Corr, BeginUpdate(c) PROVE UNCHANGED <<outcomes, documents>>
  <2>1. /\ begun[c] = "stored" /\ begun'[c] = "answered"
        /\ \A d \in Corr \ {c} : begun'[d] = begun[d]
        /\ byID' = byID /\ Others(c) /\ UNCHANGED <<token, pc>>
        /\ session[c].status = "authorizing" /\ session'[c].status = "authorizing"
        /\ session'[c].pdf = session[c].pdf
    BY <1>1, <1>5, BeginUpdateEffect DEF BeginUpdate, TypeOK, Started, requestVars
  <2>2. Outcome(c)' = Outcome(c) /\ documents'[c] = documents[c]
    BY <2>1 DEF Outcome, Ended, Terminal, TerminalStatus, documents
  <2>3. \A d \in Corr \ {c} : Outcome(d)' = Outcome(d) /\ documents'[d] = documents[d]
    BY <1>2, <2>1, Untouched DEF Others
  <2> QED  BY <2>2, <2>3, OutcomesSame
<1>6. ASSUME NEW c \in Corr, Poll(c)
      PROVE  Outcomes!Next \/ UNCHANGED <<outcomes, documents>>
  <2>1. /\ begun[c] = "answered" /\ Peeks(c) /\ UNCHANGED <<begun, token, pc>>
        /\ byID' = byID /\ Others(c)
    BY <1>1, <1>6, PollEffect, PeekEffect DEF Poll, requestVars
  <2> QED  BY <1>1, <1>2, <2>1, PeekOutcome, JourneyStep DEF Others
<1>7. ASSUME NEW r \in Requests, RequestStep(r)
      PROVE  Outcomes!Next \/ UNCHANGED <<outcomes, documents>>
  <2>1. PICK c \in Corr : sess(r) = c
    BY <1>1, TokenType
  <2>2. begun[c] = "answered" /\ UNCHANGED <<begun, byID>>
    BY <1>1, <1>7, <2>1, RequestFrame, DisclosedBegun
  <2>3. SameOutcome(c) \/ Ends(c) \/ Completes(c)
    BY <1>7, <2>1, RequestOutcome
  <2>4. \A d \in Corr \ {c} : session'[d] = session[d] /\ (Attended(d)' <=> Attended(d))
    BY <1>1, <1>7, <2>1, RequestFrame DEF Attended
  <2> QED  BY <2>2, <2>3, <2>4, JourneyStep
<1>8. CASE Tick \/ UNCHANGED vars
  BY <1>3, <1>8 DEF Tick, vars, requestVars
<1> QED  BY <1>4, <1>5, <1>6, <1>7, <1>8, StartOutcome, NextCases DEF RequestStep

\* The flow implements JourneyOutcome, if the SDK refuses a state that its
\* handle did not emit: a journey ends once, for good, and only a completed
\* one has a document, which is never replaced.
THEOREM OutcomesSettle == SdkChecksState => (Spec => Settles)
<1> SUFFICES ASSUME SdkChecksState PROVE Spec => Settles
  OBVIOUS
<1>1. Init => Outcomes!Init
  BY DEF Init, StoreInit, Outcomes!Init, Outcome
<1>2. Init => Concluding /\ Started
  <2> SUFFICES ASSUME Init PROVE Concluding /\ Started
    OBVIOUS
  <2>1. \A c \in Corr : session[c] = NilSession /\ begun[c] = "no"
    BY DEF Init, StoreInit
  <2>2. NilSession.status # "completed"
    BY DEF NilSession
  <2>3. \A r \in Requests : pc[r] = "idle"
    BY DEF Init
  <2> QED  BY <2>1, <2>2, <2>3 DEF Concluding, Concluded, Started
<1>3. OutcomeInv => ClaimInv /\ TypeInv
  BY DEF OutcomeInv, ClaimInv
<1>4. OutcomeInv /\ Admitted /\ Concluding /\ [Next]_vars => Concluding'
  BY NextConcluding
<1> QED  BY <1>1, <1>2, <1>3, <1>4, InitOutcome, NextOutcome, InitOrderly, NextAdmitted,
            NextStarted, NextOutcomes, PTL
         DEF Spec, Settles, Outcomes!Spec, outcomes, documents

=============================================================================
