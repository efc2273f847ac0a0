-------------------------- MODULE ResumeFlowProofs --------------------------
(***************************************************************************)
(* Proofs about ResumeFlow, for any set of journeys and requests and any   *)
(* TTL, retention, budget and length of a journey.                         *)
(***************************************************************************)
EXTENDS ResumeFlow, TLAPS

USE DEF sess, state

\* At these steps the request holds a handle that the SDK gave it.
Holding == {"perform_http", "redirect", "done", "failed", "malformed", "restatus"}

HandleHeld == \A r \in Requests : pc[r] \in Holding => handle[r] # 0

TypeInv == TypeOK /\ HandleHeld

-----------------------------------------------------------------------------
\* The operations of the store: what each does to the session it is called
\* on, field by field, and that it leaves the other sessions alone.

Others(c) == \A d \in Corr \ {c} : session'[d] = session[d]

LEMMA PutEffect ==
  ASSUME session \in [Corr -> Session], NEW c \in Corr, NEW s \in Session, Put(c, s)
  PROVE  session' \in [Corr -> Session] /\ session'[c] = s /\ Others(c)
  BY DEF Put, Others

\* Assigning a field of a session.
LEMMA AssignType ==
  ASSUME NEW s \in Session
  PROVE  /\ \A x \in Status : [s EXCEPT !.status = x] \in Session
         /\ \A x \in Reason : [s EXCEPT !.reason = x] \in Session
         /\ \A x \in 0..MaxStep : [s EXCEPT !.handle = x] \in Session
         /\ \A x \in 0..MaxStep : [s EXCEPT !.oauthState = x] \in Session
         /\ \A x \in BOOLEAN : [s EXCEPT !.resuming = x] \in Session
         /\ \A x \in 0..MaxStep : [s EXCEPT !.pdf = x] \in Session
         /\ \A x \in Nat : [s EXCEPT !.expiresAt = x] \in Session
<1>1. \A x \in Status : [s EXCEPT !.status = x] \in Session  BY DEF Session
<1>2. \A x \in Reason : [s EXCEPT !.reason = x] \in Session  BY DEF Session
<1>3. \A x \in 0..MaxStep : [s EXCEPT !.handle = x] \in Session  BY DEF Session
<1>4. \A x \in 0..MaxStep : [s EXCEPT !.oauthState = x] \in Session  BY DEF Session
<1>5. \A x \in BOOLEAN : [s EXCEPT !.resuming = x] \in Session  BY DEF Session
<1>6. \A x \in 0..MaxStep : [s EXCEPT !.pdf = x] \in Session  BY DEF Session
<1>7. \A x \in Nat : [s EXCEPT !.expiresAt = x] \in Session  BY DEF Session
<1> QED  BY <1>1, <1>2, <1>3, <1>4, <1>5, <1>6, <1>7

\* The fields of a session that the invariants read, after an expiry.
LEMMA ExpiredSession ==
  ASSUME NEW s \in Session
  PROVE  /\ expireLocked(s) \in Session
         /\ Expired(s) => /\ expireLocked(s).status = "failed"
                          /\ expireLocked(s).handle = 0
                          /\ expireLocked(s).oauthState = 0
         /\ ~Expired(s) => expireLocked(s) = s
         /\ expireLocked(s).resuming = s.resuming
         /\ expireLocked(s).expiresAt = s.expiresAt
         /\ expireLocked(s).pdf = s.pdf
<1> DEFINE t == [s EXCEPT !.status = "failed", !.reason = "session_expired",
                          !.handle = 0, !.oauthState = 0]
<1>1. t \in Session
  <2>1. 0 \in 0..MaxStep /\ "failed" \in Status /\ "session_expired" \in Reason
    BY StoreAssumption DEF StoreAssumption, Status, Reason
  <2>2. \A x \in Session : [x EXCEPT !.status = "failed", !.reason = "session_expired"] \in Session
    BY <2>1, AssignType DEF Session
  <2>3. \A x \in Session : [x EXCEPT !.handle = 0, !.oauthState = 0] \in Session
    BY <2>1, AssignType DEF Session
  <2> QED  BY <2>2, <2>3
<1>2. /\ t.status = "failed" /\ t.handle = 0 /\ t.oauthState = 0
      /\ t.resuming = s.resuming /\ t.expiresAt = s.expiresAt /\ t.pdf = s.pdf
  BY DEF Session
<1>3. CASE Expired(s)
  <2>1. expireLocked(s) = t  BY <1>3 DEF expireLocked
  <2> QED  BY <1>1, <1>2, <1>3, <2>1
<1>4. CASE ~Expired(s)
  <2>1. expireLocked(s) = s  BY <1>4 DEF expireLocked
  <2> QED  BY <1>4, <2>1
<1> QED  BY <1>3, <1>4

LEMMA ExpireEffect ==
  ASSUME StoreTypeOK, NEW c \in Corr, Expire(c)
  PROVE  /\ session' \in [Corr -> Session] /\ Others(c)
         /\ session'[c] = expireLocked(session[c])
         /\ byID' = byID /\ byState' \subseteq byState
         /\ ~Expired(session[c]) => session' = session /\ byState' = byState
         /\ Expired(session[c]) => byState' = byState \ IndexEntry(c)
<1>1. session[c] \in Session  BY DEF StoreTypeOK
<1>2. expireLocked(session[c]) \in Session  BY <1>1, ExpiredSession
<1>3. session' \in [Corr -> Session] /\ session'[c] = expireLocked(session[c]) /\ Others(c)
  BY <1>2, PutEffect DEF Expire, StoreTypeOK
<1>4. ~Expired(session[c]) => session' = session
  BY <1>1, ExpiredSession DEF Expire, Put, StoreTypeOK
<1> QED  BY <1>3, <1>4 DEF Expire

LEMMA ClaimEffect ==
  ASSUME StoreTypeOK, NEW c \in Corr, ConsumeForResume(c, "claimed")
  PROVE  /\ session' \in [Corr -> Session] /\ Others(c)
         /\ byID' = byID /\ byState' = byState \ IndexEntry(c)
         /\ ~Terminal(session[c]) /\ ~Expired(session[c]) /\ ~session[c].resuming
         /\ session'[c].resuming /\ session'[c].oauthState = 0
         /\ session'[c].handle = session[c].handle
         /\ session'[c].status = session[c].status
         /\ session'[c].expiresAt = session[c].expiresAt
         /\ session'[c].pdf = session[c].pdf
<1> DEFINE s == expireLocked(session[c])
           t == [s EXCEPT !.resuming = TRUE, !.oauthState = 0]
<1>1. session[c] \in Session /\ s \in Session
  BY ExpiredSession DEF StoreTypeOK
<1>2. /\ byID' = byID /\ byState' = byState \ IndexEntry(c)
      /\ ~Terminal(s) /\ ~s.resuming /\ Put(c, t)
  BY DEF ConsumeForResume
<1>3. ~Expired(session[c]) /\ s = session[c]
  <2>1. CASE Expired(session[c])
    <3>1. s.status = "failed"  BY <1>1, <2>1, ExpiredSession
    <3> QED  BY <3>1, <1>2 DEF Terminal, TerminalStatus
  <2>2. CASE ~Expired(session[c])
    BY <1>1, <2>2, ExpiredSession
  <2> QED  BY <2>1, <2>2
<1>4. t \in Session
  <2>1. 0 \in 0..MaxStep  BY StoreAssumption DEF StoreAssumption
  <2>2. [s EXCEPT !.resuming = TRUE] \in Session  BY <1>1, AssignType
  <2>3. \A x \in Session : [x EXCEPT !.oauthState = 0] \in Session
    BY <2>1, AssignType
  <2> QED  BY <2>2, <2>3, Zenon
<1>5. /\ t.resuming /\ t.oauthState = 0 /\ t.handle = s.handle
      /\ t.status = s.status /\ t.expiresAt = s.expiresAt /\ t.pdf = s.pdf
  BY <1>1 DEF Session
<1>6. session' \in [Corr -> Session] /\ session'[c] = t /\ Others(c)
  BY <1>2, <1>4, PutEffect DEF StoreTypeOK
<1> HIDE DEF s, t
<1> QED  BY <1>2, <1>3, <1>5, <1>6

\* A refusal is at most an expiry.
LEMMA RefusalEffect ==
  ASSUME StoreTypeOK, NEW c \in Corr, NEW refusal \in {"terminal", "resuming"},
         ConsumeForResume(c, refusal)
  PROVE  \/ Expire(c)
         \/ UNCHANGED <<session, byID, byState>>
  BY DEF ConsumeForResume

LEMMA SetStateEffect ==
  ASSUME StoreTypeOK, NEW c \in Corr, NEW n \in Step, SetState(c, n)
  PROVE  /\ session' \in [Corr -> Session] /\ Others(c)
         /\ byID' = byID /\ byState' = (byState \ IndexEntry(c)) \cup {<<c, n>>}
         /\ session'[c].oauthState = n /\ session'[c].resuming = FALSE
         /\ session'[c].handle = session[c].handle
         /\ session'[c].status = session[c].status
         /\ session'[c].expiresAt = session[c].expiresAt
         /\ session'[c].pdf = session[c].pdf
<1> DEFINE t == [session[c] EXCEPT !.oauthState = n, !.resuming = FALSE]
<1>1. session[c] \in Session  BY DEF StoreTypeOK
<1>2. t \in Session
  <2>1. n \in 0..MaxStep  BY StoreAssumption DEF StoreAssumption, Step
  <2>2. [session[c] EXCEPT !.oauthState = n] \in Session  BY <1>1, <2>1, AssignType
  <2>3. \A x \in Session : [x EXCEPT !.resuming = FALSE] \in Session
    BY AssignType
  <2> QED  BY <2>2, <2>3, Zenon
<1>3. /\ t.oauthState = n /\ t.resuming = FALSE /\ t.handle = session[c].handle
      /\ t.status = session[c].status /\ t.expiresAt = session[c].expiresAt
      /\ t.pdf = session[c].pdf
  BY <1>1 DEF Session
<1>4. session' \in [Corr -> Session] /\ session'[c] = t /\ Others(c)
  BY <1>2, PutEffect DEF SetState, StoreTypeOK
<1>5. byID' = byID /\ byState' = (byState \ IndexEntry(c)) \cup {<<c, n>>}
  BY DEF SetState
<1> HIDE DEF t
<1> QED  BY <1>3, <1>4, <1>5

LEMMA FinalizeEffect ==
  ASSUME StoreTypeOK, NEW c \in Corr, Finalize(c)
  PROVE  /\ session' \in [Corr -> Session] /\ Others(c)
         /\ byID' = byID /\ byState' = byState \ IndexEntry(c)
         /\ session'[c].oauthState = 0 /\ session'[c].handle = 0
         /\ session'[c].resuming = FALSE
         /\ session'[c].status = session[c].status
         /\ session'[c].expiresAt = session[c].expiresAt
         /\ session'[c].pdf = session[c].pdf
<1> DEFINE t == [session[c] EXCEPT !.oauthState = 0, !.handle = 0, !.resuming = FALSE]
<1>1. session[c] \in Session /\ 0 \in 0..MaxStep
  BY StoreAssumption DEF StoreTypeOK, StoreAssumption
<1>2. t \in Session
  <2>1. \A x \in Session : [x EXCEPT !.oauthState = 0, !.handle = 0] \in Session
    BY <1>1, AssignType DEF Session
  <2> QED  BY <1>1, <2>1, AssignType
<1>3. /\ t.oauthState = 0 /\ t.handle = 0 /\ t.resuming = FALSE
      /\ t.status = session[c].status /\ t.expiresAt = session[c].expiresAt
      /\ t.pdf = session[c].pdf
  BY <1>1 DEF Session
<1>4. session' \in [Corr -> Session] /\ session'[c] = t /\ Others(c)
  BY <1>2, PutEffect DEF Finalize, StoreTypeOK
<1>5. byID' = byID /\ byState' = byState \ IndexEntry(c)
  BY DEF Finalize
<1> HIDE DEF t
<1> QED  BY <1>3, <1>4, <1>5

\* The sessions that New evicts on its way in.
Evicted == {d \in byID : Evictable(session[d])}

LEMMA NewEffect ==
  ASSUME StoreTypeOK, NEW c \in Corr, NEW n \in Step, New(c, n)
  PROVE  /\ session' \in [Corr -> Session] /\ Others(c)
         /\ session'[c].oauthState = n /\ session'[c].handle = 0
         /\ session'[c].resuming = FALSE /\ session'[c].expiresAt = clock + TTL
         /\ session'[c].status = "authorizing" /\ session'[c].pdf = 0
         /\ byID' = (byID \ Evicted) \cup {c}
         /\ byState' = (byState \ UNION {IndexEntry(d) : d \in Evicted}) \cup {<<c, n>>}
<1> DEFINE t == [NilSession EXCEPT !.status = "authorizing", !.oauthState = n,
                                   !.expiresAt = clock + TTL]
<1>1. NilSession \in Session /\ clock + TTL \in Nat /\ n \in 0..MaxStep
  <2>1. NilSession \in Session
    BY StoreAssumption DEF StoreAssumption, NilSession, Session, Status, Reason
  <2>2. clock + TTL \in Nat /\ n \in 0..MaxStep
    BY StoreAssumption DEF StoreAssumption, StoreTypeOK, Step
  <2> QED  BY <2>1, <2>2
<1>2. t \in Session
  <2>1. \A x \in Session : [x EXCEPT !.status = "authorizing", !.oauthState = n] \in Session
    BY <1>1, AssignType DEF Session, Status
  <2> QED  BY <1>1, <2>1, AssignType
<1>3. /\ t.oauthState = n /\ t.handle = 0 /\ t.resuming = FALSE
      /\ t.status = "authorizing" /\ t.expiresAt = clock + TTL /\ t.pdf = 0
  BY DEF NilSession
<1>4. session' \in [Corr -> Session] /\ session'[c] = t /\ Others(c)
  BY <1>2, PutEffect DEF New, StoreTypeOK
<1> HIDE DEF t
<1> QED  BY <1>3, <1>4 DEF New, Evicted

\* Update, for each of the mutations it is passed.  None touches the claim,
\* the OAuth state or the expiry.
SameClaim(c) ==
  /\ session'[c].resuming = session[c].resuming
  /\ session'[c].oauthState = session[c].oauthState
  /\ session'[c].expiresAt = session[c].expiresAt

LEMMA FailEffect ==
  ASSUME StoreTypeOK, NEW r \in Requests, sess(r) \in Corr,
         NEW status \in Status, NEW reason \in Reason, fail(r, status, reason)
  PROVE  /\ session' \in [Corr -> Session] /\ Others(sess(r)) /\ SameClaim(sess(r))
         /\ byID' = byID /\ byState' = byState
         /\ session'[sess(r)].handle = session[sess(r)].handle
         /\ session'[sess(r)].status = status
         /\ session'[sess(r)].pdf = session[sess(r)].pdf
<1> DEFINE t == [session[sess(r)] EXCEPT !.status = status, !.reason = reason]
<1>1. session[sess(r)] \in Session  BY DEF StoreTypeOK
<1>2. t \in Session  BY <1>1 DEF Session
<1>3. /\ t.resuming = session[sess(r)].resuming
      /\ t.oauthState = session[sess(r)].oauthState
      /\ t.expiresAt = session[sess(r)].expiresAt
      /\ t.handle = session[sess(r)].handle /\ t.status = status
      /\ t.pdf = session[sess(r)].pdf
  BY <1>1 DEF Session
<1>4. Put(sess(r), t) /\ byID' = byID /\ byState' = byState
  BY DEF fail, Update
<1>5. session' \in [Corr -> Session] /\ session'[sess(r)] = t /\ Others(sess(r))
  BY <1>2, <1>4, PutEffect DEF StoreTypeOK
<1> HIDE DEF t
<1> QED  BY <1>3, <1>4, <1>5 DEF SameClaim

LEMMA AdvanceEffect ==
  ASSUME StoreTypeOK, NEW r \in Requests, sess(r) \in Corr, NEW step,
         handle[r] + 1 \in 0..MaxStep, Advance(r, step)
  PROVE  /\ session' \in [Corr -> Session] /\ Others(sess(r)) /\ SameClaim(sess(r))
         /\ byID' = byID /\ byState' = byState
         /\ session'[sess(r)].handle = handle[r] + 1
         /\ session'[sess(r)].status = session[sess(r)].status
         /\ session'[sess(r)].pdf = session[sess(r)].pdf
<1> DEFINE t == [session[sess(r)] EXCEPT !.handle = handle[r] + 1]
<1>1. session[sess(r)] \in Session  BY DEF StoreTypeOK
<1>2. t \in Session  BY <1>1 DEF Session
<1>3. /\ t.resuming = session[sess(r)].resuming
      /\ t.oauthState = session[sess(r)].oauthState
      /\ t.expiresAt = session[sess(r)].expiresAt
      /\ t.handle = handle[r] + 1 /\ t.status = session[sess(r)].status
      /\ t.pdf = session[sess(r)].pdf
  BY <1>1 DEF Session
<1>4. Put(sess(r), t) /\ byID' = byID /\ byState' = byState
  BY DEF Advance, Update
<1>5. session' \in [Corr -> Session] /\ session'[sess(r)] = t /\ Others(sess(r))
  BY <1>2, <1>4, PutEffect DEF StoreTypeOK
<1> HIDE DEF t
<1> QED  BY <1>3, <1>4, <1>5 DEF SameClaim

LEMMA RestatusEffect ==
  ASSUME StoreTypeOK, NEW r \in Requests, sess(r) \in Corr, Restatus(r)
  PROVE  /\ session' \in [Corr -> Session] /\ Others(sess(r)) /\ SameClaim(sess(r))
         /\ byID' = byID /\ byState' = byState
         /\ session'[sess(r)].handle = session[sess(r)].handle
         /\ session'[sess(r)].status = "authorizing"
         /\ session'[sess(r)].pdf = session[sess(r)].pdf
<1> DEFINE t == [session[sess(r)] EXCEPT !.status = "authorizing"]
<1>1. session[sess(r)] \in Session  BY DEF StoreTypeOK
<1>2. t \in Session  BY <1>1 DEF Session, Status
<1>3. /\ t.resuming = session[sess(r)].resuming
      /\ t.oauthState = session[sess(r)].oauthState
      /\ t.expiresAt = session[sess(r)].expiresAt
      /\ t.handle = session[sess(r)].handle /\ t.status = "authorizing"
      /\ t.pdf = session[sess(r)].pdf
  BY <1>1 DEF Session
<1>4. Put(sess(r), t) /\ byID' = byID /\ byState' = byState
  BY DEF Restatus, Update
<1>5. session' \in [Corr -> Session] /\ session'[sess(r)] = t /\ Others(sess(r))
  BY <1>2, <1>4, PutEffect DEF StoreTypeOK
<1> HIDE DEF t
<1> QED  BY <1>3, <1>4, <1>5 DEF SameClaim

LEMMA DoneEffect ==
  ASSUME StoreTypeOK, NEW r \in Requests, sess(r) \in Corr,
         handle[r] \in 0..MaxStep, Done(r)
  PROVE  /\ session' \in [Corr -> Session] /\ Others(sess(r)) /\ SameClaim(sess(r))
         /\ byID' = byID /\ byState' = byState
         /\ session'[sess(r)].handle = session[sess(r)].handle
         /\ session'[sess(r)].status = "completed"
         /\ session'[sess(r)].pdf = handle[r]
<1> DEFINE t == [session[sess(r)] EXCEPT !.status = "completed", !.pdf = handle[r]]
<1>1. session[sess(r)] \in Session  BY DEF StoreTypeOK
<1>2. t \in Session  BY <1>1 DEF Session, Status
<1>3. /\ t.resuming = session[sess(r)].resuming
      /\ t.oauthState = session[sess(r)].oauthState
      /\ t.expiresAt = session[sess(r)].expiresAt
      /\ t.handle = session[sess(r)].handle /\ t.status = "completed"
      /\ t.pdf = handle[r]
  BY <1>1 DEF Session
<1>4. Put(sess(r), t) /\ byID' = byID /\ byState' = byState
  BY DEF Done, Update
<1>5. session' \in [Corr -> Session] /\ session'[sess(r)] = t /\ Others(sess(r))
  BY <1>2, <1>4, PutEffect DEF StoreTypeOK
<1> HIDE DEF t
<1> QED  BY <1>3, <1>4, <1>5 DEF SameClaim

LEMMA BeginUpdateEffect ==
  ASSUME StoreTypeOK, NEW c \in Corr, BeginUpdate(c)
  PROVE  /\ session' \in [Corr -> Session] /\ Others(c) /\ SameClaim(c)
         /\ byID' = byID /\ byState' = byState
         /\ session'[c].handle = 1
         /\ session'[c].status = "authorizing" /\ session'[c].pdf = session[c].pdf
<1> DEFINE t == [session[c] EXCEPT !.handle = 1, !.status = "authorizing"]
<1>1. session[c] \in Session /\ 1 \in 0..MaxStep
  BY StoreAssumption DEF StoreTypeOK, StoreAssumption
<1>2. t \in Session  BY <1>1 DEF Session, Status
<1>3. /\ t.resuming = session[c].resuming
      /\ t.oauthState = session[c].oauthState
      /\ t.expiresAt = session[c].expiresAt
      /\ t.handle = 1 /\ t.status = "authorizing" /\ t.pdf = session[c].pdf
  BY <1>1 DEF Session
<1>4. Put(c, t) /\ byID' = byID /\ byState' = byState
  BY DEF BeginUpdate, Update
<1>5. session' \in [Corr -> Session] /\ session'[c] = t /\ Others(c)
  BY <1>2, <1>4, PutEffect DEF StoreTypeOK
<1> HIDE DEF t
<1> QED  BY <1>3, <1>4, <1>5 DEF SameClaim

-----------------------------------------------------------------------------
\* Types

LEMMA TokenType ==
  ASSUME TypeOK, NEW r \in Requests
  PROVE  sess(r) \in Corr /\ state(r) \in Step /\ token[r] = <<sess(r), state(r)>>
  BY DEF TypeOK, Token

LEMMA InitType == Init => TypeInv
<1> SUFFICES ASSUME Init PROVE TypeInv
  OBVIOUS
<1>1. NilSession \in Session
  BY StoreAssumption DEF StoreAssumption, NilSession, Session, Status, Reason
<1>2. StoreTypeOK
  BY <1>1 DEF Init, StoreInit, StoreTypeOK
<1>3. NoResult \in Result /\ 0 \in 0..MaxStep
  BY StoreAssumption DEF StoreAssumption, NoResult, Result, Status, Errors
<1>4. << >> \in Seq(Step)
  OBVIOUS
<1>5. TypeOK
  BY <1>2, <1>3, <1>4 DEF Init, TypeOK
<1>6. HandleHeld
  BY DEF Init, HandleHeld, Holding
<1> QED  BY <1>5, <1>6 DEF TypeInv

\* What the SDK answers can only be the next step.
LEMMA SdkStepNext ==
  ASSUME NEW h \in 0..MaxStep, NEW n, NEW step \in SdkRedirectStep(h, n) \cup SdkStep(h)
  PROVE  /\ h # 0 /\ h + 1 \in Step
         /\ step \in {"perform_http", "redirect", "done", "failed", "malformed"}
  BY StoreAssumption DEF StoreAssumption, SdkRedirectStep, SdkStep, stepKind, Step

LEMMA ReturnType ==
  ASSUME result \in [Requests -> Result], NEW r \in Requests, NEW status \in Status,
         NEW url \in 0..MaxStep, NEW err \in Errors, Return(r, status, url, err)
  PROVE  /\ result' \in [Requests -> Result]
         /\ result'[r].status = status /\ result'[r].url = url /\ result'[r].err = err
         /\ \A q \in Requests \ {r} : result'[q] = result[q]
<1> DEFINE t == [result[r] EXCEPT !.status = status, !.url = url, !.err = err]
<1>1. result' = [result EXCEPT ![r] = t]
  BY DEF Return
<1>2. t \in Result
  <2>1. \A x \in Result : [x EXCEPT !.status = status] \in Result  BY DEF Result
  <2>2. \A x \in Result : [x EXCEPT !.url = url, !.err = err] \in Result  BY DEF Result
  <2> QED  BY <2>1, <2>2
<1>3. t.status = status /\ t.url = url /\ t.err = err
  BY DEF Result
<1> QED  BY <1>1, <1>2, <1>3

\* Request r moves on to another step; the others stay where they are.
Moves(r, step) ==
  /\ pc' \in [Requests -> Running \cup {"idle", "answered"}]
  /\ pc'[r] = step
  /\ \A q \in Requests \ {r} : pc'[q] = pc[q]

LEMMA GotoEffect ==
  ASSUME TypeOK, NEW r \in Requests, NEW step \in Running \cup {"answered"}, Goto(r, step)
  PROVE  Moves(r, step)
  BY DEF TypeOK, Goto, Moves

\* A lookup, a refusal, a view: the store at most expires the session.
Peeks(c) ==
  Expire(c) \/ UNCHANGED <<session, byID, byState>>

LEMMA PeekEffect ==
  ASSUME StoreTypeOK, NEW c \in Corr, Peeks(c)
  PROVE  /\ session' \in [Corr -> Session] /\ Others(c)
         /\ byID' = byID /\ byState' \subseteq byState
         /\ session'[c].resuming = session[c].resuming
         /\ session'[c].expiresAt = session[c].expiresAt /\ session'[c].pdf = session[c].pdf
         /\ session'[c].handle \in {session[c].handle, 0}
         /\ session'[c].oauthState \in {session[c].oauthState, 0}
<1>1. CASE Expire(c)
  <2>1. session[c] \in Session  BY DEF StoreTypeOK
  <2>2. session'[c] = expireLocked(session[c])  BY <1>1, ExpireEffect
  <2>3. /\ expireLocked(session[c]).resuming = session[c].resuming
        /\ expireLocked(session[c]).expiresAt = session[c].expiresAt
        /\ expireLocked(session[c]).pdf = session[c].pdf
        /\ expireLocked(session[c]).handle \in {session[c].handle, 0}
        /\ expireLocked(session[c]).oauthState \in {session[c].oauthState, 0}
    BY <2>1, ExpiredSession
  <2> QED  BY <1>1, <2>2, <2>3, ExpireEffect
<1>2. CASE UNCHANGED <<session, byID, byState>>
  BY <1>2 DEF Others, StoreTypeOK
<1> QED  BY <1>1, <1>2 DEF Peeks

\* What each action does, as far as the invariants read it.

LEMMA StartEffect ==
  ASSUME TypeOK, NEW c \in Corr, Start(c)
  PROVE  /\ begun[c] = "no" /\ New(c, 1) /\ 1 \in Step
         /\ begun' \in [Corr -> {"no", "refused", "stored", "answered"}]
         /\ begun'[c] = "stored" /\ \A d \in Corr \ {c} : begun'[d] = begun[d]
         /\ UNCHANGED <<clock, requestVars, spent>>
  BY StoreAssumption DEF StoreAssumption, Start, TypeOK, Step

LEMMA LookupEffect ==
  ASSUME TypeOK, NEW r \in Requests, Lookup(r)
  PROVE  /\ pc[r] = "idle" /\ token[r] \in Disclosed /\ Peeks(sess(r))
         /\ \/ /\ Moves(r, "consume") /\ UNCHANGED result
               /\ sess(r) \in byID /\ token[r] \in byState /\ token[r] \in byState'
            \/ Moves(r, "answered") /\ Return(r, "", 0, "unknown_state")
         /\ startedAt' = [startedAt EXCEPT ![r] = clock]
         /\ UNCHANGED <<clock, begun, token, handle, spent>>
<1>1. ASSUME NEW found \in BOOLEAN, GetByState(token[r], found)
      PROVE  /\ Peeks(sess(r))
             /\ found => sess(r) \in byID /\ token[r] \in byState /\ token[r] \in byState'
  BY <1>1 DEF GetByState, Peeks, Expire
<1>2. Goto(r, "consume") => Moves(r, "consume")
  BY GotoEffect DEF Running
<1>3. Goto(r, "answered") => Moves(r, "answered")
  BY GotoEffect
<1> QED  BY <1>1, <1>2, <1>3 DEF Lookup

LEMMA ConsumeEffect ==
  ASSUME TypeOK, NEW r \in Requests, Consume(r)
  PROVE  /\ pc[r] = "consume"
         /\ \/ /\ ConsumeForResume(sess(r), "claimed")
               /\ handle' = [handle EXCEPT ![r] = session[sess(r)].handle]
               /\ Moves(r, "resume") /\ UNCHANGED result
            \/ /\ Peeks(sess(r)) /\ Moves(r, "view") /\ UNCHANGED handle
               /\ \E refusal \in {"terminal", "resuming"} : Return(r, "", 0, refusal)
         /\ UNCHANGED <<clock, begun, token, startedAt, spent>>
<1>1. sess(r) \in Corr  BY TokenType
<1>2. \A refusal \in {"terminal", "resuming"} :
        ConsumeForResume(sess(r), refusal) => Peeks(sess(r))
  BY <1>1, RefusalEffect DEF TypeOK, Peeks
<1>3. Goto(r, "resume") => Moves(r, "resume")
  BY GotoEffect DEF Running, Driving
<1>4. Goto(r, "view") => Moves(r, "view")
  BY GotoEffect DEF Running
<1> QED  BY <1>2, <1>3, <1>4 DEF Consume

LEMMA ViewEffect ==
  ASSUME TypeOK, NEW r \in Requests, View(r)
  PROVE  /\ pc[r] = "view" /\ Peeks(sess(r)) /\ Moves(r, "answered")
         /\ result' \in [Requests -> Result]
         /\ result'[r].url \in {result[r].url, 0}
         /\ \A q \in Requests \ {r} : result'[q] = result[q]
         /\ UNCHANGED <<clock, begun, token, startedAt, handle, spent>>
<1>1. sess(r) \in Corr  BY TokenType
<1>2. Moves(r, "answered") /\ pc[r] = "view"
  BY GotoEffect DEF View
<1>3. Peeks(sess(r))
  BY DEF View, ViewByID, Peeks
<1>4. session' \in [Corr -> Session]
  BY <1>1, <1>3, PeekEffect DEF TypeOK
<1>5. CASE ViewByID(sess(r), FALSE) /\ Return(r, "", 0, IF result[r].err = "" THEN "view" ELSE result[r].err)
  <2> DEFINE err == IF result[r].err = "" THEN "view" ELSE result[r].err
  <2>1. err \in Errors /\ Return(r, "", 0, err)
    BY <1>5 DEF TypeOK, Result, Errors
  <2> HIDE DEF err
  <2>2. "" \in Status /\ 0 \in 0..MaxStep
    BY StoreAssumption DEF StoreAssumption, Status
  <2>3. result \in [Requests -> Result]  BY DEF TypeOK
  <2>4. /\ result' \in [Requests -> Result] /\ result'[r].url = 0
        /\ \A q \in Requests \ {r} : result'[q] = result[q]
    BY <2>1, <2>2, <2>3, ReturnType
  <2> QED  BY <1>2, <1>3, <2>4 DEF View
<1>6. CASE \E status \in Status :
             result' = [result EXCEPT ![r].status = status, ![r].named = TRUE]
  <2>1. PICK status \in Status :
             result' = [result EXCEPT ![r].status = status, ![r].named = TRUE]
    BY <1>6
  <2>2. result \in [Requests -> Result]  BY DEF TypeOK
  <2> DEFINE t == [result[r] EXCEPT !.status = status, !.named = TRUE]
  <2>3. t \in Result
    <3>1. [result[r] EXCEPT !.status = status] \in Result  BY <2>2 DEF Result
    <3>2. \A x \in Result : [x EXCEPT !.named = TRUE] \in Result  BY DEF Result
    <3> QED  BY <3>1, <3>2, Zenon
  <2>4. t.url = result[r].url  BY <2>2 DEF Result
  <2>5. result' = [result EXCEPT ![r] = t]  BY <2>1
  <2> HIDE DEF t
  <2>6. /\ result' \in [Requests -> Result] /\ result'[r].url = result[r].url
        /\ \A q \in Requests \ {r} : result'[q] = result[q]
    BY <2>2, <2>3, <2>4, <2>5
  <2> QED  BY <1>2, <1>3, <2>6 DEF View
<1>7. session'[sess(r)].status \in Status /\ result[r].status \in Status
  BY <1>1, <1>4 DEF Session, TypeOK, Result
<1> QED  BY <1>5, <1>6, <1>7 DEF View

\* The steps by which a request drives its session on without giving up the
\* claim come in two forms: the SDK yields the next step, or it ends here.
DrivesOn(r) ==
  ResumeRedirect(r) \/ PerformHttp(r) \/ HttpError(r) \/ Done(r) \/ Failed(r) \/ Malformed(r)

Spending(r) ==
  /\ pc[r] \in {"resume", "perform_http"} /\ handle[r] \in Step
  /\ spent' = [spent EXCEPT ![sess(r)] = Append(@, handle[r])]

Advancing(r) ==
  /\ Spending(r)
  /\ handle' = [handle EXCEPT ![r] = @ + 1] /\ handle[r] + 1 \in Step
  /\ session'[sess(r)].handle = handle[r] + 1
  /\ result' = result
  /\ \E step \in {"perform_http", "redirect", "done", "failed", "malformed"} : Moves(r, step)

Ending(r) ==
  /\ Moves(r, "finalize")
  /\ UNCHANGED handle
  /\ Spending(r) \/ UNCHANGED spent
  /\ \E status \in Status, err \in Errors : Return(r, status, 0, err)

Drove(r) ==
  /\ session' \in [Corr -> Session] /\ Others(sess(r)) /\ SameClaim(sess(r))
  /\ UNCHANGED <<byID, byState, clock, begun, token, startedAt>>

LEMMA ResumeEffect ==
  ASSUME TypeOK, NEW r \in Requests, pc[r] \in {"resume", "perform_http"},
         NEW n, Spend(r), UNCHANGED <<clock, begun, token, startedAt>>,
         \/ ResumeError(r)
         \/ \E step \in SdkRedirectStep(handle[r], n) \cup SdkStep(handle[r]) : Advance(r, step)
  PROVE  Drove(r) /\ (Advancing(r) \/ Ending(r))
<1>1. sess(r) \in Corr /\ handle[r] \in 0..MaxStep /\ StoreTypeOK
  BY TokenType DEF TypeOK
<1>2. CASE ResumeError(r)
  <2>1. fail(r, "failed", "resume_error") /\ Return(r, "", 0, "internal") /\ UNCHANGED handle
    BY <1>2 DEF ResumeError
  <2>2. Drove(r)
    BY <1>1, <2>1, FailEffect DEF Drove, Status, Reason
  <2>3. Moves(r, "finalize")
    BY <2>1, GotoEffect DEF fail, Running, Driving
  <2>4. Spending(r) \/ UNCHANGED spent
    BY <1>1 DEF Spend, Spending, Step
  <2>5. \E status \in Status, err \in Errors : Return(r, status, 0, err)
    BY <2>1 DEF Status, Errors
  <2> QED  BY <2>1, <2>2, <2>3, <2>4, <2>5 DEF Ending
<1>3. CASE \E step \in SdkRedirectStep(handle[r], n) \cup SdkStep(handle[r]) : Advance(r, step)
  <2>1. PICK step \in SdkRedirectStep(handle[r], n) \cup SdkStep(handle[r]) : Advance(r, step)
    BY <1>3
  <2>2. /\ handle[r] # 0 /\ handle[r] + 1 \in Step /\ handle[r] \in Step
        /\ step \in {"perform_http", "redirect", "done", "failed", "malformed"}
    BY <1>1, SdkStepNext DEF Step
  <2>3. handle[r] + 1 \in 0..MaxStep
    BY <2>2 DEF Step
  <2>4. Drove(r) /\ session'[sess(r)].handle = handle[r] + 1
    BY <1>1, <2>1, <2>3, AdvanceEffect DEF Drove
  <2>5. Moves(r, step)
    BY <2>1, <2>2, GotoEffect DEF Advance, Running, Driving
  <2>6. Spending(r)
    BY <2>2 DEF Spend, Spending
  <2>7. handle' = [handle EXCEPT ![r] = @ + 1] /\ result' = result
    BY <2>1 DEF Advance
  <2> QED  BY <2>2, <2>4, <2>5, <2>6, <2>7 DEF Advancing
<1> QED  BY <1>2, <1>3

LEMMA DrivesOnEffect ==
  ASSUME TypeOK, NEW r \in Requests, DrivesOn(r)
  PROVE  /\ pc[r] \in Driving \ {"finalize"}
         /\ Drove(r) /\ (Advancing(r) \/ Ending(r))
<1>1. sess(r) \in Corr /\ handle[r] \in 0..MaxStep /\ StoreTypeOK
  BY TokenType DEF TypeOK
<1>2. CASE ResumeRedirect(r)
  BY <1>2, ResumeEffect DEF ResumeRedirect, Driving
<1>3. CASE PerformHttp(r)
  BY <1>3, ResumeEffect DEF PerformHttp, Driving
<1>4. ASSUME NEW status \in Status, NEW reason \in Reason, fail(r, status, reason),
             UNCHANGED <<clock, begun, token, startedAt, handle, spent>>,
             \E st \in Status, err \in Errors : Return(r, st, 0, err)
      PROVE  Drove(r) /\ Ending(r)
  <2>1. Drove(r)
    BY <1>1, <1>4, FailEffect DEF Drove
  <2>2. Moves(r, "finalize")
    BY <1>4, GotoEffect DEF fail, Running, Driving
  <2> QED  BY <1>4, <2>1, <2>2 DEF Ending
<1>5. CASE HttpError(r)
  BY <1>4, <1>5 DEF HttpError, Driving, Status, Reason, Errors
<1>6. CASE Failed(r)
  <2>1. PICK verdict \in {<<"declined", "declined">>, <<"failed", "outcome">>} :
             fail(r, verdict[1], verdict[2]) /\ Return(r, verdict[1], 0, "")
    BY <1>6 DEF Failed
  <2>2. verdict[1] \in Status /\ verdict[2] \in Reason /\ "" \in Errors
    <3>1. verdict[1] \in {"declined", "failed"} /\ verdict[2] \in {"declined", "outcome"}
      <4>1. CASE verdict = <<"declined", "declined">>  BY <4>1
      <4>2. CASE verdict = <<"failed", "outcome">>  BY <4>2
      <4> QED  BY <4>1, <4>2
    <3> QED  BY <3>1 DEF Status, Reason, Errors
  <2>3. pc[r] = "failed" /\ UNCHANGED <<clock, begun, token, startedAt, handle, spent>>
    BY <1>6 DEF Failed
  <2> QED  BY <1>4, <2>1, <2>2, <2>3 DEF Driving
<1>7. CASE Malformed(r)
  BY <1>4, <1>7 DEF Malformed, Driving, Status, Reason, Errors
<1>8. CASE Done(r)
  <2>1. Drove(r)
    BY <1>1, <1>8, DoneEffect DEF Drove, Done
  <2>2. Moves(r, "finalize")
    BY <1>8, GotoEffect DEF Done, Running, Driving
  <2> QED  BY <1>8, <2>1, <2>2 DEF Done, Ending, Driving, Status, Errors
<1> QED  BY <1>2, <1>3, <1>5, <1>6, <1>7, <1>8 DEF DrivesOn

LEMMA RedirectEffect ==
  ASSUME TypeOK, NEW r \in Requests, Redirect(r)
  PROVE  /\ pc[r] = "redirect" /\ SetState(sess(r), handle[r]) /\ Moves(r, "restatus")
         /\ UNCHANGED <<clock, begun, token, startedAt, handle, result, spent>>
  BY GotoEffect DEF Redirect, Running

LEMMA RestatusStep ==
  ASSUME TypeOK, NEW r \in Requests, Restatus(r)
  PROVE  /\ pc[r] = "restatus" /\ Moves(r, "view")
         /\ Return(r, "authorizing", handle[r], "") /\ Drove(r)
         /\ session'[sess(r)].handle = session[sess(r)].handle
         /\ session'[sess(r)].status = "authorizing"
         /\ session'[sess(r)].pdf = session[sess(r)].pdf
         /\ UNCHANGED <<handle, spent>>
<1>1. sess(r) \in Corr /\ StoreTypeOK  BY TokenType DEF TypeOK
<1>2. Moves(r, "view")  BY GotoEffect DEF Restatus, Running
<1> QED  BY <1>1, <1>2, RestatusEffect DEF Restatus, Drove

LEMMA FinalizeStep ==
  ASSUME TypeOK, NEW r \in Requests, FinalizeSession(r)
  PROVE  /\ pc[r] = "finalize" /\ Finalize(sess(r)) /\ Moves(r, "view")
         /\ UNCHANGED <<clock, begun, token, startedAt, handle, result, spent>>
  BY GotoEffect DEF FinalizeSession, Running

LEMMA PollEffect ==
  ASSUME NEW c \in Corr, Poll(c)
  PROVE  Peeks(c) /\ UNCHANGED <<clock, begun, requestVars, spent>>
  BY DEF Poll, ViewByID, Peeks

\* A step that gives no session a new state leaves the store well-typed.
LEMMA StoreKept ==
  ASSUME StoreTypeOK, session' \in [Corr -> Session], byID' = byID,
         byState' \subseteq byState, clock' = clock
  PROVE  StoreTypeOK'
  BY DEF StoreTypeOK

\* The actions, as the proofs below take them apart.
LEMMA NextCases ==
  ASSUME [Next]_vars
  PROVE  \/ \E c \in Corr : Start(c) \/ BeginFails(c) \/ BeginUpdate(c) \/ Poll(c)
         \/ \E r \in Requests :
              \/ Lookup(r) \/ Consume(r) \/ DrivesOn(r) \/ Redirect(r)
              \/ Restatus(r) \/ FinalizeSession(r) \/ View(r)
         \/ Tick
         \/ UNCHANGED vars
  BY DEF Next, Proceed, DrivesOn, Quiet

-----------------------------------------------------------------------------
\* The types are inductive.

LEMMA PeekType ==
  ASSUME StoreTypeOK, NEW c \in Corr, Peeks(c), UNCHANGED clock
  PROVE  StoreTypeOK'
  BY PeekEffect DEF StoreTypeOK

LEMMA NextType == TypeInv /\ [Next]_vars => TypeInv'
<1> SUFFICES ASSUME TypeInv, [Next]_vars PROVE TypeInv'
  OBVIOUS
<1>1. TypeOK /\ StoreTypeOK /\ HandleHeld
  BY DEF TypeInv, TypeOK
<1>2. \A c \in Corr, n \in Step : <<c, n>> \in Token
  BY DEF Token
<1>3. CASE \E c \in Corr : Start(c)
  <2>1. PICK c \in Corr : Start(c)  BY <1>3
  <2>2. New(c, 1) /\ 1 \in Step /\ clock' = clock
    BY <1>1, <2>1, StartEffect
  <2>3. session' \in [Corr -> Session] /\ byID' \subseteq Corr
    BY <1>1, <2>2, NewEffect DEF StoreTypeOK
  <2>4. byState' \subseteq byState \cup {<<c, 1>>}
    <3>1. byState' = (byState \ UNION {IndexEntry(d) : d \in Evicted}) \cup {<<c, 1>>}
      BY <1>1, <2>2, NewEffect
    <3> QED  BY <3>1
  <2>5. StoreTypeOK'
    BY <1>1, <1>2, <2>2, <2>3, <2>4 DEF StoreTypeOK
  <2> QED  BY <1>1, <2>1, <2>5, StartEffect DEF TypeInv, TypeOK, HandleHeld, requestVars
<1>4. CASE \E c \in Corr : BeginFails(c)
  BY <1>1, <1>4 DEF BeginFails, TypeInv, TypeOK, StoreTypeOK, HandleHeld, requestVars
<1>5. CASE \E c \in Corr : BeginUpdate(c)
  <2>1. PICK c \in Corr : BeginUpdate(c)  BY <1>5
  <2>2. StoreTypeOK'
    BY <1>1, <2>1, BeginUpdateEffect DEF StoreTypeOK, BeginUpdate
  <2> QED  BY <1>1, <2>1, <2>2 DEF BeginUpdate, TypeInv, TypeOK, HandleHeld, requestVars
<1>6. CASE \E c \in Corr : Poll(c)
  <2>1. PICK c \in Corr : Poll(c)  BY <1>6
  <2>2. StoreTypeOK'
    BY <1>1, <2>1, PollEffect, PeekType
  <2> QED  BY <1>1, <2>1, <2>2, PollEffect DEF TypeInv, TypeOK, HandleHeld, requestVars
<1>7. CASE Tick
  BY <1>1, <1>7 DEF Tick, TypeInv, TypeOK, StoreTypeOK, HandleHeld, requestVars
<1>8. CASE UNCHANGED vars
  BY <1>1, <1>8 DEF vars, TypeInv, TypeOK, StoreTypeOK, HandleHeld, requestVars
<1>9. ASSUME NEW r \in Requests,
             \/ Lookup(r) \/ Consume(r) \/ DrivesOn(r) \/ Redirect(r)
             \/ Restatus(r) \/ FinalizeSession(r) \/ View(r)
      PROVE  TypeInv'
  <2>1. sess(r) \in Corr /\ result \in [Requests -> Result] /\ 0 \in 0..MaxStep
    BY <1>1, TokenType, StoreAssumption DEF TypeOK, StoreAssumption
  <2>2. CASE Lookup(r)
    <3>1. StoreTypeOK'
      BY <1>1, <2>1, <2>2, LookupEffect, PeekType
    <3>2. result' \in [Requests -> Result]
      BY <1>1, <2>1, <2>2, LookupEffect, ReturnType DEF Status, Errors
    <3>3. pc' \in [Requests -> Running \cup {"idle", "answered"}] /\ pc'[r] \notin Holding
      BY <1>1, <2>2, LookupEffect DEF Moves, Holding
    <3>4. \A q \in Requests \ {r} : pc'[q] = pc[q]
      BY <1>1, <2>2, LookupEffect DEF Moves
    <3>5. startedAt' \in [Requests -> Nat]
      BY <1>1, <2>2, LookupEffect DEF TypeOK, StoreTypeOK
    <3> QED  BY <1>1, <2>2, <3>1, <3>2, <3>3, <3>4, <3>5, LookupEffect DEF TypeInv, TypeOK, HandleHeld
  <2>3. CASE Consume(r)
    <3>1. pc' \in [Requests -> Running \cup {"idle", "answered"}] /\ pc'[r] \notin Holding
      BY <1>1, <2>3, ConsumeEffect DEF Moves, Holding
    <3>2. \A q \in Requests \ {r} : pc'[q] = pc[q]
      BY <1>1, <2>3, ConsumeEffect DEF Moves
    <3>3. CASE /\ ConsumeForResume(sess(r), "claimed")
               /\ handle' = [handle EXCEPT ![r] = session[sess(r)].handle]
               /\ UNCHANGED result
      <4>1. StoreTypeOK'
        <5>1. /\ session' \in [Corr -> Session] /\ byID' = byID
              /\ byState' = byState \ IndexEntry(sess(r))
          BY <1>1, <2>1, <3>3, ClaimEffect
        <5>2. clock' = clock
          BY <1>1, <2>3, ConsumeEffect
        <5>3. byState' \subseteq byState
          BY <5>1
        <5> QED  BY <1>1, <5>1, <5>2, <5>3, StoreKept
      <4>2. session[sess(r)].handle \in 0..MaxStep
        BY <1>1, <2>1 DEF StoreTypeOK, Session
      <4>3. handle' \in [Requests -> 0..MaxStep] /\ \A q \in Requests \ {r} : handle'[q] = handle[q]
        BY <1>1, <3>3, <4>2 DEF TypeOK
      <4>4. UNCHANGED <<begun, token, startedAt, result, spent>>
        BY <1>1, <2>3, <3>3, ConsumeEffect
      <4> HIDE <2>3, <3>3
      <4>5. TypeOK'
        BY <1>1, <3>1, <4>1, <4>3, <4>4 DEF TypeOK
      <4>6. HandleHeld'
        BY <1>1, <3>1, <3>2, <4>3 DEF HandleHeld
      <4> QED  BY <4>5, <4>6 DEF TypeInv
    <3>4. CASE /\ Peeks(sess(r)) /\ UNCHANGED handle
               /\ \E refusal \in {"terminal", "resuming"} : Return(r, "", 0, refusal)
      <4>1. StoreTypeOK'
        BY <1>1, <2>1, <2>3, <3>4, PeekType, ConsumeEffect
      <4>2. result' \in [Requests -> Result]
        BY <2>1, <3>4, ReturnType DEF Status, Errors
      <4> QED  BY <1>1, <2>3, <3>1, <3>2, <3>4, <4>1, <4>2, ConsumeEffect DEF TypeInv, TypeOK, HandleHeld
    <3> QED  BY <1>1, <2>3, <3>3, <3>4, ConsumeEffect
  <2>4. CASE DrivesOn(r)
    <3>1. Drove(r) /\ StoreTypeOK'
      BY <1>1, <2>4, DrivesOnEffect DEF Drove, StoreTypeOK
    <3>2. Spending(r) => spent' \in [Corr -> Seq(Step)]
      BY <1>1, <2>1 DEF Spending, TypeOK
    <3>3. CASE Advancing(r)
      <4>1. handle' \in [Requests -> 0..MaxStep] /\ handle'[r] # 0
        BY <1>1, <3>3, StoreAssumption DEF Advancing, TypeOK, StoreAssumption, Step
      <4>2. \A q \in Requests \ {r} : handle'[q] = handle[q] /\ pc'[q] = pc[q]
        BY <1>1, <3>3 DEF Advancing, TypeOK, Moves
      <4>3. pc' \in [Requests -> Running \cup {"idle", "answered"}]
        BY <3>3 DEF Advancing, Moves
      <4> QED  BY <1>1, <3>1, <3>2, <3>3, <4>1, <4>2, <4>3 DEF Advancing, Drove, TypeInv, TypeOK, HandleHeld
    <3>4. CASE Ending(r)
      <4>1. result' \in [Requests -> Result]
        BY <2>1, <3>4, ReturnType DEF Ending
      <4>2. pc' \in [Requests -> Running \cup {"idle", "answered"}] /\ pc'[r] \notin Holding
        BY <3>4 DEF Ending, Moves, Holding
      <4>3. \A q \in Requests \ {r} : pc'[q] = pc[q]
        BY <3>4 DEF Ending, Moves
      <4>4. spent' \in [Corr -> Seq(Step)]
        BY <1>1, <3>2, <3>4 DEF Ending, TypeOK
      <4> QED  BY <1>1, <3>1, <3>4, <4>1, <4>2, <4>3, <4>4 DEF Ending, Drove, TypeInv, TypeOK, HandleHeld
    <3> QED  BY <1>1, <2>4, <3>3, <3>4, DrivesOnEffect
  <2>5. CASE Redirect(r)
    <3>1. handle[r] \in Step
      BY <1>1, <2>5, RedirectEffect DEF HandleHeld, Holding, TypeOK, Step
    <3>2. SetState(sess(r), handle[r]) /\ clock' = clock
      BY <1>1, <2>5, RedirectEffect
    <3>3. /\ session' \in [Corr -> Session] /\ byID' = byID
          /\ byState' \subseteq byState \cup {<<sess(r), handle[r]>>}
      BY <1>1, <2>1, <3>1, <3>2, SetStateEffect
    <3>4. StoreTypeOK'
      BY <1>1, <1>2, <2>1, <3>1, <3>2, <3>3 DEF StoreTypeOK
    <3>5. Moves(r, "restatus") /\ handle[r] # 0
      BY <1>1, <2>5, RedirectEffect DEF HandleHeld, Holding
    <3> QED  BY <1>1, <2>5, <3>4, <3>5, RedirectEffect DEF Moves, TypeInv, TypeOK, HandleHeld
  <2>6. CASE Restatus(r)
    <3>1. StoreTypeOK' /\ Drove(r)
      BY <1>1, <2>6, RestatusStep DEF Drove, StoreTypeOK
    <3>2. result' \in [Requests -> Result]
      BY <1>1, <2>1, <2>6, RestatusStep, ReturnType DEF Status, Errors, TypeOK
    <3>3. Moves(r, "view") /\ UNCHANGED <<handle, spent>>
      BY <1>1, <2>6, RestatusStep
    <3>4. TypeOK'
      BY <1>1, <3>1, <3>2, <3>3 DEF Drove, Moves, TypeOK
    <3>5. HandleHeld'
      BY <1>1, <3>3 DEF Moves, HandleHeld, Holding
    <3> QED  BY <3>4, <3>5 DEF TypeInv
  <2>7. CASE FinalizeSession(r)
    <3>1. StoreTypeOK'
      <4>1. Finalize(sess(r)) /\ clock' = clock
        BY <1>1, <2>7, FinalizeStep
      <4>2. /\ session' \in [Corr -> Session] /\ byID' = byID
            /\ byState' = byState \ IndexEntry(sess(r))
        BY <1>1, <2>1, <4>1, FinalizeEffect
      <4>3. byState' \subseteq byState
        BY <4>2
      <4> QED  BY <1>1, <4>1, <4>2, <4>3, StoreKept
    <3>2. Moves(r, "view")
      BY <1>1, <2>7, FinalizeStep
    <3> QED  BY <1>1, <2>7, <3>1, <3>2, FinalizeStep DEF Moves, TypeInv, TypeOK, HandleHeld, Holding
  <2>8. CASE View(r)
    <3>1. StoreTypeOK'
      BY <1>1, <2>1, <2>8, ViewEffect, PeekType
    <3>2. Moves(r, "answered")
      BY <1>1, <2>8, ViewEffect
    <3> QED  BY <1>1, <2>8, <3>1, <3>2, ViewEffect DEF Moves, TypeInv, TypeOK, HandleHeld, Holding
  <2> QED  BY <1>9, <2>2, <2>3, <2>4, <2>5, <2>6, <2>7, <2>8
<1> QED  BY <1>3, <1>4, <1>5, <1>6, <1>7, <1>8, <1>9, NextCases

\* Every reachable state is well-typed.  The second conjunct is what the
\* proof adds: past the first answer of the SDK a request has a handle.
THEOREM TypeCorrect == Spec => []TypeOK
<1>1. Spec => []TypeInv
  BY InitType, NextType, PTL DEF Spec
<1>2. TypeInv => TypeOK
  BY DEF TypeInv
<1> QED  BY <1>1, <1>2, PTL

-----------------------------------------------------------------------------
\* The claim

\* Nothing has happened to a journey before its start has answered.
Unbegun ==
  \A c \in Corr :
    /\ begun[c] # "answered" =>
         /\ spent[c] = << >>
         /\ \A r \in Requests : sess(r) = c => pc[r] = "idle"
    /\ begun[c] \in {"no", "refused"} => c \notin byID

RequestStep(r) ==
  \/ Lookup(r) \/ Consume(r) \/ DrivesOn(r) \/ Redirect(r)
  \/ Restatus(r) \/ FinalizeSession(r) \/ View(r)

\* What no step of request r touches: other requests, other journeys.
LEMMA RequestFrame ==
  ASSUME TypeInv, NEW r \in Requests, RequestStep(r)
  PROVE  /\ pc[r] # "idle" \/ token[r] \in Disclosed
         /\ \A q \in Requests \ {r} : pc'[q] = pc[q] /\ handle'[q] = handle[q]
                                       /\ startedAt'[q] = startedAt[q]
         /\ \A d \in Corr \ {sess(r)} : spent'[d] = spent[d] /\ session'[d] = session[d]
         /\ UNCHANGED <<token, begun, clock, byID>>
<1>1. TypeOK /\ StoreTypeOK /\ HandleHeld /\ sess(r) \in Corr
  BY TokenType DEF TypeInv, TypeOK
<1>2. handle \in [Requests -> 0..MaxStep] /\ startedAt \in [Requests -> Nat]
      /\ spent \in [Corr -> Seq(Step)]
  BY <1>1 DEF TypeOK
<1>3. CASE Lookup(r)
  BY <1>1, <1>2, <1>3, LookupEffect, PeekEffect DEF Moves, Others
<1>4. CASE Consume(r)
  <2>1. CASE ConsumeForResume(sess(r), "claimed")
             /\ handle' = [handle EXCEPT ![r] = session[sess(r)].handle]
    <3>1. /\ pc[r] = "consume" /\ \A q \in Requests \ {r} : pc'[q] = pc[q]
          /\ UNCHANGED <<clock, begun, token, startedAt, spent>>
      BY <1>1, <1>4, ConsumeEffect DEF Moves
    <3>2. byID' = byID /\ Others(sess(r))
      BY <1>1, <2>1, ClaimEffect
    <3>3. \A q \in Requests \ {r} : handle'[q] = handle[q]
      BY <1>2, <2>1
    <3> QED  BY <3>1, <3>2, <3>3 DEF Others
  <2>2. CASE Peeks(sess(r)) /\ UNCHANGED handle
    BY <1>1, <1>2, <1>4, <2>2, ConsumeEffect, PeekEffect DEF Moves, Others
  <2> QED  BY <1>1, <1>4, <2>1, <2>2, ConsumeEffect
<1>5. CASE DrivesOn(r)
  <2>1. Drove(r) /\ pc[r] # "idle"
    BY <1>1, <1>5, DrivesOnEffect DEF Driving
  <2>2. Spending(r) => \A d \in Corr \ {sess(r)} : spent'[d] = spent[d]
    BY <1>2 DEF Spending
  <2>3. CASE Advancing(r)
    BY <1>2, <2>1, <2>2, <2>3 DEF Advancing, Moves, Drove, Others
  <2>4. CASE Ending(r)
    BY <1>2, <2>1, <2>2, <2>4 DEF Ending, Moves, Drove, Others
  <2> QED  BY <1>1, <1>5, <2>3, <2>4, DrivesOnEffect
<1>6. CASE Redirect(r)
  <2>1. handle[r] \in Step
    BY <1>1, <1>2, <1>6, RedirectEffect DEF HandleHeld, Holding, Step
  <2> QED  BY <1>1, <1>6, <2>1, RedirectEffect, SetStateEffect DEF Moves, Others
<1>7. CASE Restatus(r)
  BY <1>1, <1>7, RestatusStep DEF Moves, Drove, Others
<1>8. CASE FinalizeSession(r)
  BY <1>1, <1>8, FinalizeStep, FinalizeEffect DEF Moves, Others
<1>9. CASE View(r)
  BY <1>1, <1>9, ViewEffect, PeekEffect DEF Moves, Others
<1> QED  BY <1>3, <1>4, <1>5, <1>6, <1>7, <1>8, <1>9 DEF RequestStep

LEMMA DisclosedBegun ==
  ASSUME TypeInv, Unbegun, NEW r \in Requests, pc[r] # "idle" \/ token[r] \in Disclosed
  PROVE  begun[sess(r)] = "answered"
<1>1. sess(r) \in Corr  BY TokenType DEF TypeInv
<1>2. CASE pc[r] # "idle"
  BY <1>1, <1>2 DEF Unbegun
<1>3. CASE token[r] \in Disclosed
  <2>1. CASE \E q \in Requests : pc[q] = "answered" /\ sess(q) = sess(r)
    BY <1>1, <2>1 DEF Unbegun
  <2> QED  BY <1>3, <2>1 DEF Disclosed
<1> QED  BY <1>2, <1>3

LEMMA NextUnbegun == TypeInv /\ Unbegun /\ [Next]_vars => Unbegun'
<1> SUFFICES ASSUME TypeInv, Unbegun, [Next]_vars PROVE Unbegun'
  OBVIOUS
<1>1. TypeOK /\ StoreTypeOK
  BY DEF TypeInv, TypeOK
<1>2. ASSUME NEW c \in Corr, Start(c) PROVE Unbegun'
  <2>1. New(c, 1) /\ 1 \in Step  BY <1>1, <1>2, StartEffect
  <2>2. byID' = (byID \ Evicted) \cup {c}  BY <1>1, <2>1, NewEffect
  <2> QED  BY <1>1, <1>2, <2>2, StartEffect DEF Unbegun, requestVars
<1>3. ASSUME NEW c \in Corr, BeginFails(c) PROVE Unbegun'
  BY <1>1, <1>3 DEF BeginFails, Unbegun, requestVars, TypeOK
<1>4. ASSUME NEW c \in Corr, BeginUpdate(c) PROVE Unbegun'
  <2>1. byID' = byID  BY <1>1, <1>4, BeginUpdateEffect
  <2> QED  BY <1>1, <1>4, <2>1 DEF BeginUpdate, Unbegun, requestVars, TypeOK
<1>5. ASSUME NEW c \in Corr, Poll(c) PROVE Unbegun'
  BY <1>1, <1>5, PollEffect, PeekEffect DEF Unbegun, requestVars
<1>6. ASSUME NEW r \in Requests, RequestStep(r) PROVE Unbegun'
  <2>1. begun[sess(r)] = "answered" /\ begun' = begun
    BY <1>6, RequestFrame, DisclosedBegun
  <2> QED  BY <1>6, <2>1, RequestFrame DEF Unbegun
<1>7. CASE Tick
  BY <1>7 DEF Tick, Unbegun, requestVars
<1>8. CASE UNCHANGED vars
  BY <1>8 DEF vars, Unbegun, requestVars
<1> QED  BY <1>2, <1>3, <1>4, <1>5, <1>6, <1>7, <1>8, NextCases DEF RequestStep

LEMMA NextClaim == TypeInv /\ Unbegun /\ ClaimExclusive /\ [Next]_vars => ClaimExclusive'
<1> SUFFICES ASSUME TypeInv, Unbegun, ClaimExclusive, [Next]_vars PROVE ClaimExclusive'
  OBVIOUS
<1>1. TypeOK /\ StoreTypeOK /\ HandleHeld /\ pc \in [Requests -> Running \cup {"idle", "answered"}]
  BY DEF TypeInv, TypeOK
\* The requests are still; no session changes its claim.
<1>2. ASSUME UNCHANGED <<token, pc>>, \A c \in Corr : session'[c].resuming = session[c].resuming
      PROVE  ClaimExclusive'
  BY <1>2 DEF ClaimExclusive, Drives
<1>3. ASSUME NEW c \in Corr, Start(c) PROVE ClaimExclusive'
  <2>1. New(c, 1) /\ 1 \in Step /\ UNCHANGED <<token, pc>> /\ begun[c] = "no"
    BY <1>1, <1>3, StartEffect DEF requestVars
  <2>2. session'[c].resuming = FALSE /\ Others(c)
    BY <1>1, <2>1, NewEffect
  <2>3. \A r \in Requests : ~Drives(r, c) /\ ~Drives(r, c)'
    BY <2>1 DEF Unbegun, Drives, Driving
  <2> QED  BY <2>1, <2>2, <2>3 DEF ClaimExclusive, Drives, Others
<1>4. ASSUME NEW c \in Corr, BeginUpdate(c) PROVE ClaimExclusive'
  BY <1>1, <1>2, <1>4, BeginUpdateEffect DEF BeginUpdate, requestVars, SameClaim, Others
<1>5. ASSUME NEW c \in Corr, Poll(c) PROVE ClaimExclusive'
  BY <1>1, <1>2, <1>5, PollEffect, PeekEffect DEF requestVars, Others
\* A request moves without taking or giving up a claim.
<1>6. ASSUME NEW r \in Requests, NEW step, Moves(r, step), token' = token,
             step \in Driving <=> pc[r] \in Driving,
             \A c \in Corr : session'[c].resuming = session[c].resuming
      PROVE  ClaimExclusive'
  BY <1>6 DEF ClaimExclusive, Drives, Moves
\* A request gives up the claim.
<1>7. ASSUME NEW r \in Requests, NEW step, Moves(r, step), token' = token,
             pc[r] \in Driving, step \notin Driving, sess(r) \in Corr, Others(sess(r)),
             session'[sess(r)].resuming = FALSE
      PROVE  ClaimExclusive'
  <2>1. \A q \in Requests : Drives(q, sess(r)) => q = r
    BY <1>7 DEF ClaimExclusive, Drives
  <2>2. \A q \in Requests, c \in Corr : Drives(q, c)' <=> Drives(q, c) /\ q # r
    BY <1>7 DEF Drives, Moves
  <2>3. \A c \in Corr \ {sess(r)} : ~Drives(r, c) /\ session'[c] = session[c]
    BY <1>7 DEF Drives, Others
  <2> QED  BY <1>7, <2>1, <2>2, <2>3 DEF ClaimExclusive
<1>8. ASSUME NEW r \in Requests, RequestStep(r) PROVE ClaimExclusive'
  <2>1. sess(r) \in Corr /\ token' = token
    BY <1>1, <1>8, TokenType, RequestFrame
  <2>2. ASSUME Peeks(sess(r)) PROVE \A c \in Corr : session'[c].resuming = session[c].resuming
    BY <1>1, <2>1, <2>2, PeekEffect DEF Others
  <2>3. ASSUME Drove(r) PROVE \A c \in Corr : session'[c].resuming = session[c].resuming
    BY <2>1, <2>3 DEF Drove, SameClaim, Others
  <2>4. CASE Lookup(r)
    BY <1>1, <1>6, <2>1, <2>2, <2>4, LookupEffect DEF Driving
  <2>5. CASE Consume(r)
    <3>1. CASE ConsumeForResume(sess(r), "claimed") /\ Moves(r, "resume")
      <4>1. ~session[sess(r)].resuming /\ session'[sess(r)].resuming /\ Others(sess(r))
        BY <1>1, <2>1, <3>1, ClaimEffect
      <4>2. \A q \in Requests : ~Drives(q, sess(r))
        BY <2>1, <4>1 DEF ClaimExclusive
      <4>3. \A q \in Requests, c \in Corr :
              Drives(q, c)' <=> Drives(q, c) \/ (q = r /\ c = sess(r))
        BY <1>1, <2>1, <2>5, <3>1, ConsumeEffect DEF Drives, Moves, Driving
      <4> QED  BY <2>1, <4>1, <4>2, <4>3 DEF ClaimExclusive, Others
    <3>2. CASE Peeks(sess(r)) /\ Moves(r, "view")
      BY <1>1, <1>6, <2>1, <2>2, <2>5, <3>2, ConsumeEffect DEF Driving
    <3> QED  BY <1>1, <2>5, <3>1, <3>2, ConsumeEffect
  <2>6. CASE DrivesOn(r)
    <3>1. \E step \in Driving : Moves(r, step)
      BY <1>1, <2>6, DrivesOnEffect DEF Advancing, Ending, Driving
    <3> QED  BY <1>1, <1>6, <2>1, <2>3, <2>6, <3>1, DrivesOnEffect
  <2>7. CASE Redirect(r)
    <3>1. handle[r] \in Step
      BY <1>1, <2>7, RedirectEffect DEF HandleHeld, Holding, TypeOK, Step
    <3> QED  BY <1>1, <1>7, <2>1, <2>7, <3>1, RedirectEffect, SetStateEffect DEF Driving
  <2>8. CASE Restatus(r)
    BY <1>1, <1>6, <2>1, <2>3, <2>8, RestatusStep DEF Driving
  <2>9. CASE FinalizeSession(r)
    BY <1>1, <1>7, <2>1, <2>9, FinalizeStep, FinalizeEffect DEF Driving
  <2>10. CASE View(r)
    BY <1>1, <1>6, <2>1, <2>2, <2>10, ViewEffect DEF Driving
  <2> QED  BY <1>8, <2>4, <2>5, <2>6, <2>7, <2>8, <2>9, <2>10 DEF RequestStep
<1>9. ASSUME NEW c \in Corr, BeginFails(c) PROVE ClaimExclusive'
  BY <1>2, <1>9 DEF BeginFails, requestVars
<1>10. CASE Tick
  BY <1>2, <1>10 DEF Tick, requestVars
<1>11. CASE UNCHANGED vars
  BY <1>2, <1>11 DEF vars, requestVars
<1> QED  BY <1>3, <1>4, <1>5, <1>8, <1>9, <1>10, <1>11, NextCases DEF RequestStep

-----------------------------------------------------------------------------
\* Retention

LEMMA RequestKeepsExpiry ==
  ASSUME TypeInv, NEW r \in Requests, RequestStep(r)
  PROVE  \A c \in Corr : session'[c].expiresAt = session[c].expiresAt
<1>1. TypeOK /\ StoreTypeOK /\ HandleHeld /\ sess(r) \in Corr
  BY TokenType DEF TypeInv, TypeOK
<1>2. \A c \in Corr \ {sess(r)} : session'[c] = session[c]
  BY RequestFrame
<1>3. Peeks(sess(r)) => session'[sess(r)].expiresAt = session[sess(r)].expiresAt
  BY <1>1, PeekEffect
<1>4. CASE Lookup(r)  BY <1>1, <1>2, <1>3, <1>4, LookupEffect
<1>5. CASE Consume(r)
  <2>1. ConsumeForResume(sess(r), "claimed") =>
          session'[sess(r)].expiresAt = session[sess(r)].expiresAt
    BY <1>1, ClaimEffect
  <2> QED  BY <1>1, <1>2, <1>3, <1>5, <2>1, ConsumeEffect
<1>6. CASE DrivesOn(r)  BY <1>1, <1>2, <1>6, DrivesOnEffect DEF Drove, SameClaim
<1>7. CASE Redirect(r)
  <2>1. handle[r] \in Step
    BY <1>1, <1>7, RedirectEffect DEF HandleHeld, Holding, TypeOK, Step
  <2> QED  BY <1>1, <1>2, <1>7, <2>1, RedirectEffect, SetStateEffect
<1>8. CASE Restatus(r)  BY <1>1, <1>2, <1>8, RestatusStep DEF Drove, SameClaim
<1>9. CASE FinalizeSession(r)  BY <1>1, <1>2, <1>9, FinalizeStep, FinalizeEffect
<1>10. CASE View(r)  BY <1>1, <1>2, <1>3, <1>10, ViewEffect
<1> QED  BY <1>4, <1>5, <1>6, <1>7, <1>8, <1>9, <1>10 DEF RequestStep

\* A session is evicted only once it has expired, and stays so: expiresAt
\* is never moved.
EvictedIsExpired ==
  \A c \in Corr :
    begun[c] \in {"stored", "answered"} /\ c \notin byID => clock > session[c].expiresAt

LEMMA NextStored ==
  TypeInv /\ Unbegun /\ ClaimExclusive /\ DrivenIsStored /\ EvictedIsExpired /\ [Next]_vars
    => DrivenIsStored' /\ EvictedIsExpired'
<1> SUFFICES ASSUME TypeInv, Unbegun, ClaimExclusive, DrivenIsStored, EvictedIsExpired, [Next]_vars
             PROVE  DrivenIsStored' /\ EvictedIsExpired'
  OBVIOUS
<1>1. TypeOK /\ StoreTypeOK /\ HandleHeld /\ clock \in Nat
  BY DEF TypeInv, TypeOK, StoreTypeOK
<1>2. \A c \in Corr : session[c] \in Session /\ session[c].expiresAt \in Nat
  BY <1>1 DEF StoreTypeOK, Session
<1>3. ASSUME NEW c \in Corr, Start(c) PROVE DrivenIsStored' /\ EvictedIsExpired'
  <2>1. /\ New(c, 1) /\ 1 \in Step /\ UNCHANGED <<token, pc, clock>>
        /\ begun'[c] = "stored" /\ \A d \in Corr \ {c} : begun'[d] = begun[d]
    BY <1>1, <1>3, StartEffect DEF requestVars
  <2>2. byID' = (byID \ Evicted) \cup {c} /\ Others(c)
    BY <1>1, <2>1, NewEffect
  <2>3. DrivenIsStored'
    <3> SUFFICES ASSUME NEW r \in Requests, pc[r] \in Driving PROVE sess(r) \in byID'
      BY <2>1 DEF DrivenIsStored
    <3>1. sess(r) \in byID /\ sess(r) \in Corr
      BY <1>1, TokenType DEF DrivenIsStored
    <3>2. session[sess(r)].resuming
      BY <3>1 DEF ClaimExclusive, Drives
    <3> QED  BY <2>2, <3>1, <3>2 DEF Evicted, Evictable
  <2>4. EvictedIsExpired'
    <3> SUFFICES ASSUME NEW d \in Corr, begun'[d] \in {"stored", "answered"}, d \notin byID'
                 PROVE  clock > session[d].expiresAt /\ session'[d] = session[d]
      BY <2>1 DEF EvictedIsExpired
    <3>1. d # c  BY <2>2
    <3>2. CASE d \in byID
      <4>1. clock > session[d].expiresAt + Grace
        BY <2>2, <3>1, <3>2 DEF Evicted, Evictable
      <4> QED  BY <1>1, <1>2, <2>2, <3>1, <4>1, StoreAssumption DEF StoreAssumption, Others
    <3>3. CASE d \notin byID
      BY <2>1, <2>2, <3>1, <3>3 DEF EvictedIsExpired, Others
    <3> QED  BY <3>2, <3>3
  <2> QED  BY <2>3, <2>4
<1>4. ASSUME NEW c \in Corr, BeginFails(c) PROVE DrivenIsStored' /\ EvictedIsExpired'
  BY <1>1, <1>4 DEF BeginFails, DrivenIsStored, EvictedIsExpired, requestVars, TypeOK
<1>5. ASSUME NEW c \in Corr, BeginUpdate(c) PROVE DrivenIsStored' /\ EvictedIsExpired'
  <2>1. byID' = byID /\ Others(c) /\ SameClaim(c)
    BY <1>1, <1>5, BeginUpdateEffect
  <2> QED  BY <1>1, <1>5, <2>1 DEF BeginUpdate, DrivenIsStored, EvictedIsExpired, requestVars,
                                   TypeOK, SameClaim, Others
<1>6. ASSUME NEW c \in Corr, Poll(c) PROVE DrivenIsStored' /\ EvictedIsExpired'
  BY <1>1, <1>6, PollEffect, PeekEffect DEF DrivenIsStored, EvictedIsExpired, requestVars, Others
<1>7. ASSUME NEW r \in Requests, RequestStep(r) PROVE DrivenIsStored' /\ EvictedIsExpired'
  <2>1. sess(r) \in Corr /\ begun[sess(r)] = "answered"
    BY <1>1, <1>7, TokenType, RequestFrame, DisclosedBegun
  <2>2. EvictedIsExpired'
    BY <1>7, RequestFrame, RequestKeepsExpiry DEF EvictedIsExpired
  <2>3. CASE pc[r] \in Driving \/ pc'[r] \notin Driving
    <3>1. \A q \in Requests : pc'[q] \in Driving => pc[q] \in Driving
      BY <1>7, <2>3, RequestFrame
    <3> QED  BY <1>7, <2>2, <3>1, RequestFrame DEF DrivenIsStored
  <2>4. CASE Consume(r) /\ ConsumeForResume(sess(r), "claimed")
    <3>1. ~Terminal(session[sess(r)]) /\ ~Expired(session[sess(r)])
      BY <1>1, <2>1, <2>4, ClaimEffect
    <3>2. sess(r) \in byID
      BY <2>1, <3>1 DEF Expired, EvictedIsExpired
    <3> QED  BY <1>7, <2>2, <3>2, RequestFrame DEF DrivenIsStored
  <2>5. Lookup(r) => pc'[r] \notin Driving
    BY <1>1, LookupEffect DEF Moves, Driving
  <2>6. Consume(r) => ConsumeForResume(sess(r), "claimed") \/ pc'[r] \notin Driving
    BY <1>1, ConsumeEffect DEF Moves, Driving
  <2>7. DrivesOn(r) => pc[r] \in Driving
    BY <1>1, DrivesOnEffect
  <2>8. Redirect(r) \/ FinalizeSession(r) => pc[r] \in Driving
    BY <1>1, RedirectEffect, FinalizeStep DEF Driving
  <2>9. Restatus(r) \/ View(r) => pc'[r] \notin Driving
    BY <1>1, RestatusStep, ViewEffect DEF Moves, Driving
  <2> QED  BY <1>7, <2>2, <2>3, <2>4, <2>5, <2>6, <2>7, <2>8, <2>9 DEF RequestStep
<1>8. CASE Tick
  <2>1. UNCHANGED <<session, byID, begun, token, pc>> /\ clock' > clock
    BY <1>1, <1>8 DEF Tick, requestVars
  <2> QED  BY <1>1, <1>2, <1>8, <2>1 DEF Tick, DrivenIsStored, EvictedIsExpired
<1>9. CASE UNCHANGED vars
  BY <1>9 DEF vars, requestVars, DrivenIsStored, EvictedIsExpired
<1> QED  BY <1>3, <1>4, <1>5, <1>6, <1>7, <1>8, <1>9, NextCases DEF RequestStep

\* The inductive invariant behind the safety of the claim: the types, that
\* nothing precedes the answer of a start, that the claim is a lock, that a
\* claimed session is stored, and that an evicted one cannot be claimed.
ClaimInv ==
  TypeInv /\ Unbegun /\ ClaimExclusive /\ DrivenIsStored /\ EvictedIsExpired

LEMMA InitClaim == Init => ClaimInv
<1> SUFFICES ASSUME Init PROVE ClaimInv
  OBVIOUS
<1>1. TypeInv  BY InitType
<1>2. Unbegun  BY DEF Init, StoreInit, Unbegun
<1>3. ClaimExclusive
  <2>1. \A c \in Corr : session[c].resuming = FALSE
    BY DEF Init, StoreInit, NilSession
  <2> QED  BY <2>1 DEF Init, ClaimExclusive, Drives, Driving
<1>4. DrivenIsStored  BY DEF Init, DrivenIsStored, Driving
<1>5. EvictedIsExpired  BY DEF Init, EvictedIsExpired
<1> QED  BY <1>1, <1>2, <1>3, <1>4, <1>5 DEF ClaimInv

LEMMA NextClaimInv == ClaimInv /\ [Next]_vars => ClaimInv'
  BY NextType, NextUnbegun, NextClaim, NextStored DEF ClaimInv

LEMMA ClaimInvariant == Spec => []ClaimInv
  BY InitClaim, NextClaimInv, PTL DEF Spec

\* Of the requests of a journey at most one drives it, and the resuming
\* flag of the session says whether one does.
THEOREM ClaimIsExclusive == Spec => []ClaimExclusive
<1>1. ClaimInv => ClaimExclusive  BY DEF ClaimInv
<1> QED  BY <1>1, ClaimInvariant, PTL

\* However long a request runs, the session it drives is not evicted under
\* it, and no request gets the claim of a session already evicted.
THEOREM DrivenStaysStored == Spec => []DrivenIsStored
<1>1. ClaimInv => DrivenIsStored  BY DEF ClaimInv
<1> QED  BY <1>1, ClaimInvariant, PTL

-----------------------------------------------------------------------------
\* The index

\* IndexSound, token by token.
Indexed ==
  \A c \in Corr, n \in Step : <<c, n>> \in byState <=> c \in byID /\ session[c].oauthState = n

LEMMA IndexedSound == TypeOK => (Indexed <=> IndexSound)
<1> SUFFICES ASSUME TypeOK PROVE Indexed <=> IndexSound
  OBVIOUS
<1>1. byState \subseteq Corr \X Step /\ byID \subseteq Corr
  BY DEF TypeOK, StoreTypeOK, Token
<1>2. \A c \in Corr : session[c].oauthState # 0 => session[c].oauthState \in Step
  BY StoreAssumption DEF TypeOK, StoreTypeOK, Session, Step, StoreAssumption
<1>3. 0 \notin Step
  BY DEF Step
<1> DEFINE entries == {<<c, session[c].oauthState>> : c \in {d \in byID : session[d].oauthState # 0}}
<1>4. \A c \in Corr, n \in Step :
        <<c, n>> \in entries <=> c \in byID /\ session[c].oauthState = n
  BY <1>3
<1>5. entries \subseteq Corr \X Step
  BY <1>1, <1>2
<1>6. ASSUME Indexed PROVE byState = entries
  <2> HIDE DEF entries
  <2>1. \A t \in Corr \X Step : t \in byState <=> t \in entries
    BY <1>4, <1>6 DEF Indexed
  <2> QED  BY <1>1, <1>5, <2>1
<1>7. ASSUME byState = entries PROVE Indexed
  BY <1>4, <1>7 DEF Indexed
<1> QED  BY <1>6, <1>7 DEF IndexSound

\* A session that gives up its OAuth state leaves the index with it.
LEMMA DropIndexed ==
  ASSUME TypeOK, Indexed, NEW c \in Corr, Others(c), byID' = byID,
         byState' = byState \ IndexEntry(c), session'[c].oauthState = 0
  PROVE  Indexed'
<1> SUFFICES ASSUME NEW d \in Corr, NEW n \in Step
             PROVE  <<d, n>> \in byState' <=> d \in byID /\ session'[d].oauthState = n
  BY DEF Indexed
<1>1. n # 0  BY DEF Step
<1>2. CASE d = c
  <2>1. <<c, n>> \in byState => <<c, n>> \in IndexEntry(c)
    BY DEF Indexed, IndexEntry
  <2> QED  BY <1>1, <1>2, <2>1
<1>3. CASE d # c
  <2>1. <<d, n>> \notin IndexEntry(c)
    BY <1>3 DEF IndexEntry
  <2> QED  BY <1>3, <2>1 DEF Indexed, Others
<1> QED  BY <1>2, <1>3

LEMMA PeekIndexed ==
  ASSUME TypeOK, Indexed, NEW c \in Corr, Peeks(c)
  PROVE  Indexed'
<1>1. StoreTypeOK /\ session[c] \in Session  BY DEF TypeOK, StoreTypeOK
<1>2. CASE UNCHANGED <<session, byID, byState>>
  BY <1>2 DEF Indexed
<1>3. CASE Expire(c) /\ Expired(session[c])
  <2>1. session'[c].oauthState = 0
    BY <1>1, <1>3, ExpireEffect, ExpiredSession
  <2> QED  BY <1>1, <1>3, <2>1, ExpireEffect, DropIndexed
<1>4. CASE Expire(c) /\ ~Expired(session[c])
  BY <1>1, <1>2, <1>4, ExpireEffect
<1> QED  BY <1>2, <1>3, <1>4 DEF Peeks

LEMMA NextIndexed == ClaimInv /\ Indexed /\ [Next]_vars => Indexed'
<1> SUFFICES ASSUME ClaimInv, Indexed, [Next]_vars PROVE Indexed'
  OBVIOUS
<1>1. /\ TypeInv /\ TypeOK /\ StoreTypeOK /\ HandleHeld
      /\ Unbegun /\ ClaimExclusive /\ DrivenIsStored
  BY DEF ClaimInv, TypeInv, TypeOK
\* No session changes its OAuth state.
<1>2. ASSUME UNCHANGED <<byID, byState>>,
             \A c \in Corr : session'[c].oauthState = session[c].oauthState
      PROVE  Indexed'
  BY <1>2 DEF Indexed
<1>3. ASSUME NEW c \in Corr, Start(c) PROVE Indexed'
  <2>1. New(c, 1) /\ 1 \in Step /\ begun[c] = "no"
    BY <1>1, <1>3, StartEffect
  <2>2. Others(c) /\ session'[c].oauthState = 1 /\ byID' = (byID \ Evicted) \cup {c}
    BY <1>1, <2>1, NewEffect
  <2>3. byState' = (byState \ UNION {IndexEntry(d) : d \in Evicted}) \cup {<<c, 1>>}
    BY <1>1, <2>1, NewEffect
  <2> SUFFICES ASSUME NEW d \in Corr, NEW n \in Step
               PROVE  <<d, n>> \in byState' <=> d \in byID' /\ session'[d].oauthState = n
    BY DEF Indexed
  <2>4. <<d, n>> \in UNION {IndexEntry(e) : e \in Evicted} <=>
          d \in Evicted /\ session[d].oauthState = n
    BY DEF IndexEntry
  <2>5. CASE d = c
    <3>1. c \notin byID  BY <1>1, <2>1 DEF Unbegun
    <3>2. <<c, n>> \notin byState  BY <3>1 DEF Indexed
    <3> QED  BY <2>2, <2>3, <2>5, <3>2
  <2>6. CASE d # c
    <3>1. <<d, n>> \in byState <=> d \in byID /\ session[d].oauthState = n
      BY DEF Indexed
    <3>2. session'[d] = session[d] /\ <<d, n>> # <<c, 1>>
      BY <2>2, <2>6 DEF Others
    <3> QED  BY <2>2, <2>3, <2>4, <2>6, <3>1, <3>2
  <2> QED  BY <2>5, <2>6
<1>4. ASSUME NEW c \in Corr, BeginFails(c) PROVE Indexed'
  BY <1>2, <1>4 DEF BeginFails
<1>5. ASSUME NEW c \in Corr, BeginUpdate(c) PROVE Indexed'
  BY <1>1, <1>2, <1>5, BeginUpdateEffect DEF SameClaim, Others
<1>6. ASSUME NEW c \in Corr, Poll(c) PROVE Indexed'
  BY <1>1, <1>6, PollEffect, PeekIndexed
<1>7. ASSUME NEW r \in Requests, RequestStep(r) PROVE Indexed'
  <2>1. sess(r) \in Corr
    BY <1>1, TokenType
  <2>2. Peeks(sess(r)) => Indexed'
    BY <1>1, <2>1, PeekIndexed
  <2>3. Drove(r) => Indexed'
    BY <1>2, <2>1 DEF Drove, SameClaim, Others
  <2>4. CASE Consume(r)
    <3>1. ConsumeForResume(sess(r), "claimed") => Indexed'
      BY <1>1, <2>1, ClaimEffect, DropIndexed
    <3> QED  BY <1>1, <2>2, <2>4, <3>1, ConsumeEffect
  <2>5. CASE Redirect(r)
    <3>1. handle[r] \in Step /\ SetState(sess(r), handle[r]) /\ sess(r) \in byID
      BY <1>1, <2>5, RedirectEffect DEF HandleHeld, Holding, TypeOK, Step, DrivenIsStored, Driving
    <3>2. /\ byID' = byID /\ Others(sess(r)) /\ session'[sess(r)].oauthState = handle[r]
          /\ byState' = (byState \ IndexEntry(sess(r))) \cup {<<sess(r), handle[r]>>}
      BY <1>1, <2>1, <3>1, SetStateEffect
    <3> SUFFICES ASSUME NEW d \in Corr, NEW n \in Step
                 PROVE  <<d, n>> \in byState' <=> d \in byID' /\ session'[d].oauthState = n
      BY DEF Indexed
    <3>3. CASE d = sess(r)
      <4>1. <<d, n>> \in byState => <<d, n>> \in IndexEntry(d)
        BY DEF Indexed, IndexEntry
      <4>2. <<d, n>> = <<sess(r), handle[r]>> <=> n = handle[r]
        BY <3>3
      <4> QED  BY <3>1, <3>2, <3>3, <4>1, <4>2
    <3>4. CASE d # sess(r)
      <4>1. <<d, n>> \notin IndexEntry(sess(r)) /\ <<d, n>> # <<sess(r), handle[r]>>
        BY <3>4 DEF IndexEntry
      <4> QED  BY <3>2, <3>4, <4>1 DEF Indexed, Others
    <3> QED  BY <3>3, <3>4
  <2>6. CASE FinalizeSession(r)
    BY <1>1, <2>1, <2>6, FinalizeStep, FinalizeEffect, DropIndexed
  <2> QED  BY <1>1, <1>7, <2>2, <2>3, <2>4, <2>5, <2>6, LookupEffect, ViewEffect, DrivesOnEffect,
              RestatusStep DEF RequestStep
<1>8. CASE Tick
  BY <1>2, <1>8 DEF Tick
<1>9. CASE UNCHANGED vars
  BY <1>2, <1>9 DEF vars
<1> QED  BY <1>3, <1>4, <1>5, <1>6, <1>7, <1>8, <1>9, NextCases DEF RequestStep

LEMMA IndexInvariant == Spec => [](ClaimInv /\ Indexed)
<1>1. Init => Indexed
  BY DEF Init, StoreInit, Indexed
<1> QED  BY <1>1, InitClaim, NextClaimInv, NextIndexed, PTL DEF Spec

\* The state index and the sessions agree: a state is found exactly while
\* it is the pending state of a stored session.
THEOREM IndexIsSound == Spec => []IndexSound
<1>1. ClaimInv /\ Indexed => IndexSound
  BY IndexedSound DEF ClaimInv, TypeInv
<1> QED  BY <1>1, IndexInvariant, PTL

-----------------------------------------------------------------------------
\* The order of the handles

\* What is known of the handles of journey c: those used up are 1, 2, ...
\* in this order, and the next one is held by the session, if nobody drives
\* it and it has not been scrubbed, or else by the driver.
OrderOf(c) ==
  /\ \A i \in 1..Len(spent[c]) : spent[c][i] = i
  /\ ~session[c].resuming => session[c].handle \in {0, Len(spent[c]) + 1}
  /\ \A r \in Requests : sess(r) = c =>
       /\ pc[r] = "resume" => handle[r] \in {0, Len(spent[c]) + 1}
       /\ pc[r] \in Holding \ {"restatus"} =>
            /\ handle[r] = Len(spent[c]) + 1
            /\ session[c].handle \in {0, handle[r]}

Ordered == \A c \in Corr : OrderOf(c)

\* A step that at most scrubs the handle of c, and gives nobody the claim.
LEMMA SameOrder ==
  ASSUME NEW c \in Corr, OrderOf(c), spent'[c] = spent[c], token' = token,
         session'[c].handle \in {session[c].handle, 0},
         session'[c].resuming = session[c].resuming,
         \A r \in Requests : sess(r) = c =>
           \/ pc'[r] = pc[r] /\ handle'[r] = handle[r]
           \/ pc'[r] \notin Driving
  PROVE  OrderOf(c)'
  BY DEF OrderOf, Holding, Driving

LEMMA AppendNext ==
  ASSUME NEW seq \in Seq(Step), Len(seq) + 1 \in Step, \A i \in 1..Len(seq) : seq[i] = i
  PROVE  LET longer == Append(seq, Len(seq) + 1)
         IN  /\ Len(longer) = Len(seq) + 1
             /\ \A i \in 1..Len(longer) : longer[i] = i
  OBVIOUS

\* The only driver of a journey uses its next handle.
LEMMA DriveOrder ==
  ASSUME ClaimInv, NEW r \in Requests, DrivesOn(r),
         NEW c \in Corr, sess(r) = c, OrderOf(c)
  PROVE  OrderOf(c)'
<1>1. /\ TypeInv /\ TypeOK /\ spent[c] \in Seq(Step)
      /\ handle[r] \in 0..MaxStep
  BY TokenType DEF ClaimInv, TypeInv, TypeOK
<1>2. pc[r] \in Driving \ {"finalize"} /\ Drove(r) /\ (Advancing(r) \/ Ending(r))
  BY <1>1, DrivesOnEffect
<1>3. session[c].resuming /\ \A q \in Requests : sess(q) = c /\ pc[q] \in Driving => q = r
  BY <1>1, <1>2 DEF ClaimInv, ClaimExclusive, Drives
<1>4. /\ \A q \in Requests \ {r} : pc'[q] = pc[q] /\ handle'[q] = handle[q]
      /\ token' = token
  BY <1>1, RequestFrame DEF RequestStep
<1>5. session'[c].resuming
  BY <1>2, <1>3 DEF Drove, SameClaim
<1>6. Spending(r) => /\ handle[r] = Len(spent[c]) + 1
                     /\ spent'[c] = Append(spent[c], handle[r])
  BY <1>1 DEF Spending, OrderOf, Holding, TypeOK, Step
<1>7. Spending(r) => /\ Len(spent'[c]) = Len(spent[c]) + 1
                     /\ \A i \in 1..Len(spent'[c]) : spent'[c][i] = i
  <2> SUFFICES ASSUME Spending(r)
               PROVE  /\ Len(spent'[c]) = Len(spent[c]) + 1
                      /\ \A i \in 1..Len(spent'[c]) : spent'[c][i] = i
    OBVIOUS
  <2>1. Len(spent[c]) + 1 \in Step /\ \A i \in 1..Len(spent[c]) : spent[c][i] = i
    BY <1>6 DEF Spending, OrderOf
  <2> QED  BY <1>1, <1>6, <2>1, AppendNext
<1>8. \A q \in Requests \ {r} : sess(q) = c => pc'[q] \notin Driving
  BY <1>3, <1>4
<1>9. CASE Advancing(r)
  <2>1. /\ Spending(r) /\ handle'[r] = handle[r] + 1
        /\ session'[c].handle = handle[r] + 1 /\ pc'[r] # "resume"
    BY <1>1, <1>9 DEF Advancing, TypeOK, Moves
  <2> QED  BY <1>1, <1>4, <1>5, <1>6, <1>7, <1>8, <2>1 DEF OrderOf, Holding, Driving
<1>10. CASE Ending(r)
  <2>1. pc'[r] = "finalize"
    BY <1>10 DEF Ending, Moves
  <2>2. \A i \in 1..Len(spent'[c]) : spent'[c][i] = i
    BY <1>7, <1>10 DEF Ending, OrderOf
  <2> QED  BY <1>4, <1>5, <1>8, <2>1, <2>2 DEF OrderOf, Holding, Driving
<1> QED  BY <1>2, <1>9, <1>10

LEMMA NextOrdered == ClaimInv /\ Ordered /\ [Next]_vars => Ordered'
<1> SUFFICES ASSUME ClaimInv, Ordered, [Next]_vars, NEW c \in Corr PROVE OrderOf(c)'
  BY DEF Ordered
<1>1. TypeInv /\ TypeOK /\ StoreTypeOK /\ HandleHeld /\ OrderOf(c)
  BY DEF ClaimInv, TypeInv, TypeOK, Ordered
\* Another journey, or none, takes the step.
<1>2. ASSUME session'[c] = session[c], UNCHANGED <<token, pc, handle, spent>>
      PROVE  OrderOf(c)'
  BY <1>1, <1>2, SameOrder
<1>3. ASSUME NEW d \in Corr, Peeks(d), UNCHANGED <<token, pc, handle, spent>>
      PROVE  OrderOf(c)'
  <2>1. CASE d = c
    BY <1>1, <1>3, <2>1, PeekEffect, SameOrder
  <2>2. CASE d # c
    BY <1>1, <1>2, <1>3, <2>2, PeekEffect DEF Others
  <2> QED  BY <2>1, <2>2
<1>4. ASSUME NEW d \in Corr, Start(d) \/ BeginUpdate(d) PROVE OrderOf(c)'
  <2>1. Others(d) /\ UNCHANGED <<token, pc, handle, spent>> /\ begun[d] \in {"no", "stored"}
    BY <1>1, <1>4, StartEffect, NewEffect, BeginUpdateEffect DEF BeginUpdate, requestVars
  <2>2. CASE d = c
    <3>1. spent[c] = << >> /\ \A r \in Requests : sess(r) = c => pc[r] = "idle"
      BY <2>1, <2>2 DEF ClaimInv, Unbegun
    <3>2. session'[c].handle \in {0, 1}
      BY <1>1, <1>4, <2>2, StartEffect, NewEffect, BeginUpdateEffect
    <3> QED  BY <2>1, <3>1, <3>2 DEF OrderOf, Holding
  <2>3. CASE d # c
    BY <1>2, <2>1, <2>3 DEF Others
  <2> QED  BY <2>2, <2>3
<1>5. ASSUME NEW d \in Corr, BeginFails(d) PROVE OrderOf(c)'
  BY <1>2, <1>5 DEF BeginFails, requestVars
<1>6. ASSUME NEW d \in Corr, Poll(d) PROVE OrderOf(c)'
  BY <1>3, <1>6, PollEffect DEF requestVars
<1>7. ASSUME NEW r \in Requests, RequestStep(r) PROVE OrderOf(c)'
  <2>1. sess(r) \in Corr /\ handle[r] \in 0..MaxStep
    BY <1>1, TokenType DEF TypeOK
  <2>2. /\ \A q \in Requests \ {r} : pc'[q] = pc[q] /\ handle'[q] = handle[q]
        /\ token' = token
    BY <1>1, <1>7, RequestFrame
  <2>3. CASE sess(r) # c
    BY <1>1, <1>7, <2>2, <2>3, RequestFrame, SameOrder
  <2>4. ASSUME sess(r) = c, Peeks(c), pc'[r] \notin Driving, spent' = spent PROVE OrderOf(c)'
    BY <1>1, <2>2, <2>4, PeekEffect, SameOrder
  <2>5. CASE sess(r) = c /\ Lookup(r)
    BY <1>1, <2>4, <2>5, LookupEffect DEF Moves, Driving
  <2>6. CASE sess(r) = c /\ Consume(r)
    <3>1. CASE /\ ConsumeForResume(c, "claimed") /\ Moves(r, "resume")
               /\ handle' = [handle EXCEPT ![r] = session[c].handle]
      <4>1. ~session[c].resuming /\ session'[c].resuming
        BY <1>1, <3>1, ClaimEffect
      <4>2. \A q \in Requests : sess(q) = c => pc[q] \notin Driving
        BY <4>1 DEF ClaimInv, ClaimExclusive, Drives
      <4>3. pc'[r] = "resume" /\ handle'[r] \in {0, Len(spent[c]) + 1}
        BY <1>1, <3>1, <4>1 DEF Moves, OrderOf, TypeOK
      <4>4. spent' = spent
        BY <1>1, <2>6, ConsumeEffect
      <4> QED  BY <1>1, <2>2, <4>1, <4>2, <4>3, <4>4 DEF OrderOf, Holding, Driving
    <3>2. CASE Peeks(c) /\ Moves(r, "view")
      BY <1>1, <2>4, <2>6, <3>2, ConsumeEffect DEF Moves, Driving
    <3> QED  BY <1>1, <2>6, <3>1, <3>2, ConsumeEffect
  <2>7. CASE sess(r) = c /\ DrivesOn(r)
    BY <1>1, <2>7, DriveOrder
  \* The claim is given up: nobody drives the journey any more.
  <2>8. ASSUME sess(r) = c, pc[r] \in Driving, pc'[r] \notin Driving, spent' = spent,
               session'[c].handle \in {0, Len(spent[c]) + 1}
        PROVE  OrderOf(c)'
    <3>1. \A q \in Requests : sess(q) = c => pc'[q] \notin Driving
      BY <1>1, <2>2, <2>8 DEF ClaimInv, ClaimExclusive, Drives
    <3> QED  BY <1>1, <2>2, <2>8, <3>1 DEF OrderOf, Holding, Driving
  <2>9. CASE sess(r) = c /\ Redirect(r)
    <3>1. /\ pc[r] = "redirect" /\ SetState(c, handle[r]) /\ handle[r] \in Step
          /\ pc'[r] = "restatus" /\ spent' = spent
      BY <1>1, <2>9, RedirectEffect DEF HandleHeld, Holding, TypeOK, Step, Moves
    <3>2. session'[c].handle = session[c].handle
      BY <1>1, <3>1, SetStateEffect
    <3>3. session[c].handle \in {0, Len(spent[c]) + 1}
      BY <1>1, <2>9, <3>1 DEF OrderOf, Holding
    <3> QED  BY <2>8, <2>9, <3>1, <3>2, <3>3 DEF Driving
  <2>10. CASE sess(r) = c /\ Restatus(r)
    <3>1. /\ Drove(r) /\ session'[c].handle = session[c].handle
          /\ spent' = spent /\ pc'[r] = "view"
      BY <1>1, <2>10, RestatusStep DEF Moves
    <3> QED  BY <1>1, <2>2, <2>10, <3>1, SameOrder DEF Drove, SameClaim, Driving
  <2>11. CASE sess(r) = c /\ FinalizeSession(r)
    <3>1. pc[r] = "finalize" /\ Finalize(c) /\ pc'[r] = "view" /\ spent' = spent
      BY <1>1, <2>11, FinalizeStep DEF Moves
    <3>2. session'[c].handle = 0
      BY <1>1, <3>1, FinalizeEffect
    <3> QED  BY <2>8, <2>11, <3>1, <3>2 DEF Driving
  <2>12. CASE sess(r) = c /\ View(r)
    BY <1>1, <2>4, <2>12, ViewEffect DEF Moves, Driving
  <2> QED  BY <1>7, <2>3, <2>5, <2>6, <2>7, <2>9, <2>10, <2>11, <2>12 DEF RequestStep
<1>8. CASE Tick
  BY <1>2, <1>8 DEF Tick, requestVars
<1>9. CASE UNCHANGED vars
  BY <1>2, <1>9 DEF vars, requestVars
<1> QED  BY <1>3, <1>4, <1>5, <1>6, <1>7, <1>8, <1>9, NextCases DEF RequestStep

LEMMA InitOrdered == Init => Ordered
<1> SUFFICES ASSUME Init, NEW c \in Corr PROVE OrderOf(c)
  BY DEF Ordered
<1>1. spent[c] = << >> /\ session[c].handle = 0 /\ \A r \in Requests : pc[r] = "idle"
  BY DEF Init, StoreInit, NilSession
<1> QED  BY <1>1 DEF OrderOf, Holding

LEMMA OrderInvariant == Spec => [](ClaimInv /\ Ordered)
  BY InitOrdered, InitClaim, NextClaimInv, NextOrdered, PTL DEF Spec

\* Whatever duplicates, expiry and evictions do, a journey resumes each SDK
\* handle at most once, and in the order in which the SDK issued them.
THEOREM SpentOnceInOrder == Spec => []SpentInOrder
<1>1. Ordered => SpentInOrder
  BY DEF Ordered, OrderOf, SpentInOrder
<1> QED  BY <1>1, OrderInvariant, PTL

-----------------------------------------------------------------------------
\* Refinement

drivers == [c \in Corr |-> {r \in Requests : Drives(r, c)}]

\* A step that changes who drives at most in journey c.
LEMMA DriversEffect ==
  ASSUME NEW c \in Corr, NEW driver \in SUBSET Requests,
         \A r \in Requests : Drives(r, c)' <=> r \in driver,
         \A d \in Corr \ {c}, r \in Requests : Drives(r, d)' <=> Drives(r, d)
  PROVE  drivers' = [drivers EXCEPT ![c] = driver]
  BY DEF drivers

LEMMA DriversSame ==
  ASSUME \A d \in Corr, r \in Requests : Drives(r, d)' <=> Drives(r, d)
  PROVE  drivers' = drivers
  BY DEF drivers

LEMMA NextLinear ==
  ClaimInv /\ Ordered /\ [Next]_vars => [Linear!Next]_<<drivers, spent>>
<1> SUFFICES ASSUME ClaimInv, Ordered, [Next]_vars
             PROVE  Linear!Next \/ UNCHANGED <<drivers, spent>>
  BY DEF drivers
<1>1. TypeInv /\ TypeOK /\ StoreTypeOK /\ HandleHeld
  BY DEF ClaimInv, TypeInv, TypeOK
<1>2. UNCHANGED <<pc, token>> => drivers' = drivers
  BY DriversSame DEF Drives
<1>3. ASSUME NEW c \in Corr, Start(c) \/ BeginFails(c) \/ BeginUpdate(c) \/ Poll(c)
      PROVE  UNCHANGED <<drivers, spent>>
  BY <1>1, <1>2, <1>3, StartEffect, PollEffect DEF BeginFails, BeginUpdate, requestVars
<1>4. ASSUME NEW r \in Requests, RequestStep(r)
      PROVE  Linear!Next \/ UNCHANGED <<drivers, spent>>
  <2>0. PICK c \in Corr : sess(r) = c
    BY <1>1, TokenType
  <2>1. /\ c \in Corr /\ sess(r) = c /\ token' = token
        /\ \A q \in Requests \ {r} : pc'[q] = pc[q]
    BY <1>1, <1>4, <2>0, RequestFrame
  <2>2. (pc'[r] \in Driving <=> pc[r] \in Driving) => drivers' = drivers
    BY <2>1, DriversSame DEF Drives
  <2>3. ASSUME Lookup(r) \/ Restatus(r) \/ View(r)
        PROVE  UNCHANGED <<drivers, spent>>
    BY <1>1, <2>2, <2>3, LookupEffect, RestatusStep, ViewEffect DEF Moves, Driving
  <2>4. CASE Consume(r)
    <3>1. CASE ConsumeForResume(sess(r), "claimed") /\ Moves(r, "resume")
      <4>1. ~session[c].resuming
        BY <1>1, <2>1, <3>1, ClaimEffect
      <4>2. \A q \in Requests : ~Drives(q, c)
        BY <2>1, <4>1 DEF ClaimInv, ClaimExclusive
      <4>3. drivers[c] = {}
        BY <2>1, <4>2 DEF drivers
      <4>4. drivers' = [drivers EXCEPT ![c] = {r}]
        <5>1. \A q \in Requests : Drives(q, c)' <=> q \in {r}
          BY <2>1, <3>1, <4>2 DEF Drives, Moves, Driving
        <5>2. \A d \in Corr \ {c}, q \in Requests : Drives(q, d)' <=> Drives(q, d)
          BY <2>1 DEF Drives
        <5> QED  BY <2>1, <5>1, <5>2, DriversEffect
      <4>5. spent' = spent
        BY <1>1, <2>4, ConsumeEffect
      <4> QED  BY <2>1, <4>3, <4>4, <4>5 DEF Linear!Next, Linear!Claim, drivers
    <3>2. CASE Moves(r, "view")
      BY <1>1, <2>2, <2>4, <3>2, ConsumeEffect DEF Moves, Driving
    <3> QED  BY <1>1, <2>4, <3>1, <3>2, ConsumeEffect
  <2>5. CASE DrivesOn(r)
    <3>1. /\ pc[r] \in Driving /\ handle[r] \in 0..MaxStep /\ spent[c] \in Seq(Step)
          /\ Advancing(r) \/ Ending(r)
      BY <1>1, <2>1, <2>5, DrivesOnEffect DEF TypeOK
    <3>2. drivers' = drivers
      BY <2>2, <3>1 DEF Advancing, Ending, Moves, Driving
    <3>3. drivers[c] # {}
      BY <2>1, <3>1 DEF drivers, Drives
    <3>4. CASE Spending(r)
      <4>1. handle[r] = Len(spent[c]) + 1
        BY <2>1, <3>4 DEF Spending, Ordered, OrderOf, Holding, Step
      <4>2. Len(spent[c]) < MaxStep
        BY <3>1, <3>4, <4>1, StoreAssumption DEF Spending, Step, StoreAssumption
      <4>3. spent' = [spent EXCEPT ![c] = Append(@, Len(@) + 1)]
        BY <2>1, <3>4, <4>1 DEF Spending
      <4> QED  BY <2>1, <3>2, <3>3, <4>2, <4>3 DEF Linear!Next, Linear!Spend, drivers
    <3>5. CASE UNCHANGED spent
      BY <3>2, <3>5
    <3> QED  BY <3>1, <3>4, <3>5 DEF Advancing, Ending
  <2>6. CASE Redirect(r) \/ FinalizeSession(r)
    <3>1. pc[r] \in Driving /\ pc'[r] \notin Driving /\ spent' = spent
      BY <1>1, <2>6, RedirectEffect, FinalizeStep DEF Moves, Driving
    <3>2. drivers[c] # {}
      BY <2>1, <3>1 DEF drivers, Drives
    <3>3. \A q \in Requests : Drives(q, c) => q = r
      BY <2>1, <3>1 DEF ClaimInv, ClaimExclusive, Drives
    <3>4. drivers' = [drivers EXCEPT ![c] = {}]
      <4>1. \A q \in Requests : Drives(q, c)' <=> q \in {}
        BY <2>1, <3>1, <3>3 DEF Drives
      <4>2. \A d \in Corr \ {c}, q \in Requests : Drives(q, d)' <=> Drives(q, d)
        BY <2>1 DEF Drives
      <4> QED  BY <2>1, <4>1, <4>2, DriversEffect
    <3> QED  BY <2>1, <3>1, <3>2, <3>4 DEF Linear!Next, Linear!Release, drivers
  <2> QED  BY <1>4, <2>3, <2>4, <2>5, <2>6 DEF RequestStep
<1>5. CASE Tick
  BY <1>2, <1>5 DEF Tick, requestVars
<1>6. CASE UNCHANGED vars
  BY <1>2, <1>6 DEF vars, requestVars
<1> QED  BY <1>3, <1>4, <1>5, <1>6, NextCases DEF RequestStep

\* The flow implements LinearResume: whatever its callers, time and the
\* store do, a journey is driven in exclusive turns, and each turn uses the
\* next handles and no others.
THEOREM FlowIsLinear == Spec => Linearized
<1>1. Init => Linear!Init
  BY DEF Init, Linear!Init, Drives, Driving
<1>2. ClaimInv /\ Ordered /\ [Next]_vars => [Linear!Next]_<<drivers, spent>>
  BY NextLinear
<1> QED  BY <1>1, <1>2, OrderInvariant, PTL DEF Spec, Linearized, Linear!Spec, drivers

=============================================================================
