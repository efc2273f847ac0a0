---------------------------- MODULE SessionStore ----------------------------
(***************************************************************************)
(* The in-memory session store of internal/session/store.go.  Each         *)
(* operation holds Memory.mu from its first line to its last, so each is   *)
(* one atomic action here.  The module has no Next: the callers of the     *)
(* store (ResumeFlow) compose its operations into theirs.                  *)
(*                                                                         *)
(* SDK handles, OAuth states, redirect URLs and signed documents are       *)
(* identified by the SDK step that produced them: 1 is the step of         *)
(* SDK.Begin, n + 1 the one that resuming handle n yields, and 0 stands    *)
(* for Go's nil or "".  The OAuth state of step n of journey c is the      *)
(* token <<c, n>>: the SDK draws a fresh state for every redirect, so two  *)
(* journeys never share one.                                               *)
(***************************************************************************)
EXTENDS Integers, FiniteSets

CONSTANTS
  Corr,     \* the correlation IDs of the journeys
  MaxStep,  \* bound: SDK steps in a journey
  TTL,      \* the session lifetime, Engine.TTL
  Grace     \* evictGrace, how long an expired session is retained

ASSUME StoreAssumption ==
  /\ MaxStep \in Nat \ {0}
  /\ TTL \in Nat \ {0}
  /\ Grace \in Nat

VARIABLES
  session,  \* correlation ID -> the Session it names, kept once evicted:
            \* a request may still hold the pointer
  byID,     \* the correlation IDs present in Memory.byID
  byState,  \* the tokens <<c, n>> that Memory.byState maps to c
  clock     \* Memory.clock

storeVars == <<session, byID, byState, clock>>

Step  == 1..MaxStep
Token == Corr \X Step

Reason == {"", "session_expired", "upstream_error", "resume_error", "declined", "outcome"}

Status == {"", "authorizing", "completed", "declined", "failed"}

Session ==
  [ status     : Status,
    reason     : Reason,
    handle     : 0..MaxStep,
    oauthState : 0..MaxStep,
    resuming   : BOOLEAN,
    pdf        : 0..MaxStep,
    expiresAt  : Nat ]

\* The zero value of the Go type, for an ID that names no session yet.
NilSession == [status |-> "", reason |-> "", handle |-> 0, oauthState |-> 0,
               resuming |-> FALSE, pdf |-> 0, expiresAt |-> 0]

StoreInit ==
  /\ session = [c \in Corr |-> NilSession]
  /\ byID = {}
  /\ byState = {}
  /\ clock = 0

StoreTypeOK ==
  /\ session \in [Corr -> Session]
  /\ byID \subseteq Corr
  /\ byState \subseteq Token
  /\ clock \in Nat

TerminalStatus == {"completed", "declined", "failed"}

Terminal(s) == s.status \in TerminalStatus

\* A slip of Expired (see below).
Expired_evenTerminal(s) == clock > s.expiresAt

Expired(s) == ~Terminal(s) /\ clock > s.expiresAt

\* The session's own entry of byState (an empty OAuth state has none).
IndexEntry(c) == {<<c, session[c].oauthState>>}

Put(c, s) == session' = [session EXCEPT ![c] = s]

-----------------------------------------------------------------------------
\* Slips of the operations below: each is what its operation would be with
\* a plausible bug in it, and PROJECT.json names the property that notices.

expireLocked_keepsHandle(s) ==
  IF Expired(s)
  THEN [s EXCEPT !.status = "failed", !.reason = "session_expired", !.oauthState = 0]
  ELSE s

expireLocked_never(s) == s

Evictable_noGrace(s) == ~s.resuming /\ clock > s.expiresAt

Evictable_ignoresClaim(s) == clock > s.expiresAt + Grace

New_leaksStates(c, n) ==
  /\ byID' = {d \in byID : clock <= session[d].expiresAt + Grace} \cup {c}
  /\ byState' = byState \cup {<<c, n>>}
  /\ Put(c, [NilSession EXCEPT !.status = "authorizing", !.oauthState = n,
                               !.expiresAt = clock + TTL])

ConsumeForResume_sharesClaim(c, outcome) ==
  /\ UNCHANGED byID
  /\ IF Terminal(session[c])
     THEN outcome = "terminal" /\ UNCHANGED <<session, byState>>
     ELSE /\ outcome = "claimed"
          /\ Put(c, [session[c] EXCEPT !.resuming = TRUE, !.oauthState = 0])
          /\ byState' = byState \ IndexEntry(c)

ConsumeForResume_reopens(c, outcome) ==
  /\ UNCHANGED byID
  /\ IF session[c].resuming
     THEN outcome = "resuming" /\ UNCHANGED <<session, byState>>
     ELSE /\ outcome = "claimed"
          /\ Put(c, [session[c] EXCEPT !.resuming = TRUE, !.oauthState = 0])
          /\ byState' = byState \ IndexEntry(c)

SetState_keepsClaim(c, n) ==
  /\ byState' = (byState \ IndexEntry(c)) \cup {<<c, n>>}
  /\ Put(c, [session[c] EXCEPT !.oauthState = n])
  /\ UNCHANGED byID

\* The early return for a terminal session leaves the mutex locked.
ConsumeForResume_hangs(c, outcome) ==
  /\ ~Terminal(session[c])
  /\ UNCHANGED byID
  /\ IF session[c].resuming
     THEN outcome = "resuming" /\ UNCHANGED <<session, byState>>
     ELSE /\ outcome = "claimed"
          /\ Put(c, [session[c] EXCEPT !.resuming = TRUE, !.oauthState = 0])
          /\ byState' = byState \ IndexEntry(c)

-----------------------------------------------------------------------------
\* Expiry and eviction, which other operations perform on their way in.

expireLocked(s) ==
  IF Expired(s)
  THEN [s EXCEPT !.status = "failed", !.reason = "session_expired",
                 !.handle = 0, !.oauthState = 0]
  ELSE s

Evictable(s) == ~s.resuming /\ clock > s.expiresAt + Grace

New(c, n) ==
  LET evicted == {d \in byID : Evictable(session[d])}
  IN  /\ byID' = (byID \ evicted) \cup {c}
      /\ byState' = (byState \ UNION {IndexEntry(d) : d \in evicted}) \cup {<<c, n>>}
      /\ Put(c, [NilSession EXCEPT !.status = "authorizing", !.oauthState = n,
                                   !.expiresAt = clock + TTL])

\* What Get, GetByState and ViewByID do to the session they find.
Expire(c) ==
  /\ Put(c, expireLocked(session[c]))
  /\ byState' = IF Expired(session[c]) THEN byState \ IndexEntry(c) ELSE byState
  /\ UNCHANGED byID

GetByState(token, found) ==
  LET c == token[1]
  IN  \/ /\ token \notin byState \/ c \notin byID
         /\ ~found
         /\ UNCHANGED <<session, byID, byState>>
      \/ /\ token \in byState /\ c \in byID
         /\ Expire(c)
         /\ found = (token \in byState')

ViewByID(c, found) ==
  \/ c \notin byID /\ ~found /\ UNCHANGED <<session, byID, byState>>
  \/ c \in byID /\ found /\ Expire(c)

\* outcome: "claimed", or the error returned, ErrTerminal or ErrResuming.
ConsumeForResume(c, outcome) ==
  LET s == expireLocked(session[c])
  IN  /\ UNCHANGED byID
      /\ \/ Terminal(s) /\ outcome = "terminal" /\ Expire(c)
         \/ /\ ~Terminal(s) /\ s.resuming
            /\ outcome = "resuming"
            /\ UNCHANGED <<session, byState>>
         \/ /\ ~Terminal(s) /\ ~s.resuming
            /\ outcome = "claimed"
            /\ Put(c, [s EXCEPT !.resuming = TRUE, !.oauthState = 0])
            /\ byState' = byState \ IndexEntry(c)

Update(c, s) == Put(c, s) /\ UNCHANGED <<byID, byState>>

SetState(c, n) ==
  /\ byState' = (byState \ IndexEntry(c)) \cup {<<c, n>>}
  /\ Put(c, [session[c] EXCEPT !.oauthState = n, !.resuming = FALSE])
  /\ UNCHANGED byID

Finalize(c) ==
  /\ byState' = byState \ IndexEntry(c)
  /\ Put(c, [session[c] EXCEPT !.oauthState = 0, !.handle = 0, !.resuming = FALSE])
  /\ UNCHANGED byID

=============================================================================
