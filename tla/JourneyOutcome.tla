--------------------------- MODULE JourneyOutcome ---------------------------
(***************************************************************************)
(* What the application that starts a journey is promised about its end:   *)
(* it ends once, for good, completed, declined or failed; a journey that   *)
(* is completed has its signed document, no other journey ever has one,    *)
(* and the document is never replaced.  In the end the gateway forgets it: *)
(* sessions are evicted when another journey starts.                       *)
(***************************************************************************)
EXTENDS Naturals

CONSTANTS Corr, MaxStep

VARIABLES
  outcome,  \* correlation ID -> how the journey ended, if it has
  document  \* correlation ID -> its signed document, 0 for none

Init ==
  /\ outcome = [c \in Corr |-> "none"]
  /\ document = [c \in Corr |-> 0]

\* Journeys may be lost, whatever has become of them, when one is started.
Start(c, lost) ==
  /\ outcome[c] = "none"
  /\ \A d \in lost : outcome[d] # "none"
  /\ outcome' = [d \in Corr |->
       IF d = c THEN "open" ELSE IF d \in lost THEN "gone" ELSE outcome[d]]
  /\ document' = [d \in Corr |-> IF d \in lost THEN 0 ELSE document[d]]

Complete(c, pdf) ==
  /\ outcome[c] = "open"
  /\ outcome' = [outcome EXCEPT ![c] = "completed"]
  /\ document' = [document EXCEPT ![c] = pdf]

End(c, end) ==
  /\ outcome[c] = "open"
  /\ outcome' = [outcome EXCEPT ![c] = end]
  /\ UNCHANGED document

Next ==
  \E c \in Corr :
    \/ \E lost \in SUBSET Corr : Start(c, lost)
    \/ \E pdf \in 1..MaxStep : Complete(c, pdf)
    \/ \E end \in {"declined", "failed"} : End(c, end)

Spec == Init /\ [][Next]_<<outcome, document>>
=============================================================================
