---------------------------- MODULE LinearResume ----------------------------
(***************************************************************************)
(* What the claim of a session promises to the signing flow, whatever the  *)
(* interleaving of its requests: a journey is driven in exclusive turns,   *)
(* and over all its turns each SDK handle is used once, in order.          *)
(***************************************************************************)
EXTENDS Naturals, Sequences

CONSTANTS Corr, Requests, MaxStep

VARIABLES
  drivers,  \* correlation ID -> the requests that own its claim
  spent     \* correlation ID -> the handles used up, in order

Init ==
  /\ drivers = [c \in Corr |-> {}]
  /\ spent = [c \in Corr |-> << >>]

Claim(c, r) ==
  /\ drivers[c] = {}
  /\ drivers' = [drivers EXCEPT ![c] = {r}]
  /\ UNCHANGED spent

\* The next handle, and no other, is used by the owner of the claim.
Spend(c) ==
  /\ drivers[c] # {}
  /\ Len(spent[c]) < MaxStep
  /\ spent' = [spent EXCEPT ![c] = Append(@, Len(@) + 1)]
  /\ UNCHANGED drivers

Release(c) ==
  /\ drivers[c] # {}
  /\ drivers' = [drivers EXCEPT ![c] = {}]
  /\ UNCHANGED spent

Next == \E c \in Corr : Spend(c) \/ Release(c) \/ \E r \in Requests : Claim(c, r)

Spec == Init /\ [][Next]_<<drivers, spent>>
=============================================================================
