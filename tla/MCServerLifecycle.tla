------------------------- MODULE MCServerLifecycle -------------------------
(***************************************************************************)
(* The instances of ServerLifecycle that TLC checks.                       *)
(***************************************************************************)
EXTENDS ServerLifecycle, TLC

\* Connections are interchangeable, where no fairness is stated for each.
ConnSymmetry == Permutations(Conns)
=============================================================================
