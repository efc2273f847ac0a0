---------------------------- MODULE MCResumeFlow ----------------------------
(***************************************************************************)
(* The instances of ResumeFlow that TLC checks.                            *)
(***************************************************************************)
EXTENDS ResumeFlow, TLC

\* Requests are interchangeable: no action or safety property tells them
\* apart.
RequestSymmetry == Permutations(Requests)
=============================================================================
