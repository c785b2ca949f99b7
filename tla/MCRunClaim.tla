----------------------------- MODULE MCRunClaim -----------------------------
(* Constants of the RunClaim runs.                                         *)
EXTENDS RunClaim, TLC

CONSTANTS s1, s2, s3, k1, c1

OneKey == [s \in Steps |-> k1]

\* The steps of one key are interchangeable.
Symmetry == Permutations(Steps)
=============================================================================
