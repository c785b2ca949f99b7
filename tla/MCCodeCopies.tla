---------------------------- MODULE MCCodeCopies ----------------------------
(* Constants of the CodeCopies runs.                                       *)
EXTENDS CodeCopies, TLC

CONSTANTS c1, r1, t1, t2

Symmetry == Permutations(Claims) \cup Permutations(Trees)

\* Whatever may happen to claims and copies.
AllDisturbances == {"register", "rowEnds", "pruneDies"}
=============================================================================
