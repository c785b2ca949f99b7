----------------------------- MODULE MCLockFile -----------------------------
(* Constants of the LockFile runs.                                         *)
EXTENDS LockFile

CONSTANTS p1, p2, p3
=============================================================================
