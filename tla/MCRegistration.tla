---------------------------- MODULE MCRegistration ----------------------------
(* A small instance of Registration: a method with no version, or with one. *)
EXTENDS Registration

CONSTANTS c1, c2

FirstVersion == [label |-> 1, content |-> c1, at |-> Nothing]
EmptyOrOne == {<<>>, <<FirstVersion>>}
Interchangeable == Permutations(Registrars)
===============================================================================
