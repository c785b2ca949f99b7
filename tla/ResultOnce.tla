----------------------------- MODULE ResultOnce -----------------------------
(***************************************************************************)
(* What wfc's claim protocol promises about a result: of the runs of one   *)
(* key, one computes at a time, none starts while a result of the key is   *)
(* intact, and a result is what the key's running computation left.        *)
(***************************************************************************)
CONSTANTS
  Keys,   \* the results that can be asked for
  Runs    \* the runs that can compute one

VARIABLES
  computing,  \* a key's runs in flight
  intact      \* a key's results whose outputs were never missing

Init ==
  /\ computing = [k \in Keys |-> {}]
  /\ intact = [k \in Keys |-> {}]

\* A run starts computing a result nobody computes and nobody has.
Begin(k, r) ==
  /\ computing[k] = {} /\ intact[k] = {}
  /\ computing' = [computing EXCEPT ![k] = {r}]
  /\ UNCHANGED intact

\* The run in flight leaves the result.
Finish(k, r) ==
  /\ computing[k] = {r}
  /\ computing' = [computing EXCEPT ![k] = {}]
  /\ intact' = [intact EXCEPT ![k] = {r}]

\* Runs in flight end without a result; results go missing.
Drop ==
  /\ computing' \in [Keys -> SUBSET Runs]
  /\ intact' \in [Keys -> SUBSET Runs]
  /\ \A k \in Keys : /\ computing'[k] \subseteq computing[k]
                     /\ intact'[k] \subseteq intact[k]

Next ==
  \/ \E k \in Keys, r \in Runs : Begin(k, r) \/ Finish(k, r)
  \/ Drop

Spec == Init /\ [][Next]_<<computing, intact>>
=============================================================================
