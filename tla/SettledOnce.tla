----------------------------- MODULE SettledOnce ----------------------------
(***************************************************************************)
(* What the end of a wfc pipeline promises about its targets: while the    *)
(* pipeline is registered each of them gets one row, which runs or has its *)
(* outcome from the start; an outcome is written once, and only a user's   *)
(* cancel overturns it; the registration goes when every target has a row, *)
(* or when none has because nothing was ever started.  Whoever runs the    *)
(* pipeline may give up on that: then the registration goes as things are, *)
(* and a target gets its row later or not at all, but never a second one.  *)
(***************************************************************************)
EXTENDS Naturals

CONSTANT Targets  \* what the pipeline is to produce

VARIABLES
  registered,  \* whether somebody has still to see to the pipeline
  givenUp,     \* whether its runner gave up on giving every target a row
  rows,        \* how many rows a target has
  status       \* the status of a target's row, "none" before it has one

Outcomes == {"completed", "failed", "cancelled"}

Init ==
  /\ registered = TRUE /\ givenUp = FALSE
  /\ rows = [t \in Targets |-> 0]
  /\ status = [t \in Targets |-> "none"]

\* A target's row starts to run.
Begin(t) ==
  /\ registered /\ rows[t] = 0
  /\ rows' = [rows EXCEPT ![t] = 1]
  /\ status' = [status EXCEPT ![t] = "running"]
  /\ UNCHANGED <<registered, givenUp>>

\* Running rows get their outcome, and targets without a row a row with one.
Settle(T) ==
  /\ \A t \in T : \/ status[t] = "running"
                  \/ (registered \/ givenUp) /\ rows[t] = 0
  /\ rows' = [t \in Targets |-> IF t \in T /\ rows[t] = 0 THEN 1 ELSE rows[t]]
  /\ status' \in [Targets -> Outcomes \cup {"running", "none"}]
  /\ \A t \in Targets : IF t \in T THEN status'[t] \in Outcomes
                                   ELSE status'[t] = status[t]
  /\ UNCHANGED <<registered, givenUp>>

\* A user's cancel writes rows that had an outcome, or run.
Overturn(T) ==
  /\ \A t \in T : rows[t] = 1
  /\ status' = [t \in Targets |-> IF t \in T THEN "cancelled" ELSE status[t]]
  /\ UNCHANGED <<registered, givenUp, rows>>

\* The registration goes, for good.
Unregister ==
  /\ registered
  /\ givenUp \/ \E n \in {0, 1} : \A t \in Targets : rows[t] = n
  /\ registered' = FALSE
  /\ UNCHANGED <<givenUp, rows, status>>

\* The runner's own ending goes wrong.
GiveUp ==
  /\ givenUp' = TRUE
  /\ UNCHANGED <<registered, rows, status>>

Next ==
  \/ \E t \in Targets : Begin(t)
  \/ \E T \in SUBSET Targets : Settle(T) \/ Overturn(T)
  \/ Unregister \/ GiveUp

Spec == Init /\ [][Next]_<<registered, givenUp, rows, status>>
=============================================================================
