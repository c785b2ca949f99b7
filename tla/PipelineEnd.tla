---------------------------- MODULE PipelineEnd -----------------------------
(***************************************************************************)
(* The end of one pipeline of wfc.execution.  Its owner (the process of    *)
(* `run_pipeline`) starts the engine, waits for it, gives every target     *)
(* without a row one, and removes the pipeline record.  A user's cancel    *)
(* flags the record, kills the engine and cancels the running rows; when   *)
(* the owner is gone it closes the pipeline out.  A canvas server's        *)
(* recovery closes out a pipeline that nothing runs any more.  Cancels and *)
(* close-outs hold the close-out lock (module LockFile); the owner holds   *)
(* none.                                                                   *)
(*                                                                         *)
(* A target has at most one row here; a second one is noted in `second`.   *)
(***************************************************************************)
EXTENDS FiniteSets, Naturals

CONSTANTS
  Targets,      \* the (node, sample, variant) targets of the frozen document
  Above,        \* a target's ancestors
  Owner,        \* the process that runs the pipeline
  Cancels,      \* `cancel_recorded_pipeline` calls
  Recoveries,   \* the recovery threads of canvas servers
  Nobody,       \* no holder of the lock
  Disturbances  \* what else happens: "ownerStops", "unrecorded",
                \* "engineRaises", "closerStops", "ownerRaises",
                \* "closerRaises"

Closers == Cancels \cup Recoveries
Actors  == Closers \cup {Owner}

ASSUME PipelineAssumption ==
  /\ Targets # {} /\ IsFiniteSet(Targets)
  /\ Above \in [Targets -> SUBSET Targets]
  /\ Cancels \cap Recoveries = {} /\ Owner \notin Closers
  /\ Nobody \notin Actors
  /\ Disturbances \subseteq
       {"ownerStops", "unrecorded", "engineRaises", "closerStops",
        "ownerRaises", "closerRaises"}

VARIABLES
  record,   \* the pipeline record: whether it is there, its cancel flag,
            \* whether it names the engine
  row,      \* the status of a target's run row, "none" before it has one
  reason,   \* the cancel_reason of a cancelled row
  refused,  \* the targets whose claim left a refusal sidecar
  engine,   \* the engine: "none", "running", "ok" or "bad" (its exit)
  step,     \* the step process of a target
  pc,       \* where an actor is
  user,     \* an actor's was_cancelled, or the close-out's `user`
  cause,    \* the no_cause_reason of its walk
  known,    \* what its walk read: the targets with a row and the failed ones
  picked,   \* the rows cancel_pipeline read as running
  counted,  \* the store read the record as there: it counts pending targets
  after,    \* where an actor goes on after it stored the outcome
  seen,     \* the record as a cancel read it under the lock
  lock,     \* the holder of the close-out lock
  stored,   \* the status of the pipeline_runs row
  \* history, read by properties only
  second,   \* the targets that got a second row
  killed,   \* a cancel killed the engine
  cut       \* the actors one of whose ending steps raised

index  == <<row, reason, second>>
world  == <<refused, engine, step, killed>>
locals == <<user, cause, known, picked, counted, after, seen>>
vars   == <<record, index, world, pc, locals, lock, stored, cut>>

Status  == {"none", "running", "completed", "failed", "cancelled"}
Records == [there : BOOLEAN, cancel : BOOLEAN, engine : BOOLEAN]
Reasons == {"none", "user", "upstream_failed", "not_run", "engine_failed",
            "interrupted"}
Labels  == {"launch", "recordEngine", "wait", "flip", "judge",
            "walk", "refusals", "cancelled", "remove", "store", "write",
            "ended", "announce", "look", "kill", "pick", "cancel", "ask",
            "closeRead", "unlock", "done", "watch", "close", "lock", "dead"}

\* Every variable keeps its type.
TypeOK ==
  /\ record \in Records
  /\ row \in [Targets -> Status]
  /\ reason \in [Targets -> Reasons]
  /\ refused \subseteq Targets
  /\ engine \in {"none", "running", "ok", "bad"}
  /\ step \in [Targets -> {"none", "claiming", "computing", "passed", "ended"}]
  /\ pc \in [Actors -> Labels]
  /\ user \in [Actors -> BOOLEAN]
  /\ cause \in [Actors -> Reasons]
  /\ known \in [Actors -> [present : SUBSET Targets, failed : SUBSET Targets]]
  /\ picked \in [Actors -> SUBSET Targets]
  /\ counted \in [Actors -> BOOLEAN]
  /\ after \in [Actors -> Labels]
  /\ seen \in [Actors -> Records]
  /\ lock \in Closers \cup {Nobody}
  /\ stored \in {"running", "succeeded", "failed", "cancelled", "mixed"}
  /\ second \subseteq Targets
  /\ killed \in BOOLEAN
  /\ cut \subseteq Actors

-----------------------------------------------------------------------------
(* Helper state formulae.                                                  *)

With(st)  == {t \in Targets : row[t] = st}
Present   == Targets \ With("none")
Alive(a)  == pc[a] # "dead"
CancelRequested == record.there /\ record.cancel
StepsLive == \E t \in Targets : step[t] \in {"claiming", "computing"}

\* Nothing to cancel, or to close out: no record and no running row.
Nothing == ~record.there /\ With("running") = {}

\* `pipeline_status` over the rows and the pending targets.
PipelineStatus(pending) ==
  LET cancelled  == With("cancelled")
      engineSide == {t \in cancelled :
                       reason[t] \in {"interrupted", "engine_failed"}}
  IN  CASE With("running") # {} \/ pending -> "running"
        [] With("failed") = {} /\ cancelled = {} -> "succeeded"
        [] With("completed") # {} -> "mixed"
        [] With("failed") # {} \/ engineSide # {} -> "failed"
        [] OTHER -> "cancelled"

Goto(a, from, to) == pc[a] = from /\ pc' = [pc EXCEPT ![a] = to]

\* Insert a row for each target of T; a target that has one gets a second.
InsertRows(T, st, why) ==
  /\ row' = [t \in Targets |-> IF t \in T \ Present THEN st ELSE row[t]]
  /\ reason' = [t \in Targets |-> IF t \in T \ Present THEN why[t]
                                                       ELSE reason[t]]
  /\ second' = second \cup (T \cap Present)

NoReason == [t \in Targets |-> "none"]

\* A call's local variables go with it.
NewRecord   == [there |-> TRUE, cancel |-> FALSE, engine |-> FALSE]
NothingRead == [present |-> {}, failed |-> {}]

Forget(c) ==
  /\ user' = [user EXCEPT ![c] = FALSE]
  /\ known' = [known EXCEPT ![c] = NothingRead]
  /\ picked' = [picked EXCEPT ![c] = {}]
  /\ counted' = [counted EXCEPT ![c] = FALSE]
  /\ after' = [after EXCEPT ![c] = "ended"]
  /\ seen' = [seen EXCEPT ![c] = NewRecord]

-----------------------------------------------------------------------------
(* Bugs the code might have had, each an operator below with one slip.     *)

\* The probe reads its caller's flag only, not the record's.
ProbeCancelInMemory ==
  /\ engine \in {"ok", "bad"}
  /\ Goto(Owner, "wait", IF engine = "ok" THEN "walk" ELSE "flip")
  /\ UNCHANGED <<record, index, world, locals, lock, stored, cut>>

\* A cancelled pipeline's running rows are flipped like a failed one's.
ProbeCancelFlips ==
  /\ engine \in {"ok", "bad"}
  /\ Goto(Owner, "wait", IF engine = "ok" THEN "walk" ELSE "flip")
  /\ user' = [user EXCEPT ![Owner] = CancelRequested]
  /\ UNCHANGED <<record, index, world, cause, known, picked, counted, after,
                 seen, lock, stored, cut>>

\* The owner of a failed engine looks for a failure and flips nothing first.
ProbeCancelUnflipped ==
  /\ engine \in {"ok", "bad"}
  /\ Goto(Owner, "wait",
          IF engine = "ok" \/ CancelRequested THEN "walk" ELSE "judge")
  /\ user' = [user EXCEPT ![Owner] = CancelRequested]
  /\ UNCHANGED <<record, index, world, cause, known, picked, counted, after,
                 seen, lock, stored, cut>>

\* The record phase writes the row whatever another hand made of it.
EndStepBlind(t) ==
  /\ step[t] = "computing"
  /\ \/ /\ \E st \in {"passed", "ended"} : step' = [step EXCEPT ![t] = st]
        /\ row' = [row EXCEPT ![t] = "completed"]
     \/ /\ step' = [step EXCEPT ![t] = "ended"]
        /\ row' \in {row, [row EXCEPT ![t] = "failed"]}
  /\ UNCHANGED <<record, reason, second, refused, engine, killed, pc, locals,
                 lock, stored, cut>>

\* The close-out does not wait for another process's.
TakeLockAnyway(c) ==
  /\ lock' = c
  /\ Goto(c, "lock", "look") \/ Goto(c, "close", "closeRead")
  /\ UNCHANGED <<record, index, world, locals, stored, cut>>

\* Removing the record stores nothing afterwards.
RemoveRecordUnstored(a) ==
  /\ Goto(a, "remove", IF a = Owner THEN "ended" ELSE "unlock")
  /\ record' = [record EXCEPT !.there = FALSE]
  /\ UNCHANGED <<index, world, locals, lock, stored, cut>>

\* An interrupted owner removes the record like any other ending.
OwnerStopsCleanly ==
  /\ Alive(Owner)
  /\ pc[Owner] = "ended" \/ "ownerStops" \in Disturbances
  /\ pc' = [pc EXCEPT ![Owner] = "dead"]
  /\ record' = [record EXCEPT !.there = FALSE]
  /\ UNCHANGED <<index, world, locals, lock, stored, cut>>

\* Nobody takes over the lock of a closer that stopped.
CloserStopsLocked(c) ==
  /\ "closerStops" \in Disturbances
  /\ pc[c] \notin {"announce", "done", "dead"}
  /\ pc' = [pc EXCEPT ![c] = "dead"]
  /\ UNCHANGED <<record, index, world, locals, lock, stored, cut>>

-----------------------------------------------------------------------------
(* The engine and its steps.                                               *)

\* Right after the launch: the record is written, no engine is started.
Init ==
  /\ record = NewRecord
  /\ row = NoReason /\ reason = NoReason
  /\ refused = {}
  /\ engine = "none"
  /\ step = NoReason
  /\ pc = [a \in Actors |-> IF a = Owner THEN "launch"
                            ELSE IF a \in Cancels THEN "announce" ELSE "watch"]
  /\ user = [a \in Actors |-> FALSE]
  /\ cause = [a \in Actors |-> IF a = Owner THEN "not_run" ELSE "interrupted"]
  /\ known = [a \in Actors |-> NothingRead]
  /\ picked = [a \in Actors |-> {}]
  /\ counted = [a \in Actors |-> FALSE]
  /\ after = [a \in Actors |-> "ended"]
  /\ seen = [a \in Actors |-> record]
  /\ lock = Nobody
  /\ stored = "running"
  /\ second = {} /\ killed = FALSE /\ cut = {}

\* The engine starts a step once the step processes above it exited with 0.
StartStep(t) ==
  /\ engine = "running" /\ step[t] = "none"
  /\ \A u \in Above[t] : step[u] = "passed"
  /\ step' = [step EXCEPT ![t] = "claiming"]
  /\ UNCHANGED <<record, index, refused, engine, killed, pc, locals, lock,
                 stored, cut>>

\* A claim inserts an audit row of a result or a running row.
ClaimRow(t, st) ==
  /\ step[t] = "claiming"
  /\ InsertRows({t}, st, NoReason)
  /\ step' = [step EXCEPT ![t] = IF st = "running" THEN "computing"
                                                   ELSE "passed"]
  /\ UNCHANGED <<record, refused, engine, killed, pc, locals, lock, stored,
                 cut>>

\* A claim refuses and leaves its sidecar, or raises and leaves nothing.
ClaimFails(t) ==
  /\ step[t] = "claiming"
  /\ step' = [step EXCEPT ![t] = "ended"]
  /\ refused' \in {refused, refused \cup {t}}
  /\ UNCHANGED <<record, index, engine, killed, pc, locals, lock, stored, cut>>

\* The record phase: a compare-and-set on the running row; a step whose row
\* was ended by another hand fails.  A step that is killed alone, or whose
\* best-effort flip to failed raises, leaves its running row.
EndStep(t) ==
  /\ step[t] = "computing"
  /\ \/ /\ row[t] = "running"
        /\ row' = [row EXCEPT ![t] = "completed"]
        /\ \E st \in {"passed", "ended"} : step' = [step EXCEPT ![t] = st]
     \/ /\ step' = [step EXCEPT ![t] = "ended"]
        /\ \/ row[t] = "running" /\ row' = [row EXCEPT ![t] = "failed"]
           \/ UNCHANGED row
  /\ UNCHANGED <<record, reason, second, refused, engine, killed, pc, locals,
                 lock, stored, cut>>

\* The engine exits once its steps have ended: with 0 when all passed.
EngineEnds ==
  /\ engine = "running" /\ ~StepsLive
  /\ \/ (\A t \in Targets : step[t] = "passed") /\ engine' = "ok"
     \/ engine' = "bad"
  /\ UNCHANGED <<record, index, refused, step, killed, pc, locals, lock,
                 stored, cut>>

-----------------------------------------------------------------------------
(* store_pipeline_outcome: whether there is a record, then the rows.       *)

ReadRecorded(a) ==
  /\ Goto(a, "store", "write")
  /\ counted' = [counted EXCEPT ![a] = record.there]
  /\ UNCHANGED <<record, index, world, user, cause, known, picked, after, seen,
                 lock, stored, cut>>

StoreOutcome(a) ==
  /\ Goto(a, "write", after[a])
  /\ stored' = PipelineStatus(
       /\ counted[a]
       /\ Cardinality(Present) + Cardinality(second) < Cardinality(Targets))
  /\ counted' = [counted EXCEPT ![a] = FALSE]
  /\ UNCHANGED <<record, index, world, user, cause, known, picked, after, seen,
                 lock, cut>>

-----------------------------------------------------------------------------
(* What the endings call: fail_pipeline, cancel_pipeline and the walk.     *)

\* fail_pipeline: a compare-and-set in one write transaction, then the store.
FailRows(a) ==
  /\ Goto(a, "flip", "store")
  /\ row' = [t \in Targets |-> IF row[t] = "running" THEN "failed" ELSE row[t]]
  /\ after' = [after EXCEPT ![a] = IF a = Owner THEN "judge" ELSE "walk"]
  /\ UNCHANGED <<record, reason, second, world, user, cause, known, picked,
                 counted, seen, lock, stored, cut>>

\* cancel_pipeline reads the running rows, writes them by primary key later,
\* and stores the outcome.
PickRunning(a) ==
  /\ Goto(a, "pick", "cancel")
  /\ picked' = [picked EXCEPT ![a] = With("running")]
  /\ UNCHANGED <<record, index, world, user, cause, known, counted, after,
                 seen, lock, stored, cut>>

WriteCancelled(a) ==
  /\ Goto(a, "cancel", "store")
  /\ row' = [t \in Targets |-> IF t \in picked[a] THEN "cancelled" ELSE row[t]]
  /\ reason' = [t \in Targets |-> IF t \in picked[a] THEN "user"
                                                     ELSE reason[t]]
  /\ picked' = [picked EXCEPT ![a] = {}]
  /\ UNCHANGED <<record, second, world, user, cause, known, counted, after,
                 seen, lock, stored, cut>>

\* _write_cancelled_rows compares the targets with the rows, ...
WalkRead(a) ==
  /\ Goto(a, "walk", "refusals")
  /\ known' = [known EXCEPT ![a] =
                 [present |-> Present, failed |-> With("failed")]]
  /\ UNCHANGED <<record, index, world, user, cause, picked, counted, after,
                 seen, lock, stored, cut>>

\* ... records each refused target without a row as failed, one by one, ...
WalkRefusals(a) ==
  /\ \/ /\ refused \subseteq known[a].present
        /\ Goto(a, "refusals", "cancelled")
        /\ UNCHANGED <<index, known>>
     \/ \E t \in refused \ known[a].present :
          /\ Goto(a, "refusals", "refusals")
          /\ InsertRows({t}, "failed", NoReason)
          /\ known' = [known EXCEPT ![a] = [present |-> @.present \cup {t},
                                            failed |-> @.failed \cup {t}]]
  /\ UNCHANGED <<record, world, user, cause, picked, counted, after, seen, lock,
                 stored, cut>>

\* ... and writes a cancelled row, with its reason, for every other target.
Why(a) == [t \in Targets |->
             IF user[a] THEN "user"
             ELSE IF Above[t] \cap known[a].failed # {} THEN "upstream_failed"
             ELSE cause[a]]

WalkCancelled(a) ==
  /\ Goto(a, "cancelled", IF a = Owner THEN "store" ELSE "remove")
  /\ InsertRows(Targets \ known[a].present, "cancelled", Why(a))
  /\ after' = [after EXCEPT ![a] = "remove"]
  /\ known' = [known EXCEPT ![a] = NothingRead]
  /\ UNCHANGED <<record, world, user, cause, picked, counted, seen, lock,
                 stored, cut>>

\* The record goes, then the outcome is stored again.
RemoveRecord(a) ==
  /\ Goto(a, "remove", "store")
  /\ record' = [record EXCEPT !.there = FALSE]
  /\ after' = [after EXCEPT ![a] = IF a = Owner THEN "ended" ELSE "unlock"]
  /\ UNCHANGED <<index, world, user, cause, known, picked, counted, seen, lock,
                 stored, cut>>

-----------------------------------------------------------------------------
(* The owner: run_pipeline, finish_failed and finish_succeeded.            *)

StartEngine ==
  /\ Goto(Owner, "launch", "recordEngine")
  /\ engine' = "running"
  /\ UNCHANGED <<record, index, refused, step, killed, locals, lock, stored,
                 cut>>

\* The engine could not be started: run_pipeline removes the record and
\* stores the outcome on its way out.
EngineRaises ==
  /\ "engineRaises" \in Disturbances
  /\ Goto(Owner, "launch", "remove")
  /\ UNCHANGED <<record, index, world, locals, lock, stored, cut>>

RecordEngine ==
  /\ Goto(Owner, "recordEngine", "wait")
  /\ record' = [record EXCEPT !.engine = record.there]
  /\ UNCHANGED <<index, world, locals, lock, stored, cut>>

\* The cancel probe is asked once; a success walks at once, a failure that
\* was not cancelled flips the running rows first.
ProbeCancel ==
  /\ engine \in {"ok", "bad"}
  /\ Goto(Owner, "wait",
          IF engine = "ok" \/ CancelRequested THEN "walk" ELSE "flip")
  /\ user' = [user EXCEPT ![Owner] = CancelRequested]
  /\ UNCHANGED <<record, index, world, cause, known, picked, counted, after,
                 seen, lock, stored, cut>>

\* _pipeline_has_failure: a failed row or a claim refusal; with neither the
\* engine itself failed.
HasFailure == With("failed") # {} \/ refused # {}

JudgeFailure ==
  /\ Goto(Owner, "judge", "walk")
  /\ cause' = [cause EXCEPT ![Owner] = IF HasFailure THEN "not_run"
                                                     ELSE "engine_failed"]
  /\ UNCHANGED <<record, index, world, user, known, picked, counted, after,
                 seen, lock, stored, cut>>

\* Everybody who may end the pipeline in its owner's place knows the engine:
\* it is in the record, and was when a cancel at work read it.
EngineKnown ==
  engine = "running" =>
    /\ record.engine
    /\ \A c \in Cancels : lock = c /\ pc[c] # "look" => seen[c].engine

\* The owner is killed, or interrupted; its engine runs on.
OwnerStops ==
  /\ Alive(Owner)
  /\ \/ pc[Owner] = "ended"
     \/ "ownerStops" \in Disturbances /\ EngineKnown
     \/ "unrecorded" \in Disturbances
  /\ pc' = [pc EXCEPT ![Owner] = "dead"]
  /\ UNCHANGED <<record, index, world, locals, lock, stored, cut>>

-----------------------------------------------------------------------------
(* A cancel and a recovery: cancel_recorded_pipeline, close_out_pipeline.  *)

\* request_cancel flags the record before the cancel waits for the lock.
Announce(c) ==
  /\ c \in Cancels
  /\ Goto(c, "announce", "lock")
  /\ record' = [record EXCEPT !.cancel = @ \/ record.there]
  /\ UNCHANGED <<index, world, locals, lock, stored, cut>>

TakeLock(c) ==
  /\ lock = Nobody /\ lock' = c
  /\ Goto(c, "lock", "look") \/ Goto(c, "close", "closeRead")
  /\ UNCHANGED <<record, index, world, locals, stored, cut>>

\* The cancel reads the pipeline again; a pipeline that ended while it waited
\* is left as it ended.
CancelLook(c) ==
  /\ Goto(c, "look", IF Nothing THEN "unlock" ELSE "kill")
  /\ record' = [record EXCEPT !.cancel = @ \/ record.there]
  /\ seen' = [seen EXCEPT ![c] = record']
  /\ UNCHANGED <<index, world, user, cause, known, picked, counted, after,
                 lock, stored, cut>>

\* kill_process_tree ends the engine it finds recorded, and its steps.
KillEngine(c) ==
  /\ Goto(c, "kill", "pick")
  /\ IF seen[c].there /\ seen[c].engine /\ engine = "running"
     THEN /\ engine' = "bad" /\ killed' = TRUE
          /\ step' = [t \in Targets |->
                        IF step[t] \in {"claiming", "computing"} THEN "ended"
                        ELSE step[t]]
     ELSE UNCHANGED <<engine, killed, step>>
  /\ after' = [after EXCEPT ![c] = "ask"]
  /\ UNCHANGED <<record, index, refused, user, cause, known, picked, counted,
                 seen, lock, stored, cut>>

\* A living owner walks itself; without one the cancel closes out.
AskOwner(c) ==
  /\ \/ /\ seen[c].there /\ Alive(Owner)
        /\ Goto(c, "ask", "unlock") /\ UNCHANGED user
     \/ /\ ~(seen[c].there /\ Alive(Owner))
        /\ Goto(c, "ask", "closeRead") /\ user' = [user EXCEPT ![c] = TRUE]
  /\ UNCHANGED <<record, index, world, cause, known, picked, counted, after,
                 seen, lock, stored, cut>>

\* assess_pipeline: neither the recorded owner nor the recorded engine lives,
\* and no heartbeat moves.
JudgeDead(r) ==
  /\ r \in Recoveries
  /\ ~Nothing
  /\ record.there => /\ ~Alive(Owner)
                     /\ ~(record.engine /\ engine = "running")
  /\ \A t \in Targets : ~(step[t] = "computing" /\ row[t] = "running")
  /\ Goto(r, "watch", "close")
  /\ UNCHANGED <<record, index, world, locals, lock, stored, cut>>

\* close_out_pipeline reads the cancel flag under the lock, then ends the
\* running rows: cancelled for the user, or failed as interrupted.
CloseRead(c) ==
  LET forUser == user[c] \/ CancelRequested
  IN  /\ Goto(c, "closeRead", IF Nothing THEN "unlock"
                              ELSE IF forUser THEN "pick" ELSE "flip")
      /\ user' = [user EXCEPT ![c] = forUser]
      /\ after' = [after EXCEPT ![c] = "walk"]
      /\ UNCHANGED <<record, index, world, cause, known, picked, counted, seen,
                     lock, stored, cut>>

ReleaseLock(c) ==
  /\ Goto(c, "unlock", IF c \in Cancels THEN "done" ELSE "watch")
  /\ lock' = Nobody
  /\ Forget(c)
  /\ UNCHANGED <<record, index, world, cause, stored, cut>>

\* A closer is killed; the lock it held is taken over (module LockFile).
CloserStops(c) ==
  /\ "closerStops" \in Disturbances
  /\ pc[c] \notin {"announce", "done", "dead"}
  /\ pc' = [pc EXCEPT ![c] = "dead"]
  /\ lock' = IF lock = c THEN Nobody ELSE lock
  /\ Forget(c)
  /\ UNCHANGED <<record, index, world, cause, stored, cut>>

-----------------------------------------------------------------------------
(* An ending step that raises.  What it wrote by then stays; a write of its *)
(* own transaction is undone.                                              *)

\* finish_failed prints what fail_pipeline raises, and both endings print what
\* the walk raises, and go on; run_pipeline removes the record all the same,
\* and stores the outcome also when the removal raised.
OwnerEndingRaises ==
  /\ "ownerRaises" \in Disturbances
  /\ \/ Goto(Owner, "flip", "judge") /\ UNCHANGED after
     \/ /\ \E at \in {"judge", "walk", "refusals", "cancelled"} :
             Goto(Owner, at, "store")
        /\ after' = [after EXCEPT ![Owner] = "remove"]
     \/ /\ Goto(Owner, "remove", "store")
        /\ after' = [after EXCEPT ![Owner] = "ended"]
  /\ cut' = cut \cup {Owner}
  /\ known' = [known EXCEPT ![Owner] = NothingRead]
  /\ UNCHANGED <<record, index, world, user, cause, picked, counted, seen, lock,
                 stored>>

\* A close-out's, or a cancel's, raises past the lock; the record stays, and a
\* recovery may come back.
CloserEndingRaises(c) ==
  /\ "closerRaises" \in Disturbances
  /\ \E at \in {"flip", "pick", "cancel", "walk", "refusals", "cancelled",
                 "remove"} : Goto(c, at, "unlock")
  /\ cut' = cut \cup {c}
  /\ UNCHANGED <<record, index, world, locals, lock, stored>>

\* The store is best-effort, or the last step.
StoreRaises(a) ==
  /\ IF a = Owner THEN "ownerRaises" \in Disturbances
                   ELSE "closerRaises" \in Disturbances
  /\ Goto(a, "store", after[a]) \/ Goto(a, "write", after[a])
  /\ cut' = cut \cup {a}
  /\ counted' = [counted EXCEPT ![a] = FALSE]
  /\ UNCHANGED <<record, index, world, user, cause, known, picked, after, seen,
                 lock, stored>>

EndingRaises ==
  \/ OwnerEndingRaises
  \/ \E c \in Closers : CloserEndingRaises(c)
  \/ \E a \in Actors : StoreRaises(a)

-----------------------------------------------------------------------------
(* The specification.                                                      *)

Engine(t) ==
  \/ ClaimRow(t, "completed") \/ ClaimRow(t, "running")
  \/ ClaimFails(t) \/ EndStep(t)

End(a) ==
  \/ ReadRecorded(a) \/ StoreOutcome(a)
  \/ FailRows(a) \/ PickRunning(a) \/ WriteCancelled(a)
  \/ WalkRead(a) \/ WalkRefusals(a) \/ WalkCancelled(a) \/ RemoveRecord(a)

Own == StartEngine \/ RecordEngine \/ ProbeCancel \/ JudgeFailure

Close(c) ==
  \/ TakeLock(c) \/ CancelLook(c) \/ KillEngine(c) \/ AskOwner(c)
  \/ JudgeDead(c) \/ CloseRead(c) \/ ReleaseLock(c)

Next ==
  \/ \E t \in Targets : StartStep(t) \/ Engine(t)
  \/ EngineEnds
  \/ \E a \in Actors : End(a)
  \/ Own \/ EngineRaises \/ OwnerStops
  \/ \E c \in Closers : Close(c) \/ Announce(c) \/ CloserStops(c)
  \/ EndingRaises

Spec == Init /\ [][Next]_vars

\* Every living process is scheduled, steps end and the engine exits.  A
\* cancel need not come, and nothing need stop; what makes an ending step
\* raise does not last for ever.
FairSpec ==
  /\ Spec
  /\ \A t \in Targets : WF_vars(Engine(t))
  /\ WF_vars(EngineEnds)
  /\ WF_vars(Own)
  /\ \A a \in Actors : WF_vars(End(a))
  /\ \A c \in Closers : WF_vars(Close(c))
  /\ <>[][~EndingRaises]_vars

-----------------------------------------------------------------------------
(* Properties.                                                             *)

\* Never two walks that do not know of each other: the owner's, a cancel's
\* and any recovery's ends give a target one row between them, and a step
\* claims none for a target that was written off.
OneRowEach == second = {}

\* The rows a target has.
RowCount ==
  [t \in Targets |-> IF t \in second THEN 2 ELSE IF row[t] = "none" THEN 0 ELSE 1]

\* What the ends of a pipeline promise of its targets.
Settles == INSTANCE SettledOnce WITH
  registered <- record.there, rows <- RowCount, status <- row,
  givenUp <- Owner \in cut

\* The ends of a pipeline, many at once, are one: every target gets one row while
\* the record is there, whoever writes it; a row that has its outcome keeps it, but
\* for a user's cancel that read it as running; and the record goes when every
\* target has its row, or when a step of the owner's ending raised, which it
\* prints (lifecycle.py, _write_cancelled_rows, and the compare-and-sets of
\* fail_pipeline and of the record phase; pipeline.py, run_pipeline).
SettlesOnce == Settles!Spec

\* The record goes last: once it is gone every target has its row, whoever
\* removed it, whoever stopped on the way and whichever close-out raised.  Only
\* an owner's ending that raised removes it without.
RecordGoesLast == ~record.there => Present = Targets \/ Owner \in cut

\* Once nobody is at work on an ended pipeline its stored status is the one
\* its rows give, although many stored it, each from an earlier look, and
\* whether its owner died on the way or not.  A closer that dies after it
\* removed the record leaves the status it found, as does a store that raises.
StoredIsFinal ==
  /\ ~record.there /\ cut = {}
  /\ pc[Owner] \in {"ended", "dead"}
  /\ \A c \in Closers : pc[c] \in {"announce", "watch", "done"}
  => stored = PipelineStatus(FALSE)

\* A cancel that killed the engine is the reason of every target that did
\* not run: no ending after the kill reads a failure of its own making, unless
\* the owner's raised and left its targets to a recovery.
KilledReadsUser ==
  killed /\ Owner \notin cut =>
    \A t \in With("cancelled") : reason[t] = "user"

\* After the kill no running row fails while its cancel lives, and does not
\* raise: the endings leave it to the cancel.
KillFailsNothing ==
  [][killed /\ (\A c \in Cancels : Alive(c) /\ c \notin cut) =>
       \A t \in With("running") : row'[t] # "failed"]_vars

\* The engine is blamed only when no step is: the rows that steps left running
\* are flipped before the owner looks for a failure, and a refusal counts as
\* one.  An owner whose flip raised may blame it all the same.
BlamesEngineAlone ==
  Owner \notin cut /\ (\E t \in Targets : reason[t] = "engine_failed") =>
    With("failed") = {} /\ refused = {}

\* A pipeline whose owner dies, at any point, is closed out in the end,
\* while a recovery runs, also when endings raise; an owner that ended but
\* could not remove the record keeps it while its process lives.
EveryPipelineEnds ==
  record.there ~> \/ ~record.there
                  \/ \A r \in Recoveries : ~Alive(r)
                  \/ Owner \in cut /\ pc[Owner] = "ended"

-----------------------------------------------------------------------------
(* Where the actors are, whatever goes wrong.                              *)

\* The engine has ended, or will not be started: no step claims any more.
Over == engine # "running" /\ pc[Owner] # "launch"

\* A closer that takes over the end of the pipeline, from the verdict or from
\* a cancel's asking for the owner on.
Closing(c) ==
  \/ pc[c] \in {"close", "closeRead", "flip", "walk", "refusals", "cancelled",
               "remove"}
  \/ pc[c] \in {"pick", "cancel", "store", "write"} /\ after[c] # "ask"

\* A cancel that has looked at the record, up to its asking for the owner.
Cancelling(c) ==
  /\ pc[c] \in {"kill", "pick", "cancel", "store", "write", "ask"}
  /\ ~Closing(c)

\* An actor past its walk.
Finished(a) ==
  \/ pc[a] = "remove"
  \/ pc[a] \in {"store", "write"} /\ after[a] \in {"remove", "unlock"}

\* Where a closer does not hold the lock.
Outside == {"announce", "lock", "watch", "close", "done", "dead"}

\* The owner walks once its engine has ended, and removes the record last.
OwnerPlaced ==
  /\ pc[Owner] \in {"launch", "recordEngine", "wait", "flip", "judge", "walk",
                    "refusals", "cancelled", "remove", "store", "write",
                    "ended", "dead"}
  /\ pc[Owner] = "launch" =>
       engine = "none" /\ ~record.engine /\ \A c \in Closers : ~seen[c].engine
  /\ pc[Owner] \in {"launch", "recordEngine", "wait"} => record.there
  /\ pc[Owner] \notin {"launch", "recordEngine", "wait", "dead"} =>
       engine # "running"
  /\ Alive(Owner) /\ ~record.there =>
       \/ pc[Owner] = "ended"
       \/ pc[Owner] \in {"store", "write"} /\ after[Owner] = "ended"
  /\ pc[Owner] \in {"store", "write"} =>
       after[Owner] \in {"judge", "remove", "ended"}

\* A closer at work has the lock; one that closes out does so after the owner.
CloserPlaced ==
  \A c \in Closers :
    /\ pc[c] \notin {"launch", "recordEngine", "wait", "judge", "ended"}
    /\ pc[c] \in {"lock", "look"} => c \in Cancels
    /\ lock = c <=> pc[c] \notin Outside
    /\ pc[c] \in {"pick", "cancel", "store", "write"} =>
         after[c] \in {"ask", "walk", "unlock"}
    /\ pc[c] \in {"pick", "cancel"} => after[c] # "unlock"
    /\ Closing(c) /\ record.there => ~Alive(Owner)
    /\ Cancelling(c) => c \in Cancels /\ (~seen[c].there => ~record.there)

\* A record goes after a walk, and a walk leaves no target without a row; an
\* engine that could not be started is an exception, an owner's ending that
\* raised the other.
RowsFirst ==
  /\ \A a \in Actors :
       /\ picked[a] \subseteq Present
       /\ pc[a] \in {"refusals", "cancelled"} => known[a].present \subseteq Present
  /\ engine # "none" \/ "engineRaises" \notin Disturbances =>
       /\ RecordGoesLast
       /\ \A a \in Actors : Finished(a) =>
            Present = Targets \/ (a = Owner /\ Owner \in cut)

PlacesInv ==
  /\ TypeOK
  /\ OwnerPlaced
  /\ CloserPlaced
  /\ RowsFirst
  /\ StepsLive => engine = "running"

-----------------------------------------------------------------------------
(* What OneRowEach rests on, of owners whose engine is in the record when  *)
(* they die.                                                               *)

\* A step that has not claimed has no row.
FreshSteps ==
  \A t \in Targets :
    step[t] \in {"none", "claiming"} /\ ~Over => row[t] = "none"

\* Who may end the pipeline in a dead owner's place knows the engine, or has
\* killed it; it closes out when the engine has ended.
EngineFound ==
  /\ engine = "running" => record.there
  /\ engine = "running" /\ ~Alive(Owner) => EngineKnown
  /\ \A c \in Closers :
       /\ Closing(c) => Over
       /\ Cancelling(c) /\ pc[c] # "kill" /\ seen[c].there /\ seen[c].engine
            => Over
  /\ ~record.there => Over

\* Whoever walks knows every row.
RowsKnown ==
  \A a \in Actors :
    pc[a] \in {"refusals", "cancelled"} => known[a].present = Present

\* The inductive invariant of a pipeline's end, its conjuncts above.
EndInv ==
  /\ PlacesInv
  /\ FreshSteps
  /\ EngineFound
  /\ RowsKnown
  /\ OneRowEach

-----------------------------------------------------------------------------
(* What SettlesOnce rests on besides: an engine that could not be started  *)
(* leaves no row at all, and nobody writes one afterwards.                 *)

NeverStarted ==
  /\ \A c \in Closers : Finished(c) => Present = Targets
  /\ engine = "none" /\ Alive(Owner) =>
       /\ Present = {}
       /\ \/ pc[Owner] \in {"launch", "remove", "ended"}
          \/ pc[Owner] \in {"store", "write"} /\ after[Owner] = "ended"
  /\ ~record.there =>
       \/ Present = Targets
       \/ Owner \in cut /\ engine # "none"
       \/ Present = {} /\ \A c \in Closers : Closing(c) => pc[c] = "closeRead"

-----------------------------------------------------------------------------
(* What the stored status, the reasons and a cancel rest on.               *)

\* The owner stored the status before it removes the record; whoever changes a
\* row later has still to store it, or died.
StatusKept ==
  cut = {} /\ (~record.there \/ pc[Owner] = "remove") =>
    \/ stored = PipelineStatus(FALSE)
    \/ \E c \in Closers : pc[c] \in {"store", "write", "dead"}

\* The owner has flipped the running rows and will look for a failure.
Judging ==
  \/ pc[Owner] = "judge"
  \/ pc[Owner] \in {"store", "write"} /\ after[Owner] = "judge"

\* The engine is blamed, or will be.
Blamed ==
  \/ cause[Owner] = "engine_failed"
  \/ \E t \in Targets : reason[t] = "engine_failed"

\* The owner looks when no row can run or fail any more.
BlameInv ==
  /\ \A c \in Closers : cause[c] # "engine_failed"
  /\ Owner \notin cut =>
       /\ Judging => With("running") = {}
       /\ Blamed => /\ Over /\ refused = {}
                    /\ With("failed") = {} /\ With("running") = {}

\* An actor that will walk, or walks.
Ends(a) ==
  \/ pc[a] \in {"flip", "judge", "walk", "refusals", "cancelled"}
  \/ pc[a] \in {"pick", "cancel", "store", "write"} /\ after[a] \in {"judge", "walk"}

\* A cancel may still find the engine.
Killable ==
  engine = "running" /\ record.there /\ (record.engine \/ Alive(Owner))

\* A cancel about to kill has flagged the record, and what it saw there is so.
LooksTrue ==
  \A c \in Closers : pc[c] = "kill" /\ seen[c].there =>
    /\ record.cancel
    /\ seen[c].engine /\ engine = "running" => record.there /\ record.engine

\* While an engine can be killed nobody closes out but for the user.
ClosesForUser ==
  Killable => \A c \in Closers : Closing(c) => user[c] /\ pc[c] # "close"

\* Till then, and once it was killed, a row is cancelled for the user only.
CancelledForUser ==
  Owner \notin cut /\ (Killable \/ killed \/ pc[Owner] = "launch") =>
    \A t \in With("cancelled") : reason[t] = "user"

\* After the kill, whoever walks does so for the user, or has nothing to write.
WalksForUser ==
  killed =>
    /\ Over /\ engine # "none" /\ record.cancel
    /\ pc[Owner] # "flip" /\ ~Judging
    /\ \A a \in Actors : Ends(a) /\ Owner \notin cut =>
         \/ user[a]
         \/ ~record.there /\ (pc[a] \in {"refusals", "cancelled"}
                                => known[a].present = Targets)

\* The rows that ran at the kill are the cancel's that killed, if it lives.
RowsLeft ==
  killed /\ (\A c \in Cancels : Alive(c) /\ c \notin cut) =>
    \/ With("running") = {}
    \/ \E c \in Cancels : /\ after[c] = "ask"
                          /\ \/ pc[c] = "pick"
                             \/ pc[c] = "cancel" /\ With("running") \subseteq picked[c]

KillInv ==
  LooksTrue /\ ClosesForUser /\ CancelledForUser /\ WalksForUser /\ RowsLeft
=============================================================================
