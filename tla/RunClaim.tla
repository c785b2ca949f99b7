------------------------------ MODULE RunClaim ------------------------------
(***************************************************************************)
(* The claim protocol of wfc.execution: step processes that want the same  *)
(* result (one method, sample and cache key) meet in the project database. *)
(* At most one of them computes it; the others wait on its heartbeat,      *)
(* reuse its result, or take its claim over when the heartbeat stands      *)
(* still.  The record phase ends a run by a compare-and-set, and a         *)
(* pipeline's end or a user's cancel ends it from outside.                 *)
(*                                                                         *)
(* A step is one `run_step` process.  A run row is named by its id, and    *)
(* rows are inserted with increasing ids.                                  *)
(***************************************************************************)
EXTENDS Integers, FiniteSets

CONSTANTS
  Steps,        \* the step processes, one `run_step` call each
  Keys,         \* (method, sample, cache key) triples
  KeyOf,        \* the key a step claims
  Cancels,      \* `cancel_pipeline` calls
  MaxRuns,      \* bound: run rows the database may hold
  MaxBeat,      \* bound: the largest heartbeat a row reaches
  RefusalLimit  \* refusals without a running claim before the claim raises

ASSUME ClaimAssumption ==
  /\ Keys # {}
  /\ KeyOf \in [Steps -> Keys]
  /\ MaxRuns \in Nat
  /\ MaxBeat \in Nat
  /\ RefusalLimit \in Nat \ {0}

VARIABLES
  \* the runs table
  status,    \* a row's status, or "absent" before it is inserted
  rowKey,    \* the row's key
  source,    \* cache_source_run_id: 0 for a row that computes
  heartbeat, \* the claim heartbeat, Null on an audit row
  readable,  \* completed rows whose every output can be read
  nextRun,   \* the id the next insert gets
  \* a step process
  pc,        \* where it is in run_step and _claim_key
  subject,   \* the row its claim looks at: `known`, the newest completed row
             \* it read; then `hit_id`, the hit rule's answer, or `running`,
             \* the running claim it waits on (0 for none)
  mine,      \* the row it inserted, 0 before
  seen,      \* the heartbeat value it saw last
  refusals,  \* refusals_without_a_claim
  ending,    \* how its phases ended
  beating,   \* rows a live heartbeat thread advances
  sentinel,  \* the run id the step's sentinel sidecar names, 0 for none
  \* a cancel
  picked,    \* the rows a cancel read as running and has yet to write
  \* history, read by properties only
  lost       \* rows whose outputs were missing at some time

rows  == <<status, rowKey, source, heartbeat, nextRun>>
steps == <<subject, mine, seen, refusals, ending>>
vars  == <<rows, readable, pc, steps, beating, sentinel, picked, lost>>

Runs   == 1..MaxRuns
Null   == -1
RunOrNone == Runs \cup {0}
Beats  == {Null} \cup 0..MaxBeat
Status == {"absent", "running", "completed", "failed", "cancelled"}
Labels == {"known", "hitRule", "audit", "insert", "refused", "wait", "close",
           "compute", "record", "cached", "lostClaim", "touch",
           "raised", "failed", "done", "dead"}
Ended  == {"raised", "failed", "done", "dead"}

\* Every variable keeps its type; refusals stop at the limit.
TypeOK ==
  /\ status \in [Runs -> Status]
  /\ rowKey \in [Runs -> Keys]
  /\ source \in [Runs -> RunOrNone]
  /\ heartbeat \in [Runs -> Beats]
  /\ readable \subseteq Runs
  /\ nextRun \in 1..(MaxRuns + 1)
  /\ pc \in [Steps -> Labels]
  /\ subject \in [Steps -> RunOrNone]
  /\ mine \in [Steps -> RunOrNone]
  /\ seen \in [Steps -> Beats]
  /\ refusals \in [Steps -> 0..RefusalLimit]
  /\ ending \in [Steps -> {"none", "completed", "failed", "slurm"}]
  /\ beating \subseteq Runs
  /\ sentinel \in [Steps -> RunOrNone]
  /\ picked \in [Cancels -> SUBSET Runs]
  /\ lost \subseteq Runs

-----------------------------------------------------------------------------
(* Helper state formulae: the queries of claim.py.                         *)

\* The hit rule's pool under a key: completed rows that are not audit rows.
Completed(k) ==
  {r \in Runs : status[r] = "completed" /\ source[r] = 0 /\ rowKey[r] = k}

\* `_newest_completed_run`: n is the largest id of the pool, 0 on none.
IsNewestCompleted(k, n) ==
  \/ n = 0 /\ Completed(k) = {}
  \/ n \in Completed(k) /\ \A r \in Completed(k) : r <= n

\* The rows the running-claim index covers under a key.
RunningClaims(k) ==
  {r \in Runs : /\ status[r] = "running"
                /\ source[r] = 0
                /\ heartbeat[r] # Null
                /\ rowKey[r] = k}

Goto(s, from, to) == pc[s] = from /\ pc' = [pc EXCEPT ![s] = to]

\* Insert a row with the next id, held under step s's key.
InsertRow(s, st, src, beat) ==
  /\ nextRun <= MaxRuns
  /\ status' = [status EXCEPT ![nextRun] = st]
  /\ rowKey' = [rowKey EXCEPT ![nextRun] = KeyOf[s]]
  /\ source' = [source EXCEPT ![nextRun] = src]
  /\ heartbeat' = [heartbeat EXCEPT ![nextRun] = beat]
  /\ nextRun' = nextRun + 1
  /\ mine' = [mine EXCEPT ![s] = nextRun]

EndRows(R, st) ==
  /\ status' = [r \in Runs |-> IF r \in R THEN st ELSE status[r]]
  /\ UNCHANGED <<rowKey, source, heartbeat, nextRun>>

EndRow(r, st) == EndRows({r}, st)

\* What one pipeline has in flight: its running rows, of any keys.
InFlight == {R \in SUBSET {r \in Runs : status[r] = "running"} : R # {}}

-----------------------------------------------------------------------------
(* Bugs the code might have had: each is an action below with one slip in  *)
(* it, and a property must tell the two apart.  No specification uses them. *)

\* The hit rule's pool keeps the audit rows, which have no outputs to miss.
HitRuleHitTakesAudits(s) ==
  /\ Goto(s, "hitRule", "audit")
  /\ \E r \in Runs : /\ status[r] = "completed" /\ rowKey[r] = KeyOf[s]
                     /\ r \in readable \/ source[r] # 0
                     /\ subject' = [subject EXCEPT ![s] = r]
  /\ UNCHANGED <<rows, readable, mine, seen, refusals, ending, beating,
                 sentinel, picked, lost>>

\* The insert does not look again for a result that landed.
InsertRunningBlindly(s) ==
  /\ Goto(s, "insert", "compute")
  /\ RunningClaims(KeyOf[s]) = {}
  /\ InsertRow(s, "running", 0, 0)
  /\ beating' = beating \cup {nextRun}
  /\ UNCHANGED <<readable, subject, seen, refusals, ending, sentinel, picked,
                 lost>>

\* The table has no running-claim index.
InsertRunningUnindexed(s) ==
  /\ Goto(s, "insert", "compute")
  /\ IsNewestCompleted(KeyOf[s], subject[s])
  /\ InsertRow(s, "running", 0, 0)
  /\ beating' = beating \cup {nextRun}
  /\ UNCHANGED <<readable, subject, seen, refusals, ending, sentinel, picked,
                 lost>>

\* A stalled claim is closed by its id alone.
CloseStalledUnconditionally(s) ==
  /\ Goto(s, "close", "known")
  /\ EndRow(subject[s], "failed")
  /\ UNCHANGED <<readable, steps, beating, sentinel, picked, lost>>

\* The stall timer restarts where the claim should be closed.
CloseStalledWaitsAgain(s) ==
  /\ Goto(s, "close", "wait")
  /\ seen' = [seen EXCEPT ![s] = Null]
  /\ UNCHANGED <<rows, readable, subject, mine, refusals, ending, beating,
                 sentinel, picked, lost>>

\* The heartbeat thread outlives the phases.
EndPhasesBeating(s) ==
  /\ Goto(s, "compute", "record")
  /\ \E e \in {"completed", "failed", "slurm"} :
       ending' = [ending EXCEPT ![s] = e]
  /\ UNCHANGED <<rows, readable, subject, mine, seen, refusals, beating,
                 sentinel, picked, lost>>

\* The record phase completes its row by its id alone.
RecordCompletedUnconditionally(s) ==
  /\ Goto(s, "record", "touch")
  /\ ending[s] = "completed"
  /\ EndRow(mine[s], "completed")
  /\ readable' = readable \cup {mine[s]}
  /\ UNCHANGED <<steps, beating, sentinel, picked, lost>>

\* A lost claim is taken for one that completed.
RecordLostClaimTouches(s) ==
  /\ Goto(s, "record", "touch")
  /\ ending[s] = "completed"
  /\ status[mine[s]] # "running"
  /\ UNCHANGED <<rows, readable, steps, beating, sentinel, picked, lost>>

-----------------------------------------------------------------------------
(* The claim: _claim_key, wait_on_running_claim.                           *)

Init ==
  /\ status = [r \in Runs |-> "absent"]
  /\ rowKey = [r \in Runs |-> CHOOSE k \in Keys : TRUE]
  /\ source = [r \in Runs |-> 0]
  /\ heartbeat = [r \in Runs |-> Null]
  /\ readable = {}
  /\ nextRun = 1
  /\ pc = [s \in Steps |-> "known"]
  /\ subject = [s \in Steps |-> 0]
  /\ mine = [s \in Steps |-> 0]
  /\ seen = [s \in Steps |-> Null]
  /\ refusals = [s \in Steps |-> 0]
  /\ ending = [s \in Steps |-> "none"]
  /\ beating = {}
  /\ sentinel = [s \in Steps |-> 0]
  /\ picked = [c \in Cancels |-> {}]
  /\ lost = {}

\* The newest completed row is read before the hit rule is asked.
ReadNewest(s) ==
  /\ Goto(s, "known", "hitRule")
  /\ \E n \in RunOrNone :
       /\ IsNewestCompleted(KeyOf[s], n)
       /\ subject' = [subject EXCEPT ![s] = n]
  /\ UNCHANGED <<rows, readable, mine, seen, refusals, ending, beating,
                 sentinel, picked, lost>>

\* `lookup_cache_hit`, outside any transaction: the newest completed row
\* whose every output can be read.  A key's rows compute one at a time, so
\* the newest finished row is the one with the largest id.
Usable(k) == Completed(k) \cap readable

HitRuleMiss(s) ==
  /\ Goto(s, "hitRule", "insert")
  /\ Usable(KeyOf[s]) = {}
  /\ UNCHANGED <<rows, readable, steps, beating, sentinel, picked, lost>>

HitRuleHit(s) ==
  /\ Goto(s, "hitRule", "audit")
  /\ \E r \in Usable(KeyOf[s]) :
       /\ \A q \in Usable(KeyOf[s]) : q <= r
       /\ subject' = [subject EXCEPT ![s] = r]
  /\ UNCHANGED <<rows, readable, mine, seen, refusals, ending, beating,
                 sentinel, picked, lost>>

\* A hit writes its audit row, already completed; the record phase then has
\* only the sentinel to write.
InsertAudit(s) ==
  /\ Goto(s, "audit", "touch")
  /\ InsertRow(s, "completed", subject[s], Null)
  /\ UNCHANGED <<readable, subject, seen, refusals, ending, beating, sentinel,
                 picked, lost>>

\* A miss inserts the running row: one write transaction that first reads
\* the newest completed row again and goes back to the hit rule when another
\* landed; the running-claim index refuses a second row of the key.
ResultLanded(s) ==
  /\ Goto(s, "insert", "known")
  /\ ~IsNewestCompleted(KeyOf[s], subject[s])
  /\ UNCHANGED <<rows, readable, steps, beating, sentinel, picked, lost>>

InsertRefused(s) ==
  /\ Goto(s, "insert", "refused")
  /\ IsNewestCompleted(KeyOf[s], subject[s])
  /\ RunningClaims(KeyOf[s]) # {}
  /\ UNCHANGED <<rows, readable, steps, beating, sentinel, picked, lost>>

InsertRunning(s) ==
  /\ Goto(s, "insert", "compute")
  /\ IsNewestCompleted(KeyOf[s], subject[s])
  /\ RunningClaims(KeyOf[s]) = {}
  /\ InsertRow(s, "running", 0, 0)
  /\ beating' = beating \cup {nextRun}
  /\ UNCHANGED <<readable, subject, seen, refusals, ending, sentinel, picked,
                 lost>>

\* After a refusal the running claim is looked up; it may have left running.
FindHolder(s) ==
  /\ Goto(s, "refused", "wait")
  /\ \E r \in RunningClaims(KeyOf[s]) : subject' = [subject EXCEPT ![s] = r]
  /\ seen' = [seen EXCEPT ![s] = Null]
  /\ UNCHANGED <<rows, readable, mine, refusals, ending, beating, sentinel,
                 picked, lost>>

NoHolder(s) ==
  /\ RunningClaims(KeyOf[s]) = {}
  /\ refusals' = [refusals EXCEPT ![s] = @ + 1]
  /\ \/ refusals[s] + 1 >= RefusalLimit /\ Goto(s, "refused", "raised")
     \/ refusals[s] + 1 < RefusalLimit /\ Goto(s, "refused", "known")
  /\ UNCHANGED <<rows, readable, subject, mine, seen, ending, beating,
                 sentinel, picked, lost>>

\* One poll of the wait loop.  A moved heartbeat restarts the waiter's own
\* stall timer; after the stall window of one value the waiter closes.
HolderEnded(s) ==
  /\ Goto(s, "wait", "known")
  /\ status[subject[s]] # "running"
  /\ UNCHANGED <<rows, readable, steps, beating, sentinel, picked, lost>>

SeeProgress(s) ==
  /\ pc[s] = "wait"
  /\ status[subject[s]] = "running"
  /\ heartbeat[subject[s]] # seen[s]
  /\ seen' = [seen EXCEPT ![s] = heartbeat[subject[s]]]
  /\ UNCHANGED <<rows, readable, pc, subject, mine, refusals, ending, beating,
                 sentinel, picked, lost>>

StallWindowPassed(s) ==
  /\ Goto(s, "wait", "close")
  /\ status[subject[s]] = "running"
  /\ heartbeat[subject[s]] = seen[s]
  /\ UNCHANGED <<rows, readable, steps, beating, sentinel, picked, lost>>

\* `_close_stalled_claim`: a compare-and-set on the heartbeat value seen.
CloseStalled(s) ==
  /\ Goto(s, "close", "known")
  /\ status[subject[s]] = "running" /\ heartbeat[subject[s]] = seen[s]
  /\ EndRow(subject[s], "failed")
  /\ UNCHANGED <<readable, steps, beating, sentinel, picked, lost>>

CloseLost(s) ==
  /\ Goto(s, "close", "wait")
  /\ ~(status[subject[s]] = "running" /\ heartbeat[subject[s]] = seen[s])
  /\ seen' = [seen EXCEPT ![s] = Null]
  /\ UNCHANGED <<rows, readable, subject, mine, refusals, ending, beating,
                 sentinel, picked, lost>>

-----------------------------------------------------------------------------
(* The held claim: heartbeat, phases, record.                              *)

\* The heartbeat thread advances a running row, and ends when it is not.
Beat(r) ==
  /\ r \in beating
  /\ \/ /\ status[r] = "running"
        /\ heartbeat[r] < MaxBeat
        /\ heartbeat' = [heartbeat EXCEPT ![r] = @ + 1]
        /\ UNCHANGED beating
     \/ /\ status[r] # "running"
        /\ beating' = beating \ {r}
        /\ UNCHANGED heartbeat
  /\ UNCHANGED <<status, rowKey, source, nextRun, readable, pc, steps,
                 sentinel, picked, lost>>

\* The run-archive directory cannot be made, the document cannot be read
\* again, or a phase raises: the step stops with its heartbeat stopped and
\* its row left running.
ClaimRaises(s) ==
  /\ Goto(s, "compute", "raised")
  /\ beating' = beating \ {mine[s]}
  /\ UNCHANGED <<rows, readable, steps, sentinel, picked, lost>>

\* Materialize, dispatch and collect end; the heartbeat stops before the
\* record phase on every ending.  "slurm" exits without a record.
EndPhases(s) ==
  /\ Goto(s, "compute", "record")
  /\ \E e \in {"completed", "failed", "slurm"} :
       ending' = [ending EXCEPT ![s] = e]
  /\ beating' = beating \ {mine[s]}
  /\ UNCHANGED <<rows, readable, subject, mine, seen, refusals, sentinel,
                 picked, lost>>

\* `complete_run` with completed: a compare-and-set on the row running.
RecordCompleted(s) ==
  /\ Goto(s, "record", "touch")
  /\ ending[s] = "completed"
  /\ status[mine[s]] = "running"
  /\ EndRow(mine[s], "completed")
  /\ readable' = readable \cup {mine[s]}
  /\ UNCHANGED <<steps, beating, sentinel, picked, lost>>

\* A row that left running keeps what that left on it: no sentinel is
\* touched, and the step's outcome reads failed.
RecordLostClaim(s) ==
  /\ Goto(s, "record", "failed")
  /\ ending[s] = "completed"
  /\ status[mine[s]] # "running"
  /\ UNCHANGED <<rows, readable, steps, beating, sentinel, picked, lost>>

\* The failed flip is the same compare-and-set, best-effort: an error is
\* swallowed and leaves the row running.
RecordFailed(s) ==
  /\ Goto(s, "record", "failed")
  /\ ending[s] = "failed"
  /\ \/ status[mine[s]] = "running" /\ EndRow(mine[s], "failed")
     \/ UNCHANGED rows
  /\ UNCHANGED <<readable, steps, beating, sentinel, picked, lost>>

RecordNothing(s) ==
  /\ Goto(s, "record", "failed")
  /\ ending[s] = "slurm"
  /\ UNCHANGED <<rows, readable, steps, beating, sentinel, picked, lost>>

TouchSentinel(s) ==
  /\ Goto(s, "touch", "done")
  /\ sentinel' = [sentinel EXCEPT ![s] = mine[s]]
  /\ UNCHANGED <<rows, readable, steps, beating, picked, lost>>

-----------------------------------------------------------------------------
(* What else happens to a step's process and to its row.                   *)

\* The process is killed: its heartbeat thread goes with it.
Crash(s) ==
  /\ pc[s] \notin Ended
  /\ pc' = [pc EXCEPT ![s] = "dead"]
  /\ beating' = beating \ {mine[s]}
  /\ UNCHANGED <<rows, readable, steps, sentinel, picked, lost>>

\* `fail_pipeline`: a compare-and-set in one write transaction.
FailPipeline ==
  /\ \E R \in InFlight : EndRows(R, "failed")
  /\ UNCHANGED <<readable, pc, steps, beating, sentinel, picked, lost>>

\* `cancel_pipeline` reads the running rows in one session and writes each
\* by its primary key when that session commits.
PickRunning(c) ==
  /\ picked[c] = {}
  /\ \E R \in InFlight : picked' = [picked EXCEPT ![c] = R]
  /\ UNCHANGED <<rows, readable, pc, steps, beating, sentinel, lost>>

WriteCancelled(c) ==
  /\ picked[c] # {}
  /\ EndRows(picked[c], "cancelled")
  /\ picked' = [picked EXCEPT ![c] = {}]
  /\ UNCHANGED <<readable, pc, steps, beating, sentinel, lost>>

\* A completed row's outputs go missing, or change (prune, a hand edit), and
\* may come back.
LoseOutputs(r) ==
  /\ r \in readable
  /\ readable' = readable \ {r}
  /\ lost' = lost \cup {r}
  /\ UNCHANGED <<rows, pc, steps, beating, sentinel, picked>>

RegainOutputs(r) ==
  /\ r \in lost \ readable
  /\ readable' = readable \cup {r}
  /\ UNCHANGED <<rows, pc, steps, beating, sentinel, picked, lost>>

\* The claim, from the hit rule to a row of its own or a refusal.
Claim(s) ==
  \/ ReadNewest(s) \/ HitRuleMiss(s) \/ HitRuleHit(s) \/ InsertAudit(s)
  \/ ResultLanded(s) \/ InsertRefused(s) \/ InsertRunning(s)
  \/ FindHolder(s) \/ NoHolder(s)
  \/ HolderEnded(s) \/ SeeProgress(s) \/ StallWindowPassed(s)
  \/ CloseStalled(s) \/ CloseLost(s)

Record(s) ==
  \/ RecordCompleted(s) \/ RecordLostClaim(s)
  \/ RecordFailed(s) \/ RecordNothing(s) \/ TouchSentinel(s)

Next ==
  \/ \E s \in Steps : \/ Claim(s) \/ ClaimRaises(s) \/ EndPhases(s)
                      \/ Record(s) \/ Crash(s)
  \/ FailPipeline
  \/ \E r \in Runs : Beat(r) \/ LoseOutputs(r) \/ RegainOutputs(r)
  \/ \E c \in Cancels : PickRunning(c) \/ WriteCancelled(c)

Spec == Init /\ [][Next]_vars

\* Every step's process is scheduled while it lives, and the phases of a
\* step end.  Crashes, ends from outside and lost outputs need not happen.
FairSpec ==
  /\ Spec
  /\ \A s \in Steps : /\ WF_vars(Claim(s))
                      /\ WF_vars(EndPhases(s))
                      /\ WF_vars(Record(s))

-----------------------------------------------------------------------------
(* Properties.                                                             *)

\* What the protocol promises (module ResultOnce): a key has one running
\* claim, which starts while no result of the key is intact.
Once == INSTANCE ResultOnce WITH
          computing <- [k \in Keys |-> RunningClaims(k)],
          intact    <- [k \in Keys |-> Completed(k) \ lost]

\* Every step of the claim protocol is a step of ResultOnce or a stutter: a
\* claim inserts its row only while nothing of the key runs and each result
\* it has was missing at some time, and a result comes only of the key's one
\* running claim (the index, the second look inside the write transaction
\* and the compare-and-sets).
ComputesOnce == Once!Spec

\* A result is computed once.  Of two completed rows of a key that both
\* computed (neither is an audit row), one had its outputs missing at some
\* time: claims that race, wait, take over a stalled one or see a result
\* land never compute a result that could be read (_claim_key, the
\* running-claim index and complete_run's compare-and-set together).
OneUsableResult ==
  \A k \in Keys : \A q, r \in Completed(k) :
    q # r => q \in lost \/ r \in lost

\* A sentinel tells the engine that its target succeeded and names the run
\* downstream steps read: it names a completed row, so a step whose claim was
\* taken over, or whose run ended from outside, never touches one.
SentinelNamesCompleted ==
  \A s \in Steps :
    sentinel[s] # 0 => /\ status[sentinel[s]] = "completed"
                       /\ rowKey[sentinel[s]] = KeyOf[s]

\* An audit row stands for a result: its source is an older row of its own
\* key that computed and completed, never another audit row.
AuditNamesResult ==
  \A r \in Runs :
    source[r] # 0 => /\ source[r] \in Completed(rowKey[r])
                     /\ source[r] < r

\* A row that ended keeps its status: a lost claim's record phase, a close of
\* a stalled claim and a pipeline's failure never flip it back.
EndedRowsStay ==
  [][\A r \in Runs : status[r] \notin {"absent", "running"}
                       => status'[r] = status[r]]_vars

\* Once a step has stopped its heartbeat (or died) nothing writes the row's
\* heartbeat again, so a waiter's stall timer can run out on it.
HeartbeatOnlyWhileComputing ==
  [][\A s \in Steps : mine[s] # 0 /\ pc[s] # "compute"
                        => heartbeat'[mine[s]] = heartbeat[mine[s]]]_vars

\* A claim left running by a dead process, a failed archive directory or an
\* exit without a record does not block its key: a step waiting on a claim
\* nobody keeps alive stops waiting.
DeadClaimFreed ==
  \A s \in Steps, r \in Runs :
    (pc[s] = "wait" /\ subject[s] = r /\ r \notin beating)
      ~> pc[s] \notin {"wait", "close"}

\* Every step comes to an end: claims waiting on one another, taking over and
\* asking the hit rule again do not go round for ever.
EveryStepEnds == \A s \in Steps : <>(pc[s] \in Ended)

-----------------------------------------------------------------------------
(* The inductive invariant OneUsableResult rests on.                       *)

\* The local variables a label uses name rows; a claim that has not ended
\* has refusals left.
Placed ==
  \A s \in Steps :
    /\ pc[s] \in {"audit", "wait", "close"} => subject[s] \in Runs
    /\ pc[s] \in {"compute", "record", "touch"} => mine[s] \in Runs
    /\ pc[s] \notin Ended => refusals[s] < RefusalLimit

\* Rows are inserted in the order of their ids.
FreshRows == \A r \in Runs : status[r] = "absent" <=> r >= nextRun

\* A running row is a claim that computes; its key has no other one, and
\* every result of its key is older and was missing.
RunningRows ==
  \A r \in Runs :
    status[r] = "running" =>
      /\ source[r] = 0 /\ heartbeat[r] # Null
      /\ \A q \in RunningClaims(rowKey[r]) : q = r
      /\ \A q \in Completed(rowKey[r]) : q < r /\ q \in lost

\* A result is readable or was missing at some time.
Accounted == \A k \in Keys : Completed(k) \subseteq readable \cup lost

\* What a claim knows between reading the newest result and its insert: a
\* claim that runs now ends with a newer row, so its result would show.
KnownRows ==
  \A s \in Steps :
    /\ pc[s] \in {"hitRule", "insert"} =>
         /\ subject[s] < nextRun
         /\ \A r \in RunningClaims(KeyOf[s]) : subject[s] < r
    /\ pc[s] = "insert" =>
         \A q \in Completed(KeyOf[s]) : q <= subject[s] => q \in lost

PickedRows == \A c \in Cancels : \A r \in picked[c] : r < nextRun

\* The inductive invariant of the claim protocol, its conjuncts above.
ClaimInv ==
  /\ TypeOK
  /\ Placed
  /\ FreshRows
  /\ RunningRows
  /\ Accounted
  /\ KnownRows
  /\ PickedRows
  /\ OneUsableResult
=============================================================================
