--------------------------- MODULE RunClaimProofs ---------------------------
(***************************************************************************)
(* Proofs about RunClaim, for every set of steps, keys and cancels and     *)
(* every bound: the inductive invariant ClaimInv, one lemma per action.    *)
(***************************************************************************)
EXTENDS RunClaim, TLAPS

LEMMA ClaimInit == Init => ClaimInv
<1> SUFFICES ASSUME Init
             PROVE  ClaimInv
  OBVIOUS
<1> USE ClaimAssumption DEF Init, Runs
<1>1. TypeOK
  BY DEF TypeOK, Status, Labels, RunOrNone, Beats, Null
<1>2. QED
  BY <1>1 DEF ClaimInv, Placed, FreshRows, RunningRows, Accounted, KnownRows,
              PickedRows, OneUsableResult, Ended, Completed, RunningClaims

\* The id an insert uses is a row's id, and the next one is in range.
LEMMA InsertInRange ==
  ASSUME TypeOK, nextRun <= MaxRuns
  PROVE  nextRun \in Runs /\ nextRun + 1 \in 1..(MaxRuns + 1)
  BY ClaimAssumption DEF TypeOK, Runs

-----------------------------------------------------------------------------
(* The actions of a step that end no row with a result and insert none.    *)

LEMMA QuietClaimSteps ==
  ASSUME ClaimInv, NEW s \in Steps,
         \/ HitRuleMiss(s) \/ HitRuleHit(s) \/ ResultLanded(s)
         \/ InsertRefused(s) \/ FindHolder(s) \/ NoHolder(s)
         \/ HolderEnded(s) \/ SeeProgress(s) \/ StallWindowPassed(s)
         \/ CloseStalled(s) \/ CloseLost(s)
  PROVE  ClaimInv'
<1> USE ClaimAssumption
    DEF ClaimInv, TypeOK, Placed, FreshRows, RunningRows, Accounted,
        KnownRows, PickedRows, OneUsableResult, Completed, RunningClaims,
        Status, Labels, RunOrNone, Beats, Null, Ended, Goto, rows, steps
<1>1. CASE HitRuleMiss(s)
  BY <1>1 DEF HitRuleMiss, Usable
<1>2. CASE HitRuleHit(s)
  BY <1>2 DEF HitRuleHit, Usable
<1>3. CASE ResultLanded(s)
  BY <1>3 DEF ResultLanded
<1>4. CASE InsertRefused(s)
  BY <1>4 DEF InsertRefused
<1>5. CASE FindHolder(s)
  BY <1>5 DEF FindHolder
<1>6. CASE NoHolder(s)
  BY <1>6 DEF NoHolder
<1>7. CASE HolderEnded(s)
  BY <1>7 DEF HolderEnded
<1>8. CASE SeeProgress(s)
  BY <1>8 DEF SeeProgress
<1>9. CASE StallWindowPassed(s)
  BY <1>9 DEF StallWindowPassed
<1>10. CASE CloseLost(s)
  BY <1>10 DEF CloseLost
<1>11. CASE CloseStalled(s)
  BY <1>11 DEF CloseStalled, EndRow, EndRows
<1>12. QED
  BY <1>1, <1>2, <1>3, <1>4, <1>5, <1>6, <1>7, <1>8, <1>9, <1>10, <1>11

LEMMA QuietRunSteps ==
  ASSUME ClaimInv, NEW s \in Steps,
         \/ ClaimRaises(s) \/ EndPhases(s) \/ Crash(s)
         \/ RecordLostClaim(s) \/ RecordFailed(s) \/ RecordNothing(s)
         \/ TouchSentinel(s)
  PROVE  ClaimInv'
<1> USE DEF ClaimInv, TypeOK, Placed, FreshRows, RunningRows, Accounted,
        KnownRows, PickedRows, OneUsableResult, Completed, RunningClaims,
        Status, Labels, RunOrNone, Beats, Null, Ended, Goto, rows, steps
<1>1. CASE ClaimRaises(s)
  BY <1>1 DEF ClaimRaises
<1>2. CASE EndPhases(s)
  BY <1>2 DEF EndPhases
<1>3. CASE Crash(s)
  BY <1>3 DEF Crash
<1>4. CASE RecordLostClaim(s)
  BY <1>4 DEF RecordLostClaim
<1>5. CASE RecordNothing(s)
  BY <1>5 DEF RecordNothing
<1>6. CASE TouchSentinel(s)
  BY <1>6 DEF TouchSentinel
<1>7. CASE RecordFailed(s)
  BY <1>7 DEF RecordFailed, EndRow, EndRows
<1>8. QED
  BY <1>1, <1>2, <1>3, <1>4, <1>5, <1>6, <1>7

-----------------------------------------------------------------------------
(* Reading the newest result, the two inserts and the completing record.   *)

LEMMA ReadNewestKeeps ==
  ASSUME ClaimInv, NEW s \in Steps, ReadNewest(s)
  PROVE  ClaimInv'
<1> USE DEF ClaimInv, TypeOK, Goto, rows, steps, ReadNewest
<1>1. TypeOK' /\ Placed' /\ FreshRows' /\ RunningRows' /\ Accounted'
      /\ PickedRows' /\ OneUsableResult'
  BY DEF Placed, FreshRows, RunningRows, Accounted, PickedRows,
         OneUsableResult, Completed, RunningClaims, Labels, Ended
<1>2. KnownRows'
  BY DEF KnownRows, IsNewestCompleted, RunningRows, FreshRows, Completed,
         RunningClaims, Runs, RunOrNone
<1>3. QED
  BY <1>1, <1>2

\* An audit row is no result and no running row.
LEMMA InsertAuditKeeps ==
  ASSUME ClaimInv, NEW s \in Steps, InsertAudit(s)
  PROVE  ClaimInv'
<1> USE DEF ClaimInv, TypeOK, InsertAudit, InsertRow, Goto, rows, steps
<1>1. nextRun \in Runs /\ nextRun + 1 \in 1..(MaxRuns + 1)
  BY InsertInRange
<1>2. TypeOK' /\ Placed'
  BY <1>1, ClaimAssumption
     DEF Placed, Status, Labels, RunOrNone, Beats, Ended
<1>3. source'[nextRun] # 0 /\ status'[nextRun] # "running"
  BY <1>1 DEF Placed, Runs
<1>4. \A k \in Keys : /\ Completed(k)' = Completed(k)
                      /\ RunningClaims(k)' = RunningClaims(k)
  BY <1>1, <1>3 DEF Completed, RunningClaims, FreshRows, Runs
<1>5. FreshRows'
  BY <1>1 DEF FreshRows, Runs
<1>6. RunningRows' /\ Accounted' /\ OneUsableResult'
  BY <1>1, <1>3, <1>4 DEF RunningRows, Accounted, OneUsableResult
<1>7. KnownRows'
  <2>1. \A t \in Steps : KeyOf[t] \in Keys
    BY ClaimAssumption
  <2>2. \A t \in Steps : subject[t] \in Int
    BY DEF Runs, RunOrNone
  <2>3. nextRun \in Int
    BY <1>1 DEF Runs
  <2> QED
    BY <1>4, <2>1, <2>2, <2>3 DEF KnownRows
<1>8. PickedRows'
  BY <1>1 DEF PickedRows, Runs
<1>9. QED
  BY <1>2, <1>5, <1>6, <1>7, <1>8

\* The new running row is the newest row; when the insert goes through, the
\* hit rule has seen every result of the key and found none it could read.
LEMMA InsertRunningKeeps ==
  ASSUME ClaimInv, NEW s \in Steps, InsertRunning(s)
  PROVE  ClaimInv'
<1> USE DEF ClaimInv, TypeOK, InsertRunning, InsertRow, Goto, rows, steps
<1>1. nextRun \in Runs /\ nextRun + 1 \in 1..(MaxRuns + 1)
  BY InsertInRange
<1>2. 0 \in RunOrNone /\ 0 \in Beats /\ 0 # Null
  BY ClaimAssumption DEF RunOrNone, Beats, Null
<1>3. TypeOK' /\ Placed'
  BY <1>1, <1>2, ClaimAssumption DEF Placed, Status, Labels, Ended, RunOrNone
<1>4. \A k \in Keys : /\ Completed(k)' = Completed(k)
                      /\ RunningClaims(k)' =
                           IF k = KeyOf[s] THEN {nextRun} ELSE RunningClaims(k)
  BY <1>1, <1>2, ClaimAssumption DEF Completed, RunningClaims, FreshRows, Runs
<1>5. FreshRows'
  BY <1>1 DEF FreshRows, Runs
<1>6. \A q \in Completed(KeyOf[s]) : q < nextRun /\ q \in lost
  <2>1. \A q \in Completed(KeyOf[s]) : q <= subject[s]
    BY DEF IsNewestCompleted
  <2>2. \A q \in Completed(KeyOf[s]) : q < nextRun
    BY DEF FreshRows, Completed, Runs
  <2> QED
    BY <2>1, <2>2 DEF KnownRows
<1>7. RunningRows'
  <2> SUFFICES ASSUME NEW r \in Runs, status'[r] = "running",
                      NEW k \in Keys, k = rowKey'[r]
               PROVE  /\ source'[r] = 0 /\ heartbeat'[r] # Null
                      /\ \A q \in RunningClaims(k)' : q = r
                      /\ \A q \in Completed(k)' : q < r /\ q \in lost'
    <3>1. \A r \in Runs : rowKey'[r] \in Keys
      BY <1>3
    <3> QED
      BY <3>1 DEF RunningRows, RunningClaims, Completed
  <2>1. CASE r = nextRun
    <3>1. k = KeyOf[s] /\ source'[r] = 0 /\ heartbeat'[r] = 0
      BY <2>1, <1>1
    <3> QED
      BY <2>1, <3>1, <1>2, <1>4, <1>6
  <2>2. CASE r # nextRun
    <3>1. /\ status[r] = "running" /\ rowKey[r] = k
          /\ source'[r] = source[r] /\ heartbeat'[r] = heartbeat[r]
      BY <2>2, <1>1
    <3>2. r \in RunningClaims(k)
      BY <3>1 DEF RunningRows, RunningClaims
    <3>3. RunningClaims(k)' = RunningClaims(k) /\ Completed(k)' = Completed(k)
      BY <3>2, <1>4
    <3> QED
      BY <3>1, <3>3 DEF RunningRows
  <2>3. QED
    BY <2>1, <2>2
<1>8. Accounted' /\ OneUsableResult'
  BY <1>4 DEF Accounted, OneUsableResult
<1>9. KnownRows'
  <2> SUFFICES ASSUME NEW t \in Steps
               PROVE
                 /\ pc'[t] \in {"hitRule", "insert"} =>
                      /\ subject[t] < nextRun + 1
                      /\ \A r \in RunningClaims(KeyOf[t])' : subject[t] < r
                 /\ pc'[t] = "insert" =>
                      \A q \in Completed(KeyOf[t])' :
                        q <= subject[t] => q \in lost
    BY DEF KnownRows
  <2>1. pc'[t] \in {"hitRule", "insert"} => t # s /\ pc'[t] = pc[t]
    OBVIOUS
  <2>2. KeyOf[t] \in Keys
    BY ClaimAssumption
  <2>3. subject[t] \in Int /\ nextRun \in Int
    BY <1>1 DEF Runs, RunOrNone
  <2> QED
    BY <2>1, <2>2, <2>3, <1>4 DEF KnownRows
<1>10. PickedRows'
  BY <1>1 DEF PickedRows, Runs
<1>11. QED
  BY <1>3, <1>5, <1>7, <1>8, <1>9, <1>10

\* The completed row was its key's only running one, newer than anything a
\* claim knows, and every other result of the key was missing.
LEMMA RecordCompletedKeeps ==
  ASSUME ClaimInv, NEW s \in Steps, RecordCompleted(s)
  PROVE  ClaimInv'
<1> USE DEF ClaimInv, TypeOK, RecordCompleted, EndRow, EndRows, Goto, rows, steps
<1>1. mine[s] \in Runs
  BY DEF Placed
<1>2. TypeOK' /\ Placed' /\ FreshRows' /\ RunningRows' /\ Accounted'
      /\ PickedRows' /\ OneUsableResult'
  BY <1>1 DEF Placed, FreshRows, RunningRows, Accounted, PickedRows,
              OneUsableResult, Completed, RunningClaims, Status, Labels, Ended
<1>3. mine[s] \in RunningClaims(rowKey[mine[s]])
  BY <1>1 DEF RunningRows, RunningClaims
<1>4. \A k \in Keys : /\ RunningClaims(k)' \subseteq RunningClaims(k)
                      /\ \A q \in Completed(k)' :
                           \/ q \in Completed(k)
                           \/ q = mine[s] /\ q \in RunningClaims(k)
  BY <1>1, <1>3 DEF Completed, RunningClaims
<1>5. KnownRows'
  <2> SUFFICES ASSUME NEW t \in Steps
               PROVE
                 /\ pc'[t] \in {"hitRule", "insert"} =>
                      /\ subject[t] < nextRun
                      /\ \A r \in RunningClaims(KeyOf[t])' : subject[t] < r
                 /\ pc'[t] = "insert" =>
                      \A q \in Completed(KeyOf[t])' :
                        q <= subject[t] => q \in lost
    BY DEF KnownRows
  <2>1. pc'[t] \in {"hitRule", "insert"} => pc'[t] = pc[t]
    OBVIOUS
  <2>2. KeyOf[t] \in Keys
    BY ClaimAssumption
  <2>3. subject[t] \in Int /\ mine[s] \in Int
    BY <1>1 DEF Runs, RunOrNone
  <2>4. pc[t] = "insert" =>
          \A r \in RunningClaims(KeyOf[t]) : ~(r <= subject[t])
    BY <2>2, <2>3 DEF KnownRows, RunningClaims, Runs
  <2>5. ASSUME pc'[t] = "insert", NEW q \in Completed(KeyOf[t])',
               q <= subject[t]
        PROVE  q \in lost
    <3>1. pc[t] = "insert"
      BY <2>1, <2>5
    <3>2. CASE q \in Completed(KeyOf[t])
      BY <3>1, <3>2, <2>5 DEF KnownRows
    <3>3. CASE q \in RunningClaims(KeyOf[t])
      BY <3>1, <3>3, <2>4, <2>5
    <3>4. QED
      BY <1>4, <2>2, <2>5, <3>2, <3>3
  <2>6. pc'[t] \in {"hitRule", "insert"} =>
          /\ subject[t] < nextRun
          /\ \A r \in RunningClaims(KeyOf[t])' : subject[t] < r
    BY <1>4, <2>1, <2>2 DEF KnownRows
  <2>7. QED
    BY <2>5, <2>6
<1>6. QED
  BY <1>2, <1>5

-----------------------------------------------------------------------------
(* What happens to a row from outside.                                     *)

LEMMA RowStepsKeep ==
  ASSUME ClaimInv, NEW r \in Runs,
         Beat(r) \/ LoseOutputs(r) \/ RegainOutputs(r)
  PROVE  ClaimInv'
<1> USE DEF ClaimInv, TypeOK, Placed, FreshRows, RunningRows, Accounted,
        KnownRows, PickedRows, OneUsableResult, Completed, RunningClaims,
        Status, Ended, rows, steps
<1>1. CASE Beat(r)
  BY <1>1, ClaimAssumption DEF Beat, Beats, Null
<1>2. CASE LoseOutputs(r)
  BY <1>2 DEF LoseOutputs
<1>3. CASE RegainOutputs(r)
  BY <1>3 DEF RegainOutputs
<1>4. QED
  BY <1>1, <1>2, <1>3

LEMMA FailPipelineKeeps ==
  ASSUME ClaimInv, FailPipeline
  PROVE  ClaimInv'
<1> USE DEF ClaimInv, TypeOK, FailPipeline, EndRows, InFlight, rows, steps
<1>1. PICK R \in InFlight : EndRows(R, "failed")
  OBVIOUS
<1>2. \A k \in Keys : /\ RunningClaims(k)' \subseteq RunningClaims(k)
                      /\ Completed(k)' = Completed(k)
  BY <1>1 DEF RunningClaims, Completed
<1>3. TypeOK' /\ FreshRows'
  BY <1>1 DEF Status, FreshRows
<1>4. RunningRows'
  BY <1>1, <1>2 DEF RunningRows
<1>5. KnownRows'
  BY <1>2, ClaimAssumption DEF KnownRows
<1>6. QED
  BY <1>2, <1>3, <1>4, <1>5 DEF Placed, Accounted, PickedRows, OneUsableResult

LEMMA CancelStepsKeep ==
  ASSUME ClaimInv, NEW c \in Cancels, PickRunning(c) \/ WriteCancelled(c)
  PROVE  ClaimInv'
<1> USE DEF ClaimInv, TypeOK, rows, steps
<1>1. CASE PickRunning(c)
  <2>1. PickedRows'
    BY <1>1 DEF PickRunning, InFlight, PickedRows, FreshRows, Runs
  <2>2. QED
    BY <1>1, <2>1
       DEF PickRunning, InFlight, Placed, FreshRows, RunningRows, Accounted, KnownRows,
           OneUsableResult, Completed, RunningClaims
<1>2. CASE WriteCancelled(c)
  <2>1. FreshRows'
    BY <1>2 DEF WriteCancelled, EndRows, FreshRows, PickedRows, Runs
  <2>2. QED
    BY <1>2, <2>1
       DEF WriteCancelled, EndRows, Status, Placed, RunningRows, Accounted, KnownRows,
           PickedRows, OneUsableResult, Completed, RunningClaims
<1>3. QED
  BY <1>1, <1>2

-----------------------------------------------------------------------------

LEMMA ClaimNext == ClaimInv /\ [Next]_vars => ClaimInv'
<1> SUFFICES ASSUME ClaimInv, [Next]_vars
             PROVE  ClaimInv'
  OBVIOUS
<1>1. ASSUME NEW s \in Steps, Claim(s)
      PROVE  ClaimInv'
  BY <1>1, QuietClaimSteps, ReadNewestKeeps, InsertAuditKeeps,
     InsertRunningKeeps DEF Claim
<1>2. ASSUME NEW s \in Steps, ClaimRaises(s) \/ EndPhases(s)
                              \/ Record(s) \/ Crash(s)
      PROVE  ClaimInv'
  BY <1>2, QuietRunSteps, RecordCompletedKeeps DEF Record
<1>3. ASSUME NEW r \in Runs, Beat(r) \/ LoseOutputs(r) \/ RegainOutputs(r)
      PROVE  ClaimInv'
  BY <1>3, RowStepsKeep
<1>4. ASSUME NEW c \in Cancels, PickRunning(c) \/ WriteCancelled(c)
      PROVE  ClaimInv'
  BY <1>4, CancelStepsKeep
<1>5. CASE UNCHANGED vars
  BY <1>5 DEF vars, rows, steps, ClaimInv, TypeOK, Placed, FreshRows,
              RunningRows, Accounted, KnownRows, PickedRows, OneUsableResult,
              Completed, RunningClaims
<1>6. QED
  BY <1>1, <1>2, <1>3, <1>4, <1>5, FailPipelineKeeps DEF Next

\* The inductive invariant holds throughout, and with it every variable's
\* type.
THEOREM ClaimInvariant == Spec => []ClaimInv
  BY ClaimInit, ClaimNext, PTL DEF Spec

\* Every variable of the claim protocol keeps its type.
THEOREM TypeInvariant == Spec => []TypeOK
<1>1. ClaimInv => TypeOK
  BY DEF ClaimInv
<1>2. QED
  BY <1>1, ClaimInvariant, PTL

\* A key's result is computed once: of two computed results of a key, one
\* had its outputs missing at some time.
THEOREM ResultComputedOnce == Spec => []OneUsableResult
<1>1. ClaimInv => OneUsableResult
  BY DEF ClaimInv
<1>2. QED
  BY <1>1, ClaimInvariant, PTL
---------------------------------------------------------------------------
(* The claim protocol implements ResultOnce.  A claim's insert is a Begin, *)
(* a completed record phase is a Finish, and every other step drops runs in*)
(* flight or results, or changes neither.                                  *)

\* Rows that only leave the two sets make a Drop.
LEMMA ShrinkDrops ==
  ASSUME \A k \in Keys :
           /\ RunningClaims(k)' \subseteq RunningClaims(k)
           /\ (Completed(k) \ lost)' \subseteq Completed(k) \ lost
  PROVE  Once!Next
<1>1. Once!Drop
  BY DEF Once!Drop, RunningClaims, Completed
<1>2. QED
  BY <1>1 DEF Once!Next

LEMMA QuietStepsShrink ==
  ASSUME ClaimInv, NEW s \in Steps,
         \/ ReadNewest(s)
         \/ HitRuleMiss(s) \/ HitRuleHit(s) \/ ResultLanded(s)
         \/ InsertRefused(s) \/ FindHolder(s) \/ NoHolder(s)
         \/ HolderEnded(s) \/ SeeProgress(s) \/ StallWindowPassed(s)
         \/ CloseStalled(s) \/ CloseLost(s)
         \/ ClaimRaises(s) \/ EndPhases(s) \/ Crash(s)
         \/ RecordLostClaim(s) \/ RecordFailed(s) \/ RecordNothing(s)
         \/ TouchSentinel(s)
  PROVE  Once!Next
<1> USE DEF RunningClaims, Completed, rows, steps
<1>1. CASE CloseStalled(s)
  BY <1>1, ShrinkDrops DEF CloseStalled, EndRow, EndRows
<1>2. CASE RecordFailed(s)
  BY <1>2, ShrinkDrops DEF RecordFailed, EndRow, EndRows
<1>3. CASE UNCHANGED <<rows, lost>>
  BY <1>3, ShrinkDrops
<1>4. QED
  BY <1>1, <1>2, <1>3
     DEF ReadNewest, HitRuleMiss, HitRuleHit, ResultLanded, InsertRefused,
         FindHolder, NoHolder, HolderEnded, SeeProgress, StallWindowPassed,
         CloseLost, ClaimRaises, EndPhases, Crash, RecordLostClaim,
         RecordNothing, TouchSentinel

\* An audit row is a result of another row's.
LEMMA AuditShrinks ==
  ASSUME ClaimInv, NEW s \in Steps, InsertAudit(s)
  PROVE  Once!Next
<1>1. subject[s] \in Runs /\ subject[s] # 0
  BY DEF ClaimInv, Placed, InsertAudit, Goto, Runs
<1>2. nextRun \in Runs
  BY InsertInRange DEF ClaimInv, InsertAudit, InsertRow
<1>3. \A k \in Keys : /\ RunningClaims(k)' \subseteq RunningClaims(k)
                      /\ Completed(k)' \subseteq Completed(k)
                      /\ lost' = lost
  BY <1>1, <1>2
     DEF ClaimInv, TypeOK, InsertAudit, InsertRow, RunningClaims, Completed
<1>4. QED
  BY <1>3, ShrinkDrops

\* The insert finds no running claim of its key, and the newest result is
\* still the one the claim knew: every result of the key was missing.
LEMMA InsertBegins ==
  ASSUME ClaimInv, NEW s \in Steps, InsertRunning(s)
  PROVE  Once!Next
<1> DEFINE k == KeyOf[s]
<1>a. nextRun \in Runs
  BY InsertInRange DEF ClaimInv, InsertRunning, InsertRow
<1> USE DEF ClaimInv, TypeOK, InsertRunning, InsertRow
<1>1. nextRun \in Runs /\ status[nextRun] = "absent" /\ k \in Keys
  <2>1. nextRun >= nextRun
    OBVIOUS
  <2>2. QED
    BY <1>a, <2>1, ClaimAssumption DEF FreshRows
<1>2. Completed(k) \subseteq lost
  BY DEF KnownRows, IsNewestCompleted, Goto
<1>3. /\ RunningClaims(k)' = {nextRun}
      /\ \A j \in Keys : j # k => RunningClaims(j)' = RunningClaims(j)
  BY <1>1 DEF RunningClaims, Null
<1>4. \A j \in Keys : Completed(j)' = Completed(j)
  BY <1>1 DEF Completed
<1>5. Once!Begin(k, nextRun)
  BY <1>1, <1>2, <1>3, <1>4 DEF Once!Begin
<1>6. QED
  BY <1>1, <1>5 DEF Once!Next

LEMMA RecordFinishes ==
  ASSUME ClaimInv, NEW s \in Steps, RecordCompleted(s)
  PROVE  Once!Next
<1> USE DEF ClaimInv, TypeOK, RecordCompleted, EndRow, EndRows
<1>1. PICK r \in Runs, k \in Keys :
        /\ r = mine[s] /\ k = rowKey[r]
        /\ status[r] = "running" /\ source[r] = 0
  BY DEF Placed, Goto, RunningRows
<1>2. RunningClaims(k) = {r} /\ Completed(k) \subseteq lost
  BY <1>1 DEF RunningRows, RunningClaims
<1>3. /\ RunningClaims(k)' = {}
      /\ Completed(k)' = Completed(k) \cup {r}
      /\ lost' = lost
      /\ \A j \in Keys : j # k => /\ RunningClaims(j)' = RunningClaims(j)
                                  /\ Completed(j)' = Completed(j)
  <2>1. RunningClaims(k)' = {}
    BY <1>1, <1>2 DEF RunningClaims, rows
  <2>2. Completed(k)' = Completed(k) \cup {r}
    BY <1>1 DEF Completed, rows
  <2>3. \A j \in Keys : j # k => /\ RunningClaims(j)' = RunningClaims(j)
                                 /\ Completed(j)' = Completed(j)
    BY <1>1 DEF RunningClaims, Completed, rows
  <2>4. QED
    BY <2>1, <2>2, <2>3
<1>4. CASE r \in lost
  <2>1. \A j \in Keys : /\ RunningClaims(j)' \subseteq RunningClaims(j)
                        /\ (Completed(j) \ lost)' \subseteq Completed(j) \ lost
    BY <1>2, <1>3, <1>4
  <2>2. QED
    BY <2>1, ShrinkDrops
<1>5. CASE r \notin lost
  <2>1. (Completed(k) \ lost)' = {r}
    BY <1>2, <1>3, <1>5
  <2>2. Once!Finish(k, r)
    BY <1>1, <1>2, <1>3, <2>1 DEF Once!Finish
  <2>3. QED
    BY <1>1, <2>2 DEF Once!Next
<1>6. QED
  BY <1>4, <1>5

-----------------------------------------------------------------------------

LEMMA OutsideShrinks ==
  ASSUME ClaimInv,
         \/ FailPipeline
         \/ \E r \in Runs : Beat(r) \/ LoseOutputs(r) \/ RegainOutputs(r)
         \/ \E c \in Cancels : PickRunning(c) \/ WriteCancelled(c)
         \/ UNCHANGED vars
  PROVE  Once!Next
<1> USE DEF ClaimInv, TypeOK, RunningClaims, Completed, rows, steps
<1>1. CASE FailPipeline
  BY <1>1, ShrinkDrops DEF FailPipeline, EndRows
<1>2. CASE \E r \in Runs : Beat(r) \/ LoseOutputs(r) \/ RegainOutputs(r)
  <2>1. PICK r \in Runs : Beat(r) \/ LoseOutputs(r) \/ RegainOutputs(r)
    BY <1>2
  <2>2. CASE Beat(r)
    <3>1. \A k \in Keys : RunningClaims(k)' \subseteq RunningClaims(k)
      BY <2>2 DEF Beat, Beats, Null, RunningRows
    <3>2. \A k \in Keys : (Completed(k) \ lost)' = Completed(k) \ lost
      BY <2>2 DEF Beat
    <3>3. QED
      BY <3>1, <3>2, ShrinkDrops
  <2>3. CASE LoseOutputs(r) \/ RegainOutputs(r)
    BY <2>3, ShrinkDrops DEF LoseOutputs, RegainOutputs
  <2>4. QED
    BY <2>1, <2>2, <2>3
<1>3. CASE \E c \in Cancels : PickRunning(c) \/ WriteCancelled(c)
  BY <1>3, ShrinkDrops DEF PickRunning, WriteCancelled, EndRows
<1>4. CASE UNCHANGED vars
  BY <1>4, ShrinkDrops DEF vars
<1>5. QED
  BY <1>1, <1>2, <1>3, <1>4

LEMMA NextRefines == ClaimInv /\ [Next]_vars => Once!Next
<1> SUFFICES ASSUME ClaimInv, [Next]_vars
             PROVE  Once!Next
  OBVIOUS
<1>1. ASSUME NEW s \in Steps, Claim(s)
      PROVE  Once!Next
  BY <1>1, QuietStepsShrink, AuditShrinks, InsertBegins DEF Claim
<1>2. ASSUME NEW s \in Steps, ClaimRaises(s) \/ EndPhases(s)
                              \/ Record(s) \/ Crash(s)
      PROVE  Once!Next
  BY <1>2, QuietStepsShrink, RecordFinishes DEF Record
<1>3. QED
  BY <1>1, <1>2, OutsideShrinks DEF Next

\* The claim protocol implements ResultOnce: a key has one running claim at a
\* time, and none starts while a result of the key is intact.
THEOREM ClaimImplementsResultOnce == Spec => ComputesOnce
<1>1. Init => Once!Init
  BY DEF Init, Once!Init, RunningClaims, Completed
<1>2. ClaimInv /\ [Next]_vars => [Once!Next]_<<[k \in Keys |-> RunningClaims(k)],
                                       [k \in Keys |-> Completed(k) \ lost]>>
  BY NextRefines
<1>3. QED
  BY <1>1, <1>2, ClaimInvariant, PTL DEF Spec, ComputesOnce, Once!Spec
---------------------------------------------------------------------------
(* What a step leaves behind: its heartbeat, its row and its sentinel.  A  *)
(* cancel may overwrite a row that ended, so what rests on a row's status is*)
(* proved for no cancels.                                                  *)

\* A row has one step, and a live heartbeat is that of a step computing.
OwnRows ==
  /\ \A s \in Steps :
       /\ mine[s] < nextRun
       /\ mine[s] # 0 => rowKey[mine[s]] = KeyOf[s]
       /\ \A t \in Steps : mine[s] = mine[t] /\ mine[s] # 0 => s = t
  /\ \A r \in beating : \E s \in Steps : mine[s] = r /\ pc[s] = "compute"

\* What a hit names and what a sentinel will name are results.
Outcomes ==
  /\ \A s \in Steps :
       /\ pc[s] = "audit" => subject[s] \in Completed(KeyOf[s])
       /\ pc[s] = "touch" => status[mine[s]] = "completed"
  /\ SentinelNamesCompleted
  /\ AuditNamesResult

LEMMA OwnRowsNext == ClaimInv /\ OwnRows /\ [Next]_vars => OwnRows'
<1> SUFFICES ASSUME ClaimInv, OwnRows, [Next]_vars
             PROVE  OwnRows'
  OBVIOUS
<1>1. ASSUME NEW s \in Steps, InsertAudit(s) \/ InsertRunning(s)
      PROVE  OwnRows'
  <2>1. nextRun \in Runs /\ nextRun # 0
    BY <1>1, InsertInRange
       DEF ClaimInv, InsertAudit, InsertRunning, InsertRow, Runs
  <2>2. nextRun' = nextRun + 1 /\ nextRun \in Int
    BY <1>1 DEF ClaimInv, TypeOK, InsertAudit, InsertRunning, InsertRow
  <2>3. mine \in [Steps -> Int] /\ beating \subseteq Runs
        /\ rowKey \in [Runs -> Keys]
    BY DEF ClaimInv, TypeOK, Runs, RunOrNone
  <2>4. /\ mine' = [mine EXCEPT ![s] = nextRun]
        /\ rowKey' = [rowKey EXCEPT ![nextRun] = KeyOf[s]]
    BY <1>1 DEF InsertAudit, InsertRunning, InsertRow
  <2>5. \A t \in Steps : mine[t] # 0 => mine[t] \in Runs
    BY DEF ClaimInv, TypeOK, RunOrNone
  <2>6. \A t \in Steps :
          /\ mine'[t] < nextRun'
          /\ mine'[t] # 0 => rowKey'[mine'[t]] = KeyOf[t]
          /\ \A u \in Steps : mine'[t] = mine'[u] /\ mine'[t] # 0 => t = u
    BY <2>1, <2>2, <2>3, <2>4, <2>5 DEF OwnRows
  <2>7. \A r \in beating' : \E t \in Steps : mine'[t] = r /\ pc'[t] = "compute"
    <3>1. pc \in [Steps -> Labels] /\ pc[s] \in {"audit", "insert"}
      BY <1>1 DEF ClaimInv, TypeOK, InsertAudit, InsertRunning, Goto
    <3>2. ASSUME NEW r \in beating
          PROVE  \E t \in Steps : mine'[t] = r /\ pc'[t] = "compute"
      <4>1. PICK t \in Steps : mine[t] = r /\ pc[t] = "compute"
        BY DEF OwnRows
      <4>2. t # s
        BY <3>1, <4>1
      <4>3. mine'[t] = r /\ pc'[t] = "compute"
        BY <1>1, <2>3, <2>4, <3>1, <4>1, <4>2
           DEF InsertAudit, InsertRunning, Goto
      <4>4. QED
        BY <4>3
    <3>3. CASE InsertAudit(s)
      BY <3>2, <3>3 DEF InsertAudit
    <3>4. CASE InsertRunning(s)
      <4>1. mine'[s] = nextRun /\ pc'[s] = "compute"
        BY <2>3, <2>4, <3>1, <3>4 DEF InsertRunning, Goto
      <4>2. beating' = beating \cup {nextRun}
        BY <3>4 DEF InsertRunning
      <4>3. QED
        BY <3>2, <4>1, <4>2
    <3>5. QED
      BY <1>1, <3>3, <3>4
  <2>8. QED
    BY <2>6, <2>7 DEF OwnRows
<1>2. CASE UNCHANGED <<mine, nextRun, rowKey, beating>>
           /\ \A s \in Steps : pc[s] = "compute" => pc'[s] = "compute"
  BY <1>2 DEF OwnRows
<1>3. ASSUME NEW s \in Steps, ClaimRaises(s) \/ EndPhases(s) \/ Crash(s)
      PROVE  OwnRows'
  BY <1>3 DEF OwnRows, ClaimRaises, EndPhases, Crash, Goto, ClaimInv,
              TypeOK, rows, steps
<1>4. ASSUME NEW r \in Runs, Beat(r)
      PROVE  OwnRows'
  BY <1>4 DEF OwnRows, Beat, steps
<1>5. QED
  <2>1. ASSUME NEW s \in Steps, Claim(s) \/ Record(s),
               ~InsertAudit(s), ~InsertRunning(s)
        PROVE  UNCHANGED <<mine, nextRun, rowKey, beating>>
               /\ \A t \in Steps : pc[t] = "compute" => pc'[t] = "compute"
    BY <2>1
       DEF Claim, Record, ReadNewest, HitRuleMiss, HitRuleHit, ResultLanded,
           InsertRefused, FindHolder, NoHolder, HolderEnded, SeeProgress,
           StallWindowPassed, CloseStalled, CloseLost, RecordCompleted,
           RecordLostClaim, RecordFailed, RecordNothing, TouchSentinel,
           EndRow, EndRows, Goto, rows, steps, ClaimInv, TypeOK
  <2>2. CASE \/ FailPipeline \/ UNCHANGED vars
             \/ \E r \in Runs : LoseOutputs(r) \/ RegainOutputs(r)
             \/ \E c \in Cancels : PickRunning(c) \/ WriteCancelled(c)
    BY <1>2, <2>2
       DEF FailPipeline, LoseOutputs, RegainOutputs, PickRunning,
           WriteCancelled, EndRows, vars, rows, steps
  <2>3. QED
    BY <1>1, <1>2, <1>3, <1>4, <2>1, <2>2 DEF Next

THEOREM RowsOwned == Spec => []OwnRows
<1>1. Init => OwnRows
  BY ClaimAssumption DEF Init, OwnRows, Runs
<1>2. QED
  BY <1>1, OwnRowsNext, ClaimInvariant, PTL DEF Spec

\* Once a step has stopped its heartbeat nothing writes its row's heartbeat
\* again, whatever the other steps do.
THEOREM HeartbeatStops == Spec => HeartbeatOnlyWhileComputing
<1>1. ASSUME ClaimInv, OwnRows, [Next]_vars,
             NEW s \in Steps, mine[s] # 0, pc[s] # "compute"
      PROVE  heartbeat'[mine[s]] = heartbeat[mine[s]]
  <2>1. mine[s] \in Runs /\ mine[s] # nextRun /\ mine[s] \notin beating
    <3>1. mine[s] \in Runs /\ mine[s] < nextRun /\ nextRun \in Int
           /\ mine[s] \in Int
      BY <1>1, ClaimAssumption DEF OwnRows, ClaimInv, TypeOK, RunOrNone, Runs
    <3>2. mine[s] \notin beating
      BY <1>1 DEF OwnRows
    <3>3. mine[s] # nextRun
      BY <3>1
    <3>4. QED
      BY <3>1, <3>2, <3>3
  <2>2. CASE \E r \in Runs : Beat(r)
    <3>1. PICK r \in Runs : Beat(r)
      BY <2>2
    <3>2. r # mine[s]
      BY <2>1, <3>1 DEF Beat
    <3>3. heartbeat \in [Runs -> Beats]
      BY <1>1 DEF ClaimInv, TypeOK
    <3>4. QED
      BY <2>1, <3>1, <3>2, <3>3 DEF Beat
  <2>3. CASE \E t \in Steps : InsertAudit(t) \/ InsertRunning(t)
    BY <1>1, <2>1, <2>3
       DEF InsertAudit, InsertRunning, InsertRow, ClaimInv, TypeOK
  <2>4. CASE UNCHANGED heartbeat
    BY <2>4
  <2>5. QED
    BY <1>1, <2>2, <2>3, <2>4
       DEF Next, Claim, Record, ReadNewest, HitRuleMiss, HitRuleHit,
           ResultLanded, InsertRefused, FindHolder, NoHolder, HolderEnded,
           SeeProgress, StallWindowPassed, CloseStalled, CloseLost,
           ClaimRaises, EndPhases, Crash, RecordCompleted,
           RecordLostClaim, RecordFailed, RecordNothing, TouchSentinel,
           FailPipeline, LoseOutputs, RegainOutputs, PickRunning,
           WriteCancelled, EndRow, EndRows, rows, steps, vars
<1>2. ClaimInv /\ OwnRows /\ [Next]_vars =>
        [\A s \in Steps : mine[s] # 0 /\ pc[s] # "compute"
           => heartbeat'[mine[s]] = heartbeat[mine[s]]]_vars
  BY <1>1
<1>3. QED
  BY <1>2, RowsOwned, ClaimInvariant, PTL
     DEF Spec, HeartbeatOnlyWhileComputing

-----------------------------------------------------------------------------
(* Without cancels.                                                        *)

\* No step but a cancel's write changes a row that ended: an insert writes a
\* fresh row, and every other write of a status is a compare-and-set.
LEMMA EndedRowKept ==
  ASSUME ClaimInv, [Next]_vars, Cancels = {}, NEW r \in Runs,
         status[r] \notin {"absent", "running"}
  PROVE  /\ status'[r] = status[r]
         /\ rowKey'[r] = rowKey[r]
         /\ source'[r] = source[r]
<1> USE DEF rows, steps
<1>1. r # nextRun
  BY DEF ClaimInv, TypeOK, FreshRows
<1>2. CASE \E s \in Steps : InsertAudit(s) \/ InsertRunning(s)
  BY <1>1, <1>2
     DEF InsertAudit, InsertRunning, InsertRow, ClaimInv, TypeOK
<1>3. CASE \/ \E s \in Steps : \/ CloseStalled(s) \/ RecordCompleted(s)
                               \/ RecordFailed(s)
           \/ FailPipeline
  BY <1>3 DEF CloseStalled, RecordCompleted, RecordFailed, FailPipeline,
              InFlight, EndRow, EndRows
<1>4. CASE UNCHANGED <<status, rowKey, source>>
  BY <1>4
<1>5. QED
  BY <1>2, <1>3, <1>4
     DEF Next, Claim, Record, ReadNewest, HitRuleMiss, HitRuleHit,
         ResultLanded, InsertRefused, FindHolder, NoHolder, HolderEnded,
         SeeProgress, StallWindowPassed, CloseLost, ClaimRaises,
         EndPhases, Crash, RecordLostClaim, RecordNothing, TouchSentinel,
         Beat, LoseOutputs, RegainOutputs, vars

\* Without cancels a row that ended keeps its status.
THEOREM EndedRowsKept == Cancels = {} => (Spec => EndedRowsStay)
<1> SUFFICES ASSUME Cancels = {}
             PROVE  Spec => EndedRowsStay
  OBVIOUS
<1>1. ClaimInv /\ [Next]_vars =>
        [\A r \in Runs : status[r] \notin {"absent", "running"}
           => status'[r] = status[r]]_vars
  BY EndedRowKept
<1>2. QED
  BY <1>1, ClaimInvariant, PTL DEF Spec, EndedRowsStay

LEMMA OutcomesNext ==
  ASSUME ClaimInv, OwnRows, Outcomes, [Next]_vars, Cancels = {}
  PROVE  Outcomes'
<1>1. \A k \in Keys : Completed(k) \subseteq Completed(k)'
  BY EndedRowKept DEF Completed
<1>2. AuditNamesResult'
  <2> DEFINE Named(q, r) == /\ q \in Runs /\ q < r
                            /\ status'[q] = "completed"
                            /\ source'[q] = 0
                            /\ rowKey'[q] = rowKey'[r]
  <2> SUFFICES ASSUME NEW r \in Runs, source'[r] # 0
               PROVE  Named(source'[r], r)
    BY DEF AuditNamesResult, Completed
  <2>1. CASE source'[r] = source[r] /\ rowKey'[r] = rowKey[r]
    <3>1. source[r] \in Completed(rowKey[r]) /\ source[r] < r
      BY <2>1 DEF Outcomes, AuditNamesResult
    <3>2. QED
      BY <2>1, <3>1, EndedRowKept DEF Completed
  <2>2. ASSUME NEW s \in Steps, InsertAudit(s), r = nextRun
        PROVE  Named(source'[r], r)
    <3>1. source'[r] = subject[s] /\ rowKey'[r] = KeyOf[s]
      BY <2>2 DEF InsertAudit, InsertRow, ClaimInv, TypeOK
    <3>2. subject[s] \in Completed(KeyOf[s])
      BY <2>2 DEF Outcomes, InsertAudit, Goto
    <3>3. subject[s] < nextRun
      BY <3>2, ClaimAssumption
         DEF Completed, ClaimInv, FreshRows, TypeOK, Runs
    <3>4. QED
      BY <2>2, <3>1, <3>2, <3>3, EndedRowKept DEF Completed
  <2>3. ASSUME NEW s \in Steps, InsertAudit(s) \/ InsertRunning(s),
               r # nextRun
        PROVE  source'[r] = source[r] /\ rowKey'[r] = rowKey[r]
    BY <2>3 DEF InsertAudit, InsertRunning, InsertRow, ClaimInv, TypeOK
  <2>4. ASSUME NEW s \in Steps, InsertRunning(s)
        PROVE  r # nextRun
    BY <2>4 DEF InsertRunning, InsertRow, ClaimInv, TypeOK
  <2>5. CASE UNCHANGED <<source, rowKey>>
    BY <2>1, <2>5
  <2>6. (\E s \in Steps : InsertAudit(s) \/ InsertRunning(s))
          \/ UNCHANGED <<source, rowKey>>
    BY DEF Next, Claim, Record, ReadNewest, HitRuleMiss, HitRuleHit,
           ResultLanded, InsertRefused, FindHolder, NoHolder, HolderEnded,
           SeeProgress, StallWindowPassed, CloseStalled, CloseLost,
           ClaimRaises, EndPhases, Crash, RecordCompleted,
           RecordLostClaim, RecordFailed, RecordNothing, TouchSentinel,
           FailPipeline, Beat, LoseOutputs, RegainOutputs, EndRow, EndRows,
           rows, steps, vars
  <2>7. QED
    BY <2>1, <2>2, <2>3, <2>4, <2>5, <2>6
<1>3. \A s \in Steps : pc'[s] = "audit" => subject'[s] \in Completed(KeyOf[s])'
  <2> SUFFICES ASSUME NEW s \in Steps, pc'[s] = "audit"
               PROVE  subject'[s] \in Completed(KeyOf[s])'
    OBVIOUS
  <2>1. CASE HitRuleHit(s)
    <3>1. subject'[s] \in Completed(KeyOf[s])
      BY <2>1 DEF HitRuleHit, Usable, ClaimInv, TypeOK
    <3>2. QED
      BY <1>1, <3>1, ClaimAssumption
  <2>2. CASE pc[s] = "audit" /\ subject'[s] = subject[s]
    BY <1>1, <2>2, ClaimAssumption DEF Outcomes
  <2>3. QED
    BY <2>1, <2>2
       DEF Next, Claim, Record, ReadNewest, HitRuleMiss, HitRuleHit, InsertAudit,
           InsertRunning, InsertRow,
           ResultLanded, InsertRefused, FindHolder, NoHolder, HolderEnded,
           SeeProgress, StallWindowPassed, CloseStalled, CloseLost,
           ClaimRaises, EndPhases, Crash, RecordCompleted,
           RecordLostClaim, RecordFailed, RecordNothing, TouchSentinel,
           FailPipeline, Beat, LoseOutputs, RegainOutputs, EndRow, EndRows,
           Goto, rows, steps, vars, ClaimInv, TypeOK
<1>4. \A s \in Steps : pc'[s] = "touch" => status'[mine'[s]] = "completed"
  <2> SUFFICES ASSUME NEW s \in Steps, pc'[s] = "touch"
               PROVE  status'[mine'[s]] = "completed"
    OBVIOUS
  <2>1. CASE InsertAudit(s)
    <3>1. nextRun \in Runs
      BY <2>1, InsertInRange DEF InsertAudit, InsertRow, ClaimInv
    <3>2. QED
      BY <2>1, <3>1 DEF InsertAudit, InsertRow, ClaimInv, TypeOK
  <2>2. CASE RecordCompleted(s)
    BY <2>2 DEF RecordCompleted, EndRow, EndRows, Goto, ClaimInv, Placed,
                steps
  <2>3. CASE pc[s] = "touch" /\ mine'[s] = mine[s]
    BY <2>3, EndedRowKept DEF Outcomes, ClaimInv, Placed
  <2>4. QED
    BY <2>1, <2>2, <2>3
       DEF Next, Claim, Record, ReadNewest, HitRuleMiss, HitRuleHit, InsertAudit,
           InsertRunning, InsertRow,
           ResultLanded, InsertRefused, FindHolder, NoHolder, HolderEnded,
           SeeProgress, StallWindowPassed, CloseStalled, CloseLost,
           ClaimRaises, EndPhases, Crash, RecordCompleted,
           RecordLostClaim, RecordFailed, RecordNothing, TouchSentinel,
           FailPipeline, Beat, LoseOutputs, RegainOutputs, EndRow, EndRows,
           Goto, rows, steps, vars, ClaimInv, TypeOK
<1>5. SentinelNamesCompleted'
  <2> SUFFICES ASSUME NEW s \in Steps, sentinel'[s] # 0
               PROVE  /\ status'[sentinel'[s]] = "completed"
                      /\ rowKey'[sentinel'[s]] = KeyOf[s]
    BY DEF SentinelNamesCompleted
  <2>1. CASE sentinel'[s] = sentinel[s]
    <3>1. sentinel[s] \in Runs
      BY <2>1 DEF ClaimInv, TypeOK, RunOrNone
    <3>2. QED
      BY <2>1, <3>1, EndedRowKept DEF Outcomes, SentinelNamesCompleted
  <2>2. CASE TouchSentinel(s)
    <3>1. /\ sentinel'[s] = mine[s] /\ mine[s] \in Runs /\ mine[s] # 0
          /\ status[mine[s]] = "completed"
      BY <2>2 DEF TouchSentinel, Goto, ClaimInv, TypeOK, Placed, Outcomes,
                  Runs
    <3>2. QED
      BY <3>1, EndedRowKept DEF OwnRows
  <2>3. sentinel'[s] = sentinel[s] \/ TouchSentinel(s)
    BY DEF Next, Claim, Record, ReadNewest, HitRuleMiss, HitRuleHit,
           InsertAudit, InsertRunning,
           ResultLanded, InsertRefused, FindHolder, NoHolder, HolderEnded,
           SeeProgress, StallWindowPassed, CloseStalled, CloseLost,
           ClaimRaises, EndPhases, Crash, RecordCompleted,
           RecordLostClaim, RecordFailed, RecordNothing, TouchSentinel,
           FailPipeline, Beat, LoseOutputs, RegainOutputs, vars, ClaimInv,
           TypeOK
  <2>4. QED
    BY <2>1, <2>2, <2>3
<1>6. QED
  BY <1>2, <1>3, <1>4, <1>5 DEF Outcomes

LEMMA OutcomesHold == Cancels = {} => (Spec => []Outcomes)
<1> SUFFICES ASSUME Cancels = {}
             PROVE  Spec => []Outcomes
  OBVIOUS
<1>1. Init => Outcomes
  BY DEF Init, Outcomes, SentinelNamesCompleted, AuditNamesResult
<1>2. ClaimInv /\ OwnRows /\ Outcomes /\ [Next]_vars => Outcomes'
  BY OutcomesNext
<1>3. QED
  BY <1>1, <1>2, ClaimInvariant, RowsOwned, PTL DEF Spec

\* Without cancels a sentinel names a completed run of its step's key.
THEOREM SentinelsNameResults == Cancels = {} => (Spec => []SentinelNamesCompleted)
<1>1. Outcomes => SentinelNamesCompleted
  BY DEF Outcomes
<1>2. QED
  BY <1>1, OutcomesHold, PTL

\* Without cancels a cache-hit audit row stands for an older computed result
\* of its own key.
THEOREM AuditsNameResults == Cancels = {} => (Spec => []AuditNamesResult)
<1>1. Outcomes => AuditNamesResult
  BY DEF Outcomes
<1>2. QED
  BY <1>1, OutcomesHold, PTL
=============================================================================
