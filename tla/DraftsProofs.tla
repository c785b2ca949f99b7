----------------------------- MODULE DraftsProofs -----------------------------
(***************************************************************************)
(* Proofs about Drafts, for any pipelines, tries, drafts and scenes, when  *)
(* the user deletes and registers between steps: nothing of a pipeline     *)
(* that ended is left running, a draft run in progress is never replaced,  *)
(* and a run replaced or deleted takes its dependents along.               *)
(***************************************************************************)
EXTENDS Drafts, TLAPS

\* What is a step, what is a clearer.
LEMMA StepKinds ==
  /\ \A s \in Steps : /\ s[1] \in Pipes /\ s[2] \in DraftsOf(s[1])
                      /\ s[2] \in Drafts /\ s = <<s[1], s[2]>>
  /\ \A p \in Pipes : \A d \in DraftsOf(p) : <<p, d>> \in Steps
  /\ \A p \in Pipes : p # NoPipe /\ DraftsOf(p) \subseteq Drafts
  /\ Steps \subseteq Clearers /\ User \in Clearers
  /\ \A s \in Steps : s # User
  /\ \A c \in Clearers : c \in Steps \/ c = User
<1>1. \A s \in Steps : /\ s[1] \in Pipes /\ s[2] \in DraftsOf(s[1])
                       /\ s = <<s[1], s[2]>>
  BY DEF Steps
<1>2. \A p \in Pipes : \A d \in DraftsOf(p) : <<p, d>> \in Steps
  BY DEF Steps
<1>3. \A p \in Pipes : p # NoPipe /\ DraftsOf(p) \subseteq Drafts
  BY DraftsAssumption
<1>4. \A s \in Steps : s # User
  BY <1>1, <1>3 DEF User
<1>5. QED
  BY <1>1, <1>2, <1>3, <1>4 DEF Clearers

\* The constant records, by their fields.
LEMMA RecordTypes ==
  /\ NoRun \in RunRecords /\ NoRun.pipe = NoPipe /\ NoRun.status = "none"
  /\ Waits \in StepRecords /\ Gone \in StepRecords /\ Cleared \in Clearings
  /\ Waits.at = "waits" /\ Gone.at = "refused" /\ Cleared.at = "none"
  /\ Gone.old = NoRun /\ Waits.old = NoRun /\ Gone.entry = "running"
  /\ Cleared.touched = {}
  /\ \A e \in {"running", "completed", "failed"} :
       /\ Done(e) \in StepRecords /\ Done(e).at = "done" /\ Done(e).old = NoRun
       /\ Done(e).entry = e
  BY DEF NoRun, RunRecords, Waits, StepRecords, Gone, Cleared, Clearings, Done

\* The types of a record's fields.
LEMMA FieldTypes ==
  ASSUME TypeOK
  PROVE  /\ \A s \in Steps :
              /\ step[s] \in StepRecords
              /\ step[s].at \in {"waits", "ready", "writes", "replaced", "folder",
                                 "computes", "ends", "done", "refused"}
              /\ step[s].entry \in {"running", "completed", "failed"}
              /\ step[s].from \subseteq Drafts \X Pipes
              /\ step[s].old \in RunRecords
              /\ step[s].old.pipe \in Pipes \cup {NoPipe}
         /\ \A c \in Clearers :
              /\ clearing[c] \in Clearings
              /\ clearing[c].touched \subseteq Pipes
         /\ \A d \in Drafts : runs[d] \in RunRecords
                              /\ runs[d].pipe \in Pipes \cup {NoPipe}
  BY DEF TypeOK, StepRecords, Clearings, RunRecords

\* The status helper says running or ended.
LEMMA OutcomeType ==
  ASSUME NEW p, NEW o, NEW rs
  PROVE  Outcome(p, o, rs) \in {"running", "ended"}
  BY DEF Outcome

\* The invariant holds at the start.
LEMMA InvInit == Init => RecordsInv
<1> SUFFICES ASSUME Init
             PROVE  RecordsInv
  OBVIOUS
<1> USE StepKinds, RecordTypes DEF Init
<1>1. TypeOK
  BY DraftsAssumption DEF TypeOK, NoPlan, NoResult
<1>2. Working /\ Unstarted /\ RecordsOwned /\ RowsTrue /\ LockHeld
  BY DEF Working, Unstarted, RecordsOwned, Cut, RowsTrue, LockHeld
<1>3. ClearsStarted
  BY DEF ClearsStarted, Runs
<1>4. QED
  BY <1>1, <1>2, <1>3 DEF RecordsInv, NoPlan

\* A record updated in one field is still one.
LEMMA Updates ==
  /\ \A b \in Budgets :
       /\ b.stops > 0 => [b EXCEPT !.stops = @ - 1] \in Budgets
       /\ b.commands > 0 => [b EXCEPT !.commands = @ - 1] \in Budgets
       /\ b.faults > 0 => [b EXCEPT !.faults = @ - 1] \in Budgets
  /\ \A r \in RunRecords : [r EXCEPT !.status = "failed"] \in RunRecords
  /\ \A r \in StepRecords : [r EXCEPT !.at = "folder", !.old = NoRun] \in StepRecords
<1>1. \A r \in RunRecords : [r EXCEPT !.status = "failed"] \in RunRecords
  BY DEF RunRecords
<1>2. \A r \in StepRecords : [r EXCEPT !.at = "folder", !.old = NoRun] \in StepRecords
  BY RecordTypes DEF StepRecords
<1>3. ASSUME NEW b \in Budgets
      PROVE  /\ b.stops > 0 => [b EXCEPT !.stops = @ - 1] \in Budgets
             /\ b.commands > 0 => [b EXCEPT !.commands = @ - 1] \in Budgets
             /\ b.faults > 0 => [b EXCEPT !.faults = @ - 1] \in Budgets
  BY DEF Budgets
<1>4. QED
  BY <1>1, <1>2, <1>3

\* Clearings name drafts, and pipelines that had a record.
LEMMA ListTypes ==
  ASSUME TypeOK, NEW S, NEW p
  PROVE  /\ Dependents(S, p) \subseteq Listed(runs)
         /\ Listed(runs) \subseteq Drafts
         /\ \A T \in SUBSET Drafts : PipesOf(T) \subseteq Pipes
  BY FieldTypes DEF Dependents, Listed, PipesOf, TypeOK

\* The actions of pipelines keep the types.
LEMMA PipelineTypes ==
  ASSUME TypeOK, NEW p \in Pipes,
         \/ Launch(p) \/ OwnerEnds(p) \/ Die(p) \/ BeginClose(p) \/ Close(p)
         \/ \E d \in Drafts : EndRunning(p, d)
  PROVE  TypeOK'
<1>1. CASE Launch(p)
  BY <1>1 DEF Launch, TypeOK
<1>2. CASE OwnerEnds(p)
  <2>1. Outcome(p, owner', runs) \in {"running", "ended"}
    BY OutcomeType
  <2>2. budget' \in Budgets
    BY <1>2, Updates DEF OwnerEnds, CutShort, TypeOK
  <2>3. QED
    BY <1>2, <2>1, <2>2 DEF OwnerEnds, CutShort, TypeOK
<1>3. CASE Die(p)
  <2>1. step' \in [Steps -> StepRecords]
    BY <1>3, RecordTypes DEF Die, Stopped, TypeOK
  <2>2. QED
    BY <1>3, <2>1, Updates DEF Die, TypeOK
<1>4. CASE BeginClose(p)
  <2>1. step' \in [Steps -> StepRecords]
    BY <1>4, RecordTypes DEF BeginClose, Stopped, TypeOK
  <2>2. QED
    BY <1>4, <2>1, ListTypes DEF BeginClose, TypeOK
<1>5. CASE Close(p)
  <2>1. Outcome(p, owner', runs) \in {"running", "ended"}
    BY OutcomeType
  <2>2. budget' \in Budgets
    BY <1>5, Updates DEF Close, CutShort, TypeOK
  <2>3. QED
    BY <1>5, <2>1, <2>2 DEF Close, CutShort, TypeOK
<1>6. ASSUME NEW d \in Drafts, EndRunning(p, d)
      PROVE  TypeOK'
  <2>1. [runs[d] EXCEPT !.status = "failed"] \in RunRecords
    BY Updates DEF TypeOK
  <2>2. QED
    BY <1>6, <2>1 DEF EndRunning, TypeOK
<1>7. QED
  BY <1>1, <1>2, <1>3, <1>4, <1>5, <1>6

\* So do a step's move past its entry ...
LEMMA ContinueType ==
  ASSUME TypeOK, NEW s \in Steps, Continue(s)
  PROVE  step' \in [Steps -> StepRecords]
  BY Updates, RecordTypes, FieldTypes DEF Continue, TypeOK

\* ... the actions of steps ...
LEMMA StepTypes ==
  ASSUME TypeOK, RecordsOwned, NEW s \in Steps,
         \/ Materialize(s) \/ TakeRecord(s) \/ WriteEntry(s) \/ MakeFolder(s)
         \/ Compute(s)
  PROVE  TypeOK'
<1>1. /\ s[1] \in Pipes /\ s[2] \in Drafts /\ s \in Clearers
      /\ step[s] \in StepRecords /\ runs[s[2]] \in RunRecords
  BY StepKinds, FieldTypes
<1>2. CASE Materialize(s)
  <2> DEFINE f == {<<e, runs[e].pipe>> : e \in Reads[s[1]][s[2]]}
  <2>1. Reads[s[1]][s[2]] \subseteq Drafts
    BY DraftsAssumption
  <2>2. CASE step' = [step EXCEPT ![s] = Gone]
    BY <1>2, <2>2, RecordTypes DEF Materialize, TypeOK
  <2>3. CASE step' # [step EXCEPT ![s] = Gone]
    <3>1. /\ \A e \in Reads[s[1]][s[2]] : runs[e].status = "completed"
          /\ step' = [step EXCEPT ![s].at = "ready", ![s].from = f]
      BY <1>2, <2>3 DEF Materialize
    <3>2. f \subseteq Drafts \X Pipes
      <4>1. \A e \in Reads[s[1]][s[2]] : e \in Drafts /\ runs[e].pipe \in Pipes
        BY <2>1, <3>1, RecordTypes DEF RecordsOwned, Cut
      <4>2. QED
        BY <4>1
    <3>3. [step[s] EXCEPT !.at = "ready", !.from = f] \in StepRecords
      BY <1>1, <3>2 DEF StepRecords
    <3>4. step' \in [Steps -> StepRecords]
      BY <3>1, <3>3 DEF TypeOK
    <3>5. QED
      BY <1>2, <3>4 DEF Materialize, TypeOK
  <2>4. QED
    BY <2>2, <2>3
<1>3. CASE TakeRecord(s)
  <2>1. [step[s] EXCEPT !.at = "writes", !.old = runs[s[2]]] \in StepRecords
    BY <1>1 DEF StepRecords
  <2>2. step' \in [Steps -> StepRecords]
    BY <1>3, <2>1, RecordTypes DEF TakeRecord, TypeOK
  <2>3. QED
    BY <1>1, <1>3, <2>2 DEF TakeRecord, TypeOK
<1>4. CASE WriteEntry(s)
  <2>1. step' \in [Steps -> StepRecords]
    <3>1. [step[s] EXCEPT !.at = "replaced"] \in StepRecords
      BY <1>1 DEF StepRecords
    <3>2. CASE Set(s, "replaced")
      BY <3>1, <3>2 DEF Set, TypeOK
    <3>3. QED
      BY <1>4, <3>2, ContinueType DEF WriteEntry
  <2>2. runs' \in [Drafts -> RunRecords]
    <3>1. \A late \in BOOLEAN : [pipe |-> s[1], status |-> step[s].entry,
                                 from |-> step[s].from, late |-> late] \in RunRecords
      BY <1>1, FieldTypes DEF RunRecords
    <3> DEFINE late == IF step[s].old.pipe = s[1] THEN step[s].old.late
                       ELSE \E r \in step[s].from : runs[r[1]].pipe # r[2]
    <3>2. late \in BOOLEAN
      BY <1>1, FieldTypes DEF RunRecords
    <3>3. runs' = [runs EXCEPT ![s[2]] =
                     [pipe |-> s[1], status |-> step[s].entry,
                      from |-> step[s].from, late |-> late]]
      BY <1>4 DEF WriteEntry
    <3> HIDE DEF late
    <3>4. QED
      BY <3>1, <3>2, <3>3 DEF TypeOK
  <2>3. clearing' \in [Clearers -> Clearings]
    <3>1. [Cleared EXCEPT !.at = "list", !.seed = {s[2]}] \in Clearings
      BY <1>1 DEF Cleared, Clearings
    <3>2. QED
      BY <1>1, <1>4, <3>1 DEF WriteEntry, TypeOK
  <2>4. QED
    BY <1>1, <1>4, <2>1, <2>2, <2>3 DEF WriteEntry, TypeOK, NoResult
<1>5. CASE MakeFolder(s)
  <2>1. [step[s] EXCEPT !.at = "computes"] \in StepRecords
    BY <1>1 DEF StepRecords
  <2>2. step' \in [Steps -> StepRecords]
    BY <1>5, <2>1 DEF MakeFolder, Set, TypeOK
  <2>3. QED
    BY <1>1, <1>5, <2>2 DEF MakeFolder, TypeOK
<1>6. CASE Compute(s)
  <2>1. PICK succeeds \in BOOLEAN :
          LET written == IF succeeds /\ results[s[2]].by = s[1]
                         THEN [results[s[2]] EXCEPT !.made = TRUE] ELSE results[s[2]]
              found == IF succeeds /\ written.made THEN "completed" ELSE "failed"
          IN  /\ results' = [results EXCEPT ![s[2]] = written]
              /\ step' = [step EXCEPT ![s].at = "ends", ![s].entry = found]
    BY <1>6 DEF Compute
  <2>2. \A e \in {"completed", "failed"} :
          [step[s] EXCEPT !.at = "ends", !.entry = e] \in StepRecords
    BY <1>1 DEF StepRecords
  <2>3. step' \in [Steps -> StepRecords]
    BY <2>1, <2>2 DEF TypeOK
  <2>4. results' \in [Drafts -> [by : Pipes \cup {NoPipe}, made : BOOLEAN]]
    <3>1. results[s[2]] \in [by : Pipes \cup {NoPipe}, made : BOOLEAN]
      BY <1>1 DEF TypeOK
    <3>2. [results[s[2]] EXCEPT !.made = TRUE]
            \in [by : Pipes \cup {NoPipe}, made : BOOLEAN]
      BY <3>1
    <3>3. QED
      BY <2>1, <3>1, <3>2 DEF TypeOK
  <2>5. QED
    BY <1>6, <2>3, <2>4 DEF Compute, TypeOK
<1>7. QED
  BY <1>2, <1>3, <1>4, <1>5, <1>6

\* ... those of clearings ...
LEMMA ClearTypes ==
  ASSUME TypeOK, RecordsOwned, ClearsStarted, NEW c \in Clearers,
         \/ c \in Steps /\ ListDependents(c)
         \/ ClearOne(c) \/ CountLeft(c) \/ Settle(c)
  PROVE  TypeOK'
<1>1. clearing[c] \in Clearings
  BY FieldTypes
<1>2. CASE c \in Steps /\ ListDependents(c)
  <2> DEFINE later == Dependents(clearing[c].seed, c[1])
             touched == PipesOf(later) \cup {step[c].old.pipe}
  <2>1. later \in SUBSET Drafts /\ touched \in SUBSET Pipes
    BY <1>2, ListTypes DEF ListDependents, ClearsStarted
  <2>2. clearing' = [clearing EXCEPT ![c] =
          [clearing[c] EXCEPT !.at = "clear", !.todo = later, !.touched = touched]]
    BY <1>2 DEF ListDependents
  <2> HIDE DEF later, touched
  <2>3. [clearing[c] EXCEPT !.at = "clear", !.todo = later, !.touched = touched]
          \in Clearings
    BY <1>1, <2>1 DEF Clearings
  <2>4. clearing' \in [Clearers -> Clearings]
    BY <2>2, <2>3 DEF TypeOK
  <2>5. QED
    BY <1>2, <2>4 DEF ListDependents, TypeOK
<1>3. CASE ClearOne(c)
  <2>1. PICK d \in clearing[c].todo :
          /\ runs' = [runs EXCEPT ![d] = NoRun]
          /\ results' = [results EXCEPT ![d] = NoResult]
          /\ clearing' = [clearing EXCEPT ![c].todo = @ \ {d}]
    BY <1>3 DEF ClearOne
  <2>2. [clearing[c] EXCEPT !.todo = @ \ {d}] \in Clearings
    BY <1>1 DEF Clearings
  <2>3. clearing' \in [Clearers -> Clearings]
    BY <2>1, <2>2 DEF TypeOK
  <2>4. /\ runs' \in [Drafts -> RunRecords]
        /\ results' \in [Drafts -> [by : Pipes \cup {NoPipe}, made : BOOLEAN]]
    BY <2>1, RecordTypes DEF TypeOK, NoResult
  <2>5. QED
    BY <1>3, <2>3, <2>4 DEF ClearOne, TypeOK
<1>4. CASE CountLeft(c)
  <2> DEFINE bare == {p \in clearing[c].touched : StepsLeft(p, runs) = {}}
  <2>1. clearing' = [clearing EXCEPT ![c] =
                       [clearing[c] EXCEPT !.at = "settle", !.bare = bare]]
    BY <1>4 DEF CountLeft
  <2>2. bare \subseteq Pipes
    BY FieldTypes
  <2> HIDE DEF bare
  <2>3. [clearing[c] EXCEPT !.at = "settle", !.bare = bare] \in Clearings
    BY <1>1, <2>2 DEF Clearings
  <2>4. clearing' \in [Clearers -> Clearings]
    BY <2>1, <2>3 DEF TypeOK
  <2>5. QED
    BY <1>4, <2>4 DEF CountLeft, TypeOK
<1>5. CASE Settle(c)
  <2>1. row' \in [Pipes -> {"none", "running", "ended", "gone"}]
    BY <1>5, OutcomeType DEF Settle, TypeOK
  <2>2. step' \in [Steps -> StepRecords] /\ user' \in {user, NoPlan}
    BY <1>5, StepKinds, ContinueType DEF Settle, TypeOK, Clearers
  <2>3. QED
    BY <1>5, <2>1, <2>2, RecordTypes DEF Settle, TypeOK, NoPlan
<1>6. QED
  BY <1>2, <1>3, <1>4, <1>5

\* ... the plan of a delete ...
LEMMA PlanTypes ==
  ASSUME TypeOK, NEW d \in Drafts
  PROVE  Plan(d) \in Plans
<1> DEFINE seeds == {d} \cap Listed(runs)
           cleared == seeds \cup (IF seeds = {} THEN {} ELSE Dependents(seeds, NoPipe))
<1>1. cleared \subseteq Drafts
  BY ListTypes
<1>2. /\ {<<e, runs[e]>> : e \in cleared} \subseteq Drafts \X RunRecords
      /\ {p \in PipesOf(cleared) : row[p] \in {"running", "ended"}} \subseteq Pipes
  BY <1>1, ListTypes, FieldTypes
<1>3. Plan(d) = [records |-> {<<e, runs[e]>> : e \in cleared},
                 rows |-> {p \in PipesOf(cleared) : row[p] \in {"running", "ended"}}]
  BY DEF Plan
<1> HIDE DEF cleared
<1>4. QED
  BY <1>2, <1>3 DEF Plans

\* ... its beginning ...
LEMMA BeginTypes ==
  ASSUME TypeOK, NEW d \in Drafts, NEW verb \in {"none", "outputs", "draft"},
         BeginDelete(d, verb)
  PROVE  /\ clearing' \in [Clearers -> Clearings]
         /\ user' \in [at : {"deletes"}, verb : {"none", "outputs", "draft"},
                       draft : SUBSET Drafts, plan : SUBSET Plans]
         /\ clearing'[User].touched \subseteq Pipes
<1> DEFINE seeds == {d} \cap Listed(runs)
           later == IF seeds = {} THEN {} ELSE Dependents(seeds, NoPipe)
           begun == [at |-> "list", seed |-> {d}, todo |-> later,
                     touched |-> PipesOf(seeds \cup later), bare |-> {}]
<1>1. seeds \cup later \subseteq Drafts
  BY ListTypes
<1>2. PipesOf(seeds \cup later) \subseteq Pipes
  BY <1>1, ListTypes
<1>3. clearing' = [clearing EXCEPT ![User] = begun]
  BY DEF BeginDelete
<1>4. begun \in Clearings
  <2> HIDE DEF seeds, later
  <2>1. QED
    BY <1>1, <1>2 DEF Clearings
<1>5. user' = [at |-> "deletes", verb |-> verb, draft |-> {d}, plan |-> {}]
  BY DEF BeginDelete
<1> HIDE DEF begun
<1>6. QED
  BY <1>3, <1>4, <1>5, StepKinds, FieldTypes DEF TypeOK, Clearings

\* ... and the user's commands.
LEMMA UserTypes ==
  ASSUME TypeOK, UserActs
  PROVE  TypeOK'
<1>1. ASSUME NEW d \in Drafts, NEW verb \in {"outputs", "draft"},
             PlanDelete(d, verb)
      PROVE  TypeOK'
  <2>1. budget' \in Budgets
    BY <1>1, Updates DEF PlanDelete, TypeOK
  <2>2. QED
    BY <1>1, <2>1, PlanTypes DEF PlanDelete, TypeOK
<1>2. ASSUME NEW d \in Drafts, BeginRegister(d)
      PROVE  TypeOK'
  <2>1. budget' \in Budgets
    BY <1>2, Updates DEF BeginRegister, TypeOK
  <2>2. QED
    BY <1>2, <2>1, BeginTypes DEF BeginRegister, TypeOK
<1>3. CASE ApplyDelete
  <2>1. PICK d \in user.draft :
          \/ BeginDelete(d, user.verb)
          \/ user' = NoPlan /\ UNCHANGED clearing
    BY <1>3 DEF ApplyDelete
  <2>2. d \in Drafts /\ user.verb \in {"none", "outputs", "draft"}
    BY DEF TypeOK
  <2>3. CASE user' = NoPlan /\ UNCHANGED clearing
    BY <1>3, <2>3 DEF ApplyDelete, TypeOK, NoPlan
  <2>4. CASE BeginDelete(d, user.verb)
    BY <1>3, <2>2, <2>4, BeginTypes DEF ApplyDelete, TypeOK
  <2>5. QED
    BY <2>1, <2>3, <2>4
<1>4. CASE RefuseRegister
  BY <1>4, StepKinds, RecordTypes DEF RefuseRegister, TypeOK, NoPlan
<1>5. CASE DeleteFolder
  <2>1. PICK d \in user.draft :
          /\ runs' = [runs EXCEPT ![d] = NoRun]
          /\ results' = [results EXCEPT ![d] = NoResult]
          /\ lock' = [lock EXCEPT ![d] = NoPipe]
          /\ pointer' \subseteq pointer
    BY <1>5 DEF DeleteFolder
  <2>2. [clearing[User] EXCEPT !.at = "clear"] \in Clearings
    BY StepKinds, FieldTypes DEF Clearings
  <2>3. clearing' \in [Clearers -> Clearings]
    BY <1>5, <2>2 DEF DeleteFolder, TypeOK
  <2>4. QED
    BY <1>5, <2>1, <2>3, RecordTypes DEF DeleteFolder, TypeOK, NoResult
<1>6. QED
  BY <1>1, <1>2, <1>3, <1>4, <1>5 DEF UserActs

\* A pipeline that has a record started.
LEMMA ListedStarted ==
  ASSUME TypeOK, RecordsOwned, NEW T, T \subseteq Listed(runs)
  PROVE  \A p \in PipesOf(T) : Started(p)
<1> SUFFICES ASSUME NEW d \in T
             PROVE  Started(runs[d].pipe)
  BY DEF PipesOf
<1>1. d \in Drafts /\ runs[d] # NoRun
  BY DEF Listed, TypeOK
<1>2. QED
  BY <1>1 DEF RecordsOwned, Cut, Started

\* A delete touches pipelines that had a record.
LEMMA BeginStarted ==
  ASSUME TypeOK, RecordsOwned, NEW d \in Drafts, NEW verb, BeginDelete(d, verb)
  PROVE  /\ \A p \in clearing'[User].touched : Started(p)
         /\ \A s \in Steps : clearing'[s] = clearing[s]
         /\ user'.at = "deletes"
<1> DEFINE seeds == {d} \cap Listed(runs)
           later == IF seeds = {} THEN {} ELSE Dependents(seeds, NoPipe)
           begun == [at |-> "list", seed |-> {d}, todo |-> later,
                     touched |-> PipesOf(seeds \cup later), bare |-> {}]
<1>1. seeds \cup later \subseteq Listed(runs)
  BY ListTypes
<1>2. \A p \in begun.touched : Started(p)
  BY <1>1, ListedStarted
<1>3. clearing' = [clearing EXCEPT ![User] = begun] /\ user'.at = "deletes"
  BY DEF BeginDelete
<1> HIDE DEF begun
<1>4. QED
  BY <1>2, <1>3, StepKinds DEF TypeOK

-----------------------------------------------------------------------------
\* A pipeline is launched: none of its steps has started.
LEMMA LaunchKeeps ==
  ASSUME RecordsInv, QuietDeletes, NEW p \in Pipes, Launch(p)
  PROVE  RecordsInv'
<1> USE StepKinds, RecordTypes DEF RecordsInv, TypeOK, Runs
<1>1. TypeOK'
  BY PipelineTypes
<1>2. Working'
  BY DEF Launch, Working
<1>3. Unstarted'
  BY DEF Launch, Unstarted
<1>4. \A t \in Steps : Written(t) => Written(t)'
  BY DEF Launch, Written, Working
<1>5. \A q \in Pipes : Started(q) => Started(q)'
  BY <1>4 DEF Started
<1>6. RecordsOwned'
  BY <1>4 DEF Launch, RecordsOwned, Cut, InHand, Working
<1>7. RowsTrue'
  BY <1>4 DEF Launch, RowsTrue
<1>8. LockHeld'
  BY DEF Launch, LockHeld, Cut
<1>9. ClearsStarted'
  BY <1>5, FieldTypes DEF Launch, ClearsStarted, Unstarted
<1>10. (user.at \in {"deletes", "clears"} => StepsIdle)'
  BY DEF Launch, StepsIdle, Working, MayDelete
<1>11. QED
  BY <1>1, <1>2, <1>3, <1>6, <1>7, <1>8, <1>9, <1>10

\* The owner ends once every step of it is over.
LEMMA OwnerEndsKeeps ==
  ASSUME RecordsInv, QuietDeletes, NEW p \in Pipes, OwnerEnds(p)
  PROVE  RecordsInv'
<1> USE StepKinds, RecordTypes DEF RecordsInv, TypeOK, Runs
<1>1. TypeOK'
  BY PipelineTypes
<1>2. Working'
  BY DEF OwnerEnds, CutShort, EngineExited, Over, Working
<1>3. Unstarted'
  BY DEF OwnerEnds, CutShort, EngineExited, Over, Unstarted
<1>4. \A t \in Steps : Written(t) => Written(t)'
  BY DEF OwnerEnds, CutShort, EngineExited, Over, Written, Working
<1>5. \A q \in Pipes : Started(q) => Started(q)'
  BY <1>4 DEF Started
<1>6. RecordsOwned'
  BY <1>4 DEF OwnerEnds, CutShort, EngineExited, Over, RecordsOwned, Cut, InHand, Working
<1>7. RowsTrue'
  <2>1. \A d \in DraftsOf(p) : Written(<<p, d>>)'
    BY DEF OwnerEnds, CutShort, Written
  <2>2. QED
    BY <1>4, <2>1 DEF OwnerEnds, CutShort, RowsTrue
<1>8. LockHeld'
  <2>1. /\ \A q \in Pipes : Cut(q) => Cut(q)'
        /\ UNCHANGED <<step, runs, lock>>
    BY DEF OwnerEnds, CutShort, Cut
  <2>2. \A d \in Drafts : runs[d].status = "running" => runs[d].pipe \in Pipes
    BY DEF RecordsOwned
  <2>3. QED
    BY <2>1, <2>2 DEF LockHeld
<1>9. ClearsStarted'
  BY <1>5, FieldTypes DEF OwnerEnds, CutShort, EngineExited, Over, ClearsStarted
<1>10. (user.at \in {"deletes", "clears"} => StepsIdle)'
  BY DEF OwnerEnds, CutShort, EngineExited, Over, StepsIdle, Working, MayDelete
<1>11. QED
  BY <1>1, <1>2, <1>3, <1>6, <1>7, <1>8, <1>9, <1>10

\* The process dies with its steps: what they left running is still to be ended.
LEMMA DieKeeps ==
  ASSUME RecordsInv, QuietDeletes, NEW p \in Pipes, Die(p)
  PROVE  RecordsInv'
<1> USE StepKinds, RecordTypes DEF RecordsInv, TypeOK, Runs
<1>1. TypeOK'
  BY PipelineTypes
<1>2. Working'
  BY DEF Die, Stopped, Working
<1>3. Unstarted'
  BY DEF Die, Stopped, Unstarted
<1>4. \A t \in Steps : Written(t) => Written(t)'
  BY DEF Die, Stopped, Written, Working
<1>5. \A q \in Pipes : Started(q) => Started(q)'
  BY <1>4 DEF Started
<1>6. RecordsOwned'
  BY <1>4 DEF Die, Stopped, RecordsOwned, Cut, InHand, Working
<1>7. RowsTrue'
  BY <1>4 DEF Die, Stopped, RowsTrue
<1>8. LockHeld'
  BY DEF Die, Stopped, LockHeld, Cut
<1>9. ClearsStarted'
  BY <1>5, FieldTypes DEF Die, Stopped, ClearsStarted
<1>10. (user.at \in {"deletes", "clears"} => StepsIdle)'
  BY DEF Die, Stopped, StepsIdle, Working, MayDelete
<1>11. QED
  BY <1>1, <1>2, <1>3, <1>6, <1>7, <1>8, <1>9, <1>10

\* A close-out begins by listing the drafts: those left running are among them.
LEMMA BeginCloseKeeps ==
  ASSUME RecordsInv, QuietDeletes, NEW p \in Pipes, BeginClose(p)
  PROVE  RecordsInv'
<1> USE StepKinds, RecordTypes DEF RecordsInv, TypeOK, Runs
<1>1. TypeOK'
  BY PipelineTypes
<1>2. Working'
  BY DEF BeginClose, Stopped, Listed, Working
<1>3. Unstarted'
  BY DEF BeginClose, Stopped, Listed, Unstarted
<1>4. \A t \in Steps : Written(t) => Written(t)'
  BY DEF BeginClose, Stopped, Listed, Written, Working
<1>5. \A q \in Pipes : Started(q) => Started(q)'
  BY <1>4 DEF Started
<1>6. RecordsOwned'
  BY <1>4 DEF BeginClose, Stopped, Listed, RecordsOwned, Cut, InHand, Working
<1>7. RowsTrue'
  BY <1>4 DEF BeginClose, Stopped, Listed, RowsTrue
<1>8. LockHeld'
  BY DEF BeginClose, Stopped, Listed, LockHeld, Cut
<1>9. ClearsStarted'
  BY <1>5, FieldTypes DEF BeginClose, Stopped, Listed, ClearsStarted
<1>10. (user.at \in {"deletes", "clears"} => StepsIdle)'
  BY DEF BeginClose, Stopped, Listed, StepsIdle, Working, MayDelete
<1>11. QED
  BY <1>1, <1>2, <1>3, <1>6, <1>7, <1>8, <1>9, <1>10

\* A draft is looked at: its running step of the pipeline is ended.
LEMMA EndRunningKeeps ==
  ASSUME RecordsInv, QuietDeletes, NEW p \in Pipes, NEW d \in Drafts, EndRunning(p, d)
  PROVE  RecordsInv'
<1> USE StepKinds, RecordTypes DEF RecordsInv, TypeOK, Runs
<1>1. TypeOK'
  BY PipelineTypes
<1>2. Working'
  BY DEF EndRunning, Working
<1>3. Unstarted'
  BY DEF EndRunning, Unstarted
<1>4. \A t \in Steps : Written(t) => Written(t)'
  BY DEF EndRunning, Written, Working
<1>5. \A q \in Pipes : Started(q) => Started(q)'
  BY <1>4 DEF Started
<1>6. RecordsOwned'
  BY <1>4 DEF EndRunning, RecordsOwned, Cut, InHand, Working
<1>7. RowsTrue'
  BY <1>4 DEF EndRunning, RowsTrue
<1>8. LockHeld'
  BY DEF EndRunning, LockHeld, Cut
<1>9. ClearsStarted'
  BY <1>5, FieldTypes DEF EndRunning, ClearsStarted
<1>10. (user.at \in {"deletes", "clears"} => StepsIdle)'
  BY DEF EndRunning, StepsIdle, Working, MayDelete
<1>11. QED
  BY <1>1, <1>2, <1>3, <1>6, <1>7, <1>8, <1>9, <1>10

\* A close-out ends when every draft was looked at.
LEMMA CloseKeeps ==
  ASSUME RecordsInv, QuietDeletes, NEW p \in Pipes, Close(p)
  PROVE  RecordsInv'
<1> USE StepKinds, RecordTypes DEF RecordsInv, TypeOK, Runs
<1>1. TypeOK'
  BY PipelineTypes
<1>2. Working'
  BY DEF Close, CutShort, Working
<1>3. Unstarted'
  BY DEF Close, CutShort, Unstarted
<1>4. \A t \in Steps : Written(t) => Written(t)'
  BY DEF Close, CutShort, Written, Working
<1>5. \A q \in Pipes : Started(q) => Started(q)'
  BY <1>4 DEF Started
<1>6. RecordsOwned'
  BY <1>4 DEF Close, CutShort, RecordsOwned, Cut, InHand, Working
<1>7. RowsTrue'
  <2>1. \A d \in DraftsOf(p) : Written(<<p, d>>)'
    BY DEF Close, CutShort, Written
  <2>2. QED
    BY <1>4, <2>1 DEF Close, CutShort, RowsTrue
<1>8. LockHeld'
  <2>1. /\ \A q \in Pipes : Cut(q) => Cut(q)'
        /\ UNCHANGED <<step, runs, lock>>
    BY DEF Close, CutShort, Cut
  <2>2. \A d \in Drafts : runs[d].status = "running" => runs[d].pipe \in Pipes
    BY DEF RecordsOwned
  <2>3. QED
    BY <2>1, <2>2 DEF LockHeld
<1>9. ClearsStarted'
  BY <1>5, FieldTypes DEF Close, CutShort, ClearsStarted
<1>10. (user.at \in {"deletes", "clears"} => StepsIdle)'
  BY DEF Close, CutShort, StepsIdle, Working, MayDelete
<1>11. QED
  BY <1>1, <1>2, <1>3, <1>6, <1>7, <1>8, <1>9, <1>10

\* A step whose inputs are read goes on, or is refused.
LEMMA MaterializeMoves ==
  ASSUME TypeOK, NEW s \in Steps, Materialize(s)
  PROVE  /\ \A t \in Steps \ {s} : step'[t] = step[t]
         /\ step'[s].old = step[s].old \/ step'[s].old = NoRun
         /\ step'[s].at = "refused" \/ (step'[s].at = "ready" /\ s[2] \in pointer)
<1>1. step \in [Steps -> StepRecords]
  BY DEF TypeOK
<1>2. CASE step' = [step EXCEPT ![s] = Gone]
  <2>1. step'[s] = Gone /\ \A t \in Steps \ {s} : step'[t] = step[t]
    BY <1>1, <1>2
  <2>2. QED
    BY <2>1, RecordTypes
<1>3. CASE step' # [step EXCEPT ![s] = Gone]
  <2> DEFINE f == {<<e, runs[e].pipe>> : e \in Reads[s[1]][s[2]]}
  <2>1. /\ s[2] \in pointer
        /\ step' = [step EXCEPT ![s] = [step[s] EXCEPT !.at = "ready", !.from = f]]
    BY <1>3 DEF Materialize
  <2>2. \A g : LET r == [step[s] EXCEPT !.at = "ready", !.from = g]
               IN  r.at = "ready" /\ r.old = step[s].old
    BY FieldTypes DEF StepRecords
  <2> HIDE DEF f
  <2>3. /\ step'[s] = [step[s] EXCEPT !.at = "ready", !.from = f]
        /\ \A t \in Steps \ {s} : step'[t] = step[t]
    BY <1>1, <2>1
  <2>4. QED
    BY <2>1, <2>2, <2>3
<1>4. QED
  BY <1>2, <1>3

\* The inputs are read, or the step is refused.
LEMMA MaterializeKeeps ==
  ASSUME RecordsInv, QuietDeletes, NEW s \in Steps, Materialize(s)
  PROVE  RecordsInv'
<1> USE StepKinds, RecordTypes DEF RecordsInv, TypeOK, Runs
<1>1. TypeOK'
  BY StepTypes
<1>2. /\ \A t \in Steps \ {s} : step'[t] = step[t]
      /\ step'[s].old = step[s].old \/ step'[s].old = NoRun
      /\ step'[s].at = "refused" \/ (step'[s].at = "ready" /\ s[2] \in pointer)
  BY MaterializeMoves
<1>3. /\ Runs(s[1]) /\ step[s].at = "waits"
      /\ ~(user.at \in {"deletes", "clears"})
      /\ UNCHANGED <<pointer, runs, results, lock, row, owner, closing, clearing,
                     user, budget>>
  BY DEF Materialize, DeletesQuietly
<1>4. Working'
  BY <1>2, <1>3 DEF Working
<1>5. Unstarted'
  BY <1>2, <1>3 DEF Unstarted
<1>6. \A t \in Steps : Written(t) => Written(t)'
  BY <1>2, <1>3 DEF Written
<1>7. RecordsOwned'
  BY <1>2, <1>3, <1>6 DEF RecordsOwned, Cut, InHand
<1>8. RowsTrue'
  BY <1>3, <1>6 DEF RowsTrue
<1>9. LockHeld'
  BY <1>2, <1>3 DEF LockHeld, Cut
<1>10. ClearsStarted'
  <2>1. \A q \in Pipes : Started(q) => Started(q)'
    BY <1>6 DEF Started
  <2>2. \A t \in Steps, q \in Pipes : step'[t].old.pipe = q => Started(q)'
    BY <1>2, <2>1, FieldTypes DEF ClearsStarted
  <2>3. \A t \in Steps : clearing[t].at # "none" /\ Runs(t[1]) => t # s
    BY <1>3 DEF ClearsStarted
  <2>4. \A c \in Clearers : \A p \in clearing'[c].touched : Started(p)'
    BY <1>3, <2>1, FieldTypes DEF ClearsStarted
  <2>5. \A t \in Steps : step'[t].old.pipe # NoPipe => Started(step[t].old.pipe)'
    BY <1>2, <2>2, FieldTypes
  <2>6. QED
    BY <1>2, <1>3, <2>3, <2>4, <2>5 DEF ClearsStarted
<1>11. QED
  BY <1>1, <1>3, <1>4, <1>5, <1>7, <1>8, <1>9, <1>10

\* The record's lock is taken, unless another pipeline's run is in progress.
LEMMA TakeRecordKeeps ==
  ASSUME RecordsInv, QuietDeletes, NEW s \in Steps, TakeRecord(s)
  PROVE  RecordsInv'
<1> USE StepKinds, RecordTypes DEF RecordsInv, TypeOK, Runs
<1>1. TypeOK'
  BY StepTypes
<1>2. /\ \A t \in Steps \ {s} : step'[t] = step[t]
      /\ \/ /\ step'[s] = Gone /\ lock' = lock /\ runs[s[2]].pipe # s[1]
         \/ /\ step'[s].at = "writes" /\ step'[s].entry = step[s].entry
            /\ step'[s].old = runs[s[2]] /\ lock' = [lock EXCEPT ![s[2]] = s[1]]
            /\ ~InProgress(s[2], s[1])
  <2>1. CASE InProgress(s[2], s[1])
    BY <2>1 DEF TakeRecord, InProgress
  <2>2. CASE ~InProgress(s[2], s[1])
    <3>1. /\ step' = [step EXCEPT ![s].at = "writes", ![s].old = runs[s[2]]]
          /\ lock' = [lock EXCEPT ![s[2]] = s[1]]
      BY <2>2 DEF TakeRecord
    <3>2. LET r == [step[s] EXCEPT !.at = "writes", !.old = runs[s[2]]]
          IN  r.at = "writes" /\ r.old = runs[s[2]] /\ r.entry = step[s].entry
      BY FieldTypes DEF StepRecords
    <3>3. QED
      BY <2>2, <3>1, <3>2
  <2>3. QED
    BY <2>1, <2>2
<1>3. /\ Runs(s[1]) /\ step[s].at \in {"ready", "ends"} /\ lock[s[2]] = NoPipe
      /\ UNCHANGED <<pointer, runs, results, row, owner, closing, clearing, user,
                     budget>>
  BY DEF TakeRecord
<1>4. Working'
  BY <1>2, <1>3 DEF Working
<1>5. Unstarted'
  BY <1>2, <1>3 DEF Unstarted
<1>6. \A t \in Steps : Written(t) => Written(t)'
  <2>1. Written(s) => Written(s)'
    BY <1>2, <1>3 DEF Written, Working
  <2>2. \A t \in Steps \ {s} : Written(t) => Written(t)'
    BY <1>2, <1>3 DEF Written
  <2>3. QED
    BY <2>1, <2>2
<1>7. RecordsOwned'
  <2> SUFFICES ASSUME NEW d \in Drafts, runs[d] # NoRun
               PROVE  LET q == runs[d].pipe
                      IN  /\ q \in Pipes /\ d \in DraftsOf(q) /\ d \in pointer
                          /\ Written(<<q, d>>)'
                          /\ runs[d].status = "running" /\ ~Cut(q) =>
                               /\ row[q] # "ended"
                               /\ \/ Runs(q) /\ InHand(<<q, d>>)'
                                  \/ owner[q] = "dead"
                                  \/ owner[q] = "closes" /\ d \in closing[q]
    BY <1>3 DEF RecordsOwned, Cut
  <2>1. CASE <<runs[d].pipe, d>> = s
    <3>1. step[s].at = "ends"
      BY <1>3, <2>1 DEF RecordsOwned, Cut, Written
    <3>2. step'[s].at = "writes" /\ step'[s].entry # "running"
      BY <1>2, <2>1, <3>1 DEF Working
    <3>3. InHand(<<runs[d].pipe, d>>)' /\ Runs(runs[d].pipe)
      BY <1>3, <2>1, <3>2 DEF InHand
    <3>4. QED
      BY <1>3, <1>6, <3>3 DEF RecordsOwned, Cut
  <2>2. CASE <<runs[d].pipe, d>> # s
    <3>1. /\ <<runs[d].pipe, d>> \in Steps
          /\ InHand(<<runs[d].pipe, d>>) => InHand(<<runs[d].pipe, d>>)'
      BY <1>2, <1>3, <2>2 DEF RecordsOwned, Cut, InHand
    <3>2. QED
      BY <1>3, <1>6, <3>1 DEF RecordsOwned, Cut
  <2>3. QED
    BY <2>1, <2>2
<1>8. RowsTrue'
  BY <1>3, <1>6 DEF RowsTrue
<1>9. LockHeld'
  <2>1. ~InProgress(s[2], s[1]) /\ runs[s[2]].pipe # s[1]
          => (runs[s[2]].status = "running" => Cut(runs[s[2]].pipe))
    BY DEF InProgress, PipelineRunning, RecordsOwned, Cut
  <2>2. \A t \in Steps \ {s} : step[t].at = "writes" => t[2] # s[2]
    BY <1>3 DEF LockHeld, Cut
  <2>3. QED
    BY <1>2, <1>3, <2>1, <2>2 DEF LockHeld, Cut
<1>10. ClearsStarted'
  <2>1. \A q \in Pipes : Started(q) => Started(q)'
    BY <1>6 DEF Started
  <2>2. \A t \in Steps : step'[t].old.pipe # NoPipe =>
          step'[t].old.pipe \in Pipes /\ Started(step'[t].old.pipe)
    <3>1. runs[s[2]].pipe # NoPipe =>
            runs[s[2]].pipe \in Pipes /\ Started(runs[s[2]].pipe)
      BY DEF RecordsOwned, Cut, Started
    <3>2. QED
      BY <1>2, <3>1, FieldTypes DEF ClearsStarted
  <2>3. \A t \in Steps : clearing[t].at # "none" /\ Runs(t[1]) => t # s
    BY <1>3 DEF ClearsStarted
  <2>4. QED
    BY <1>2, <1>3, <2>1, <2>2, <2>3, FieldTypes DEF ClearsStarted
<1>11. (user.at \in {"deletes", "clears"} => StepsIdle)'
  BY <1>3 DEF StepsIdle
<1>12. QED
  BY <1>1, <1>4, <1>5, <1>7, <1>8, <1>9, <1>10, <1>11

\* Past its entry a step starts its container, or is done.
LEMMA ContinueMoves ==
  ASSUME TypeOK, NEW s \in Steps, Continue(s)
  PROVE  /\ \A t \in Steps \ {s} : step'[t] = step[t]
         /\ step'[s].old = NoRun /\ step'[s].entry = step[s].entry
         /\ step'[s].at = IF step[s].entry = "running" THEN "folder" ELSE "done"
<1>1. step \in [Steps -> StepRecords]
  BY DEF TypeOK
<1> DEFINE r == [step[s] EXCEPT !.at = "folder", !.old = NoRun]
<1>2. r.at = "folder" /\ r.old = NoRun /\ r.entry = step[s].entry
  BY FieldTypes DEF StepRecords
<1>3. step' = [step EXCEPT ![s] = IF step[s].entry = "running" THEN r
                                  ELSE Done(step[s].entry)]
  BY DEF Continue
<1> HIDE DEF r
<1>4. /\ step'[s] = IF step[s].entry = "running" THEN r ELSE Done(step[s].entry)
      /\ \A t \in Steps \ {s} : step'[t] = step[t]
  BY <1>1, <1>3
<1>5. QED
  BY <1>2, <1>4, RecordTypes, FieldTypes

\* The entry is written: the step has a record to clear after, or goes on.
LEMMA WriteEntryMoves ==
  ASSUME TypeOK, NEW s \in Steps, WriteEntry(s)
  PROVE  /\ step[s].at = "writes" /\ Runs(s[1])
         /\ \A t \in Steps \ {s} : step'[t] = step[t]
         /\ step'[s].entry = step[s].entry
         /\ \/ /\ step'[s].at = "replaced" /\ step'[s].old = step[s].old
               /\ step[s].old # NoRun
               /\ clearing'[s].touched = {}
               /\ \A c \in Clearers \ {s} : clearing'[c] = clearing[c]
            \/ /\ step'[s].at = IF step[s].entry = "running" THEN "folder" ELSE "done"
               /\ step'[s].old = NoRun /\ clearing' = clearing
         /\ runs'[s[2]].pipe = s[1] /\ runs'[s[2]].status = step[s].entry
         /\ \A d \in Drafts \ {s[2]} : runs'[d] = runs[d]
         /\ lock' = [lock EXCEPT ![s[2]] = NoPipe]
         /\ UNCHANGED <<pointer, row, owner, closing, user, budget>>
<1>1. /\ step \in [Steps -> StepRecords] /\ runs \in [Drafts -> RunRecords]
      /\ clearing \in [Clearers -> Clearings] /\ s \in Clearers /\ s[2] \in Drafts
  BY StepKinds DEF TypeOK
<1>2. CASE step[s].old # NoRun /\ step[s].old.pipe # s[1]
  <2> DEFINE r == [step[s] EXCEPT !.at = "replaced"]
             c == [Cleared EXCEPT !.at = "list", !.seed = {s[2]}]
  <2>1. r.at = "replaced" /\ r.old = step[s].old /\ r.entry = step[s].entry
    BY FieldTypes DEF StepRecords
  <2>2. c.touched = {}
    BY DEF Cleared
  <2>3. step' = [step EXCEPT ![s] = r] /\ clearing' = [clearing EXCEPT ![s] = c]
    BY <1>2 DEF WriteEntry, Set
  <2> HIDE DEF r, c
  <2>4. /\ step'[s] = r /\ clearing'[s] = c
        /\ \A t \in Steps \ {s} : step'[t] = step[t]
        /\ \A t \in Clearers \ {s} : clearing'[t] = clearing[t]
    BY <1>1, <2>3
  <2>5. QED
    BY <1>1, <1>2, <2>1, <2>2, <2>4 DEF WriteEntry
<1>3. CASE ~(step[s].old # NoRun /\ step[s].old.pipe # s[1])
  <2>1. Continue(s) /\ clearing' = clearing
    BY <1>3 DEF WriteEntry
  <2>2. QED
    BY <1>1, <2>1, ContinueMoves DEF WriteEntry
<1>4. QED
  BY <1>2, <1>3

\* An entry is written by the lock's holder.
LEMMA WriteEntryKeeps ==
  ASSUME RecordsInv, QuietDeletes, NEW s \in Steps, WriteEntry(s)
  PROVE  RecordsInv'
<1>1. TypeOK /\ TypeOK'
  BY StepTypes DEF RecordsInv
<1> USE StepKinds, RecordTypes DEF Runs
<1>2. /\ step[s].at = "writes" /\ Runs(s[1])
      /\ \A t \in Steps \ {s} : step'[t] = step[t]
      /\ step'[s].entry = step[s].entry
      /\ \/ /\ step'[s].at = "replaced" /\ step'[s].old = step[s].old
            /\ step[s].old # NoRun
            /\ clearing'[s].touched = {}
            /\ \A c \in Clearers \ {s} : clearing'[c] = clearing[c]
         \/ /\ step'[s].at = IF step[s].entry = "running" THEN "folder" ELSE "done"
            /\ step'[s].old = NoRun /\ clearing' = clearing
      /\ runs'[s[2]].pipe = s[1] /\ runs'[s[2]].status = step[s].entry
      /\ \A d \in Drafts \ {s[2]} : runs'[d] = runs[d]
      /\ lock' = [lock EXCEPT ![s[2]] = NoPipe]
      /\ UNCHANGED <<pointer, row, owner, closing, user, budget>>
  BY <1>1, WriteEntryMoves
<1>3. Working'
  BY <1>2 DEF RecordsInv, Working
<1>4. Unstarted'
  <2>1. \A t \in Steps : owner[t[1]] = "none" => t # s
    BY <1>2
  <2>2. QED
    BY <1>2, <2>1 DEF RecordsInv, Unstarted
<1>5. \A t \in Steps : Written(t) => Written(t)'
  BY <1>2 DEF Written
<1>6. Written(s)'
  BY <1>2 DEF Written
<1>7. RecordsOwned'
  <2> SUFFICES ASSUME NEW d \in Drafts, runs'[d] # NoRun, NEW q, q = runs'[d].pipe
               PROVE  /\ q \in Pipes /\ d \in DraftsOf(q) /\ d \in pointer
                      /\ Written(<<q, d>>)'
                      /\ runs'[d].status = "running" /\ ~Cut(q) =>
                           /\ row[q] # "ended"
                           /\ \/ Runs(q) /\ InHand(<<q, d>>)'
                              \/ owner[q] = "dead"
                              \/ owner[q] = "closes" /\ d \in closing[q]
    BY <1>2 DEF RecordsOwned, Cut
  <2>1. CASE d = s[2]
    <3>1. q = s[1] /\ <<q, d>> = s /\ d \in pointer
      BY <1>2, <2>1 DEF RecordsInv, Working
    <3>2. ASSUME step[s].entry = "running"
          PROVE  row[q] # "ended" /\ InHand(s)'
      BY <1>2, <3>1, <3>2 DEF RecordsInv, RowsTrue, Written, InHand
    <3>3. QED
      BY <1>2, <1>6, <2>1, <3>1, <3>2
  <2>2. CASE d # s[2]
    <3>1. runs'[d] = runs[d] /\ <<q, d>> \in Steps /\ <<q, d>> # s
      BY <1>2, <2>2 DEF RecordsInv, RecordsOwned, Cut
    <3>2. InHand(<<q, d>>) => InHand(<<q, d>>)'
      BY <1>2, <3>1 DEF InHand
    <3>3. QED
      BY <1>2, <1>5, <3>1, <3>2 DEF RecordsInv, RecordsOwned, Cut
  <2>3. QED
    BY <2>1, <2>2
<1>8. RowsTrue'
  BY <1>2, <1>5 DEF RecordsInv, RowsTrue
<1>9. LockHeld'
  <2>1. \A t \in Steps \ {s} : step[t].at = "writes" => t[2] # s[2]
    BY <1>2 DEF RecordsInv, LockHeld, Cut
  <2>2. \A t \in Steps \ {s} : step[t].at = "writes" => lock'[t[2]] = lock[t[2]]
    BY <1>1, <1>2, <2>1 DEF TypeOK
  <2>3. QED
    BY <1>2, <2>1, <2>2 DEF RecordsInv, LockHeld, Cut
<1>10. ClearsStarted'
  <2>1. \A q \in Pipes : Started(q) => Started(q)'
    BY <1>5 DEF Started
  <2>2. \A t \in Steps : step'[t].old.pipe # NoPipe => Started(step[t].old.pipe)'
    <3>1. \A t \in Steps : step'[t].old.pipe # NoPipe =>
            /\ step'[t].old.pipe = step[t].old.pipe
            /\ step[t].old.pipe \in Pipes /\ Started(step[t].old.pipe)
      BY <1>1, <1>2, FieldTypes DEF RecordsInv, ClearsStarted
    <3>2. \A t \in Steps, q \in Pipes :
            step'[t].old.pipe # NoPipe /\ q = step'[t].old.pipe => Started(q)'
      BY <2>1, <3>1
    <3>3. \A t \in Steps : step'[t].old.pipe # NoPipe => step'[t].old.pipe \in Pipes
      BY <3>1
    <3>4. QED
      BY <3>2, <3>3
  <2>3. \A c \in Clearers : \A p \in clearing'[c].touched : Started(p)'
    BY <1>1, <1>2, <2>1, FieldTypes DEF RecordsInv, ClearsStarted
  <2>4. step'[s].at = "replaced" => step'[s].old.pipe \in Pipes
    <3>1. step[s].old = runs[s[2]]
      BY <1>2 DEF RecordsInv, LockHeld
    <3>2. QED
      BY <1>2, <3>1 DEF RecordsInv, RecordsOwned
  <2>5. \A t \in Steps : clearing'[t].at # "none" /\ Runs(t[1]) =>
          step'[t].at = "replaced" /\ step'[t].old.pipe \in Pipes
    BY <1>2, <2>4 DEF RecordsInv, ClearsStarted
  <2>6. QED
    BY <1>2, <2>2, <2>3, <2>5 DEF ClearsStarted
<1>11. (user.at \in {"deletes", "clears"} => StepsIdle)'
  BY <1>2 DEF RecordsInv, StepsIdle
<1>12. QED
  BY <1>1, <1>3, <1>4, <1>7, <1>8, <1>9, <1>10, <1>11 DEF RecordsInv

\* A step makes its result folder.
LEMMA MakeFolderKeeps ==
  ASSUME RecordsInv, QuietDeletes, NEW s \in Steps, MakeFolder(s)
  PROVE  RecordsInv'
<1> USE StepKinds, RecordTypes DEF RecordsInv, TypeOK, Runs
<1>1. TypeOK'
  BY StepTypes
<1>2. Working'
  BY DEF MakeFolder, Set, Working
<1>3. Unstarted'
  BY DEF MakeFolder, Set, Unstarted
<1>4. \A t \in Steps : Written(t) => Written(t)'
  BY DEF MakeFolder, Set, Written, Working
<1>5. \A q \in Pipes : Started(q) => Started(q)'
  BY <1>4 DEF Started
<1>6. RecordsOwned'
  BY <1>4 DEF MakeFolder, Set, RecordsOwned, Cut, InHand, Working
<1>7. RowsTrue'
  BY <1>4 DEF MakeFolder, Set, RowsTrue
<1>8. LockHeld'
  <2>1. \A t \in Steps \ {s} : step'[t] = step[t]
    BY DEF MakeFolder, Set
  <2>2. step'[s].at = "computes" /\ UNCHANGED <<runs, lock, owner>>
    BY FieldTypes DEF MakeFolder, Set, StepRecords
  <2>3. QED
    BY <2>1, <2>2 DEF LockHeld, Cut
<1>9. ClearsStarted'
  BY <1>5, FieldTypes DEF MakeFolder, Set, ClearsStarted
<1>10. (user.at \in {"deletes", "clears"} => StepsIdle)'
  BY DEF MakeFolder, Set, StepsIdle, Working, MayDelete
<1>11. QED
  BY <1>1, <1>2, <1>3, <1>6, <1>7, <1>8, <1>9, <1>10

\* A step's container ran.
LEMMA ComputeKeeps ==
  ASSUME RecordsInv, QuietDeletes, NEW s \in Steps, Compute(s)
  PROVE  RecordsInv'
<1> USE StepKinds, RecordTypes DEF RecordsInv, TypeOK, Runs
<1>1. TypeOK'
  BY StepTypes
<1>2. Working'
  BY DEF Compute, Working
<1>3. Unstarted'
  BY DEF Compute, Unstarted
<1>4. \A t \in Steps : Written(t) => Written(t)'
  BY DEF Compute, Written, Working
<1>5. \A q \in Pipes : Started(q) => Started(q)'
  BY <1>4 DEF Started
<1>6. RecordsOwned'
  <2>1. \A t \in Steps : InHand(t) => InHand(t)'
    BY DEF Compute, InHand
  <2>2. UNCHANGED <<pointer, runs, row, owner, closing>>
    BY DEF Compute
  <2>3. QED
    BY <1>4, <2>1, <2>2 DEF RecordsOwned, Cut
<1>7. RowsTrue'
  BY <1>4 DEF Compute, RowsTrue
<1>8. LockHeld'
  BY DEF Compute, LockHeld, Cut
<1>9. ClearsStarted'
  BY <1>5, FieldTypes DEF Compute, ClearsStarted
<1>10. (user.at \in {"deletes", "clears"} => StepsIdle)'
  BY DEF Compute, StepsIdle, Working, MayDelete
<1>11. QED
  BY <1>1, <1>2, <1>3, <1>6, <1>7, <1>8, <1>9, <1>10

\* A step lists the later drafts it has to clear.
LEMMA ListDependentsKeeps ==
  ASSUME RecordsInv, QuietDeletes, NEW s \in Steps, ListDependents(s)
  PROVE  RecordsInv'
<1> USE StepKinds, RecordTypes DEF RecordsInv, TypeOK, Runs
<1>1. TypeOK'
  BY ClearTypes
<1>2. Working'
  BY DEF ListDependents, Working
<1>3. Unstarted'
  BY DEF ListDependents, Unstarted
<1>4. \A t \in Steps : Written(t) => Written(t)'
  BY DEF ListDependents, Written, Working
<1>5. \A q \in Pipes : Started(q) => Started(q)'
  BY <1>4 DEF Started
<1>6. RecordsOwned'
  BY <1>4 DEF ListDependents, RecordsOwned, Cut, InHand, Working
<1>7. RowsTrue'
  BY <1>4 DEF ListDependents, RowsTrue
<1>8. LockHeld'
  BY DEF ListDependents, LockHeld, Cut
<1>9. ClearsStarted'
  <2> DEFINE later == Dependents(clearing[s].seed, s[1])
             touched == PipesOf(later) \cup {step[s].old.pipe}
  <2>1. PipesOf(later) \subseteq Pipes /\ \A p \in PipesOf(later) : Started(p)
    BY ListTypes, ListedStarted
  <2>2. step[s].old.pipe \in Pipes /\ Started(step[s].old.pipe)
    BY DEF ListDependents, ClearsStarted
  <2>3. clearing' = [clearing EXCEPT ![s].at = "clear", ![s].todo = later,
                                     ![s].touched = touched]
    BY DEF ListDependents
  <2>4. \A c \in Clearers : \A p \in clearing'[c].touched : p \in Pipes /\ Started(p)
    <3> HIDE DEF later
    <3>1. clearing[s] \in Clearings
      BY FieldTypes
    <3>2. clearing'[s].touched = touched
      BY <2>3, <3>1 DEF Clearings
    <3>3. \A c \in Clearers \ {s} : clearing'[c] = clearing[c]
      BY <2>3
    <3>4. touched \subseteq Pipes
      BY <2>1, <2>2
    <3>5. QED
      BY <2>1, <2>2, <3>2, <3>3, <3>4, FieldTypes DEF ClearsStarted
  <2>5. \A t \in Steps : clearing'[t].at # "none" => clearing[t].at # "none"
    BY <2>3 DEF ListDependents
  <2>6. QED
    BY <1>5, <2>4, <2>5, FieldTypes DEF ListDependents, ClearsStarted
<1>10. (user.at \in {"deletes", "clears"} => StepsIdle)'
  BY DEF ListDependents, StepsIdle, Working, MayDelete
<1>11. QED
  BY <1>1, <1>2, <1>3, <1>6, <1>7, <1>8, <1>9, <1>10

\* A clearing removes one record.
LEMMA ClearOneKeeps ==
  ASSUME RecordsInv, QuietDeletes, NEW c \in Clearers, ClearOne(c)
  PROVE  RecordsInv'
<1> USE StepKinds, RecordTypes DEF RecordsInv, TypeOK, Runs
<1>1. TypeOK'
  BY ClearTypes
<1>2. Working'
  BY DEF ClearOne, Working
<1>3. Unstarted'
  BY DEF ClearOne, Unstarted
<1>4. \A t \in Steps : Written(t) => Written(t)'
  BY DEF ClearOne, Written, Working
<1>5. \A q \in Pipes : Started(q) => Started(q)'
  BY <1>4 DEF Started
<1>6. RecordsOwned'
  BY <1>4 DEF ClearOne, RecordsOwned, Cut, InHand, Working
<1>7. RowsTrue'
  BY <1>4 DEF ClearOne, RowsTrue
<1>8. LockHeld'
  BY DEF ClearOne, LockHeld, Cut
<1>9. ClearsStarted'
  BY <1>5, FieldTypes DEF ClearOne, ClearsStarted
<1>10. (user.at \in {"deletes", "clears"} => StepsIdle)'
  BY DEF ClearOne, StepsIdle, Working, MayDelete
<1>11. QED
  BY <1>1, <1>2, <1>3, <1>6, <1>7, <1>8, <1>9, <1>10

\* A clearing reads what every pipeline it touched has left.
LEMMA CountLeftKeeps ==
  ASSUME RecordsInv, QuietDeletes, NEW c \in Clearers, CountLeft(c)
  PROVE  RecordsInv'
<1> USE StepKinds, RecordTypes DEF RecordsInv, TypeOK, Runs
<1>1. TypeOK'
  BY ClearTypes
<1>2. Working'
  BY DEF CountLeft, Working
<1>3. Unstarted'
  BY DEF CountLeft, Unstarted
<1>4. \A t \in Steps : Written(t) => Written(t)'
  BY DEF CountLeft, Written, Working
<1>5. \A q \in Pipes : Started(q) => Started(q)'
  BY <1>4 DEF Started
<1>6. RecordsOwned'
  BY <1>4 DEF CountLeft, RecordsOwned, Cut, InHand, Working
<1>7. RowsTrue'
  BY <1>4 DEF CountLeft, RowsTrue
<1>8. LockHeld'
  BY DEF CountLeft, LockHeld, Cut
<1>9. ClearsStarted'
  BY <1>5, FieldTypes DEF CountLeft, ClearsStarted
<1>10. (user.at \in {"deletes", "clears"} => StepsIdle)'
  BY DEF CountLeft, StepsIdle, Working, MayDelete
<1>11. QED
  BY <1>1, <1>2, <1>3, <1>6, <1>7, <1>8, <1>9, <1>10

\* What it means that the status helper finds a pipeline ended.
LEMMA OutcomeEnded ==
  ASSUME TypeOK, RecordsOwned, NEW p \in Pipes, Outcome(p, owner, runs) = "ended"
  PROVE  /\ \A d \in Drafts : runs[d].pipe = p => runs[d].status # "running"
         /\ p \notin Tries /\ Runs(p) => \A d \in DraftsOf(p) : runs[d].pipe = p
<1>1. \A d \in Drafts : runs[d].pipe = p => d \in StepsLeft(p, runs)
  BY StepKinds, RecordTypes DEF StepsLeft, Listed, RecordsOwned, Cut
<1>2. /\ \A d \in StepsLeft(p, runs) : runs[d].status # "running"
      /\ p \notin Tries /\ Runs(p) => StepsLeft(p, runs) = DraftsOf(p)
  BY DEF Outcome, Runs
<1>3. QED
  BY <1>1, <1>2 DEF StepsLeft

\* A clearing stores an outcome only for pipelines that started.
LEMMA SettleKeeps ==
  ASSUME RecordsInv, QuietDeletes, NEW c \in Clearers, Settle(c)
  PROVE  RecordsInv'
<1>1. TypeOK /\ TypeOK'
  BY ClearTypes DEF RecordsInv
<1> USE StepKinds, RecordTypes DEF Runs
<1>2. UNCHANGED <<pointer, runs, results, lock, owner, closing, budget>>
  BY DEF Settle
<1>3. /\ clearing'[c].at = "none" /\ clearing'[c].touched = {}
      /\ \A b \in Clearers \ {c} : clearing'[b] = clearing[b]
  BY <1>1 DEF Settle, TypeOK
<1>4. \A t \in Steps : step'[t] = step[t] \/ c = t
  BY <1>1, ContinueMoves DEF Settle
<1>5. ASSUME NEW s \in Steps, c = s
      PROVE  /\ step[s].at = "replaced" /\ Runs(s[1])
             /\ step'[s].at = IF step[s].entry = "running" THEN "folder" ELSE "done"
             /\ step'[s].old = NoRun /\ user' = user
  <2>1. Continue(s) /\ Runs(s[1]) /\ clearing[s].at = "settle" /\ user' = user
    BY <1>5 DEF Settle, Lives
  <2>2. QED
    BY <1>1, <2>1, ContinueMoves DEF RecordsInv, ClearsStarted
<1>6. \A p \in Pipes : row'[p] = "ended" => row[p] = "ended" \/
        (p \in clearing[c].touched /\ Outcome(p, owner, runs) = "ended")
  BY DEF Settle
<1>7. Working'
  BY <1>2, <1>4, <1>5 DEF RecordsInv, Working
<1>8. Unstarted'
  BY <1>2, <1>3, <1>4, <1>5 DEF RecordsInv, Unstarted
<1>9. \A t \in Steps : Written(t) => Written(t)'
  BY <1>2, <1>4, <1>5 DEF Written
<1>10. RecordsOwned'
  <2> SUFFICES ASSUME NEW d \in Drafts, runs[d] # NoRun, NEW q, q = runs[d].pipe
               PROVE  /\ q \in Pipes /\ d \in DraftsOf(q) /\ d \in pointer
                      /\ Written(<<q, d>>)'
                      /\ runs[d].status = "running" /\ ~Cut(q) =>
                           /\ row'[q] # "ended"
                           /\ \/ Runs(q) /\ InHand(<<q, d>>)'
                              \/ owner[q] = "dead"
                              \/ owner[q] = "closes" /\ d \in closing[q]
    BY <1>2 DEF RecordsOwned, Cut
  <2>1. /\ q \in Pipes /\ d \in DraftsOf(q) /\ d \in pointer /\ <<q, d>> \in Steps
        /\ Written(<<q, d>>)
        /\ runs[d].status = "running" /\ ~Cut(q) =>
             /\ row[q] # "ended"
             /\ \/ Runs(q) /\ InHand(<<q, d>>)
                \/ owner[q] = "dead"
                \/ owner[q] = "closes" /\ d \in closing[q]
    BY DEF RecordsInv, RecordsOwned, Cut
  <2>2. runs[d].status = "running" /\ ~Cut(q) => row'[q] # "ended"
    BY <1>1, <1>6, <2>1, OutcomeEnded DEF RecordsInv
  <2>3. InHand(<<q, d>>) => InHand(<<q, d>>)'
    BY <1>4, <1>5, <2>1 DEF InHand
  <2>4. QED
    BY <1>9, <2>1, <2>2, <2>3
<1>11. RowsTrue'
  <2> SUFFICES ASSUME NEW p \in Pipes, row'[p] = "ended", NEW d \in DraftsOf(p)
               PROVE  Written(<<p, d>>)'
    BY DEF RowsTrue
  <2>1. CASE row[p] = "ended"
    BY <1>9, <2>1 DEF RecordsInv, RowsTrue
  <2>2. CASE row[p] # "ended"
    <3>1. Outcome(p, owner, runs) = "ended" /\ Started(p)
      BY <1>6, <2>2 DEF RecordsInv, ClearsStarted
    <3>2. CASE ~Runs(p)
      BY <3>1, <3>2, <1>9 DEF Started, Written
    <3>3. CASE p \in Tries
      BY <3>1, <3>3, <1>9, DraftsAssumption DEF Started
    <3>4. CASE Runs(p) /\ p \notin Tries
      <4>1. d \in Drafts /\ runs[d].pipe = p /\ runs[d] # NoRun
        BY <1>1, <3>1, <3>4, OutcomeEnded DEF RecordsInv
      <4>2. Written(<<p, d>>)
        BY <4>1 DEF RecordsInv, RecordsOwned, Cut
      <4>3. QED
        BY <1>9, <4>2
    <3>5. QED
      BY <3>2, <3>3, <3>4
  <2>3. QED
    BY <2>1, <2>2
<1>12. LockHeld'
  BY <1>2, <1>4, <1>5 DEF RecordsInv, LockHeld, Cut
<1>13. ClearsStarted'
  <2>1. \A q \in Pipes : Started(q) => Started(q)'
    BY <1>9 DEF Started
  <2>2. \A t \in Steps, q \in Pipes : step'[t].old.pipe = q => Started(q)'
    BY <1>4, <1>5, <2>1 DEF RecordsInv, ClearsStarted
  <2>3. \A t \in Steps : step'[t].old.pipe # NoPipe => Started(step[t].old.pipe)'
    BY <1>1, <1>4, <1>5, <2>2, FieldTypes
  <2>4. \A b \in Clearers : \A p \in clearing'[b].touched : Started(p)'
    BY <1>1, <1>3, <2>1, FieldTypes DEF RecordsInv, ClearsStarted
  <2>5. \A t \in Steps : clearing'[t].at # "none" /\ Runs(t[1]) =>
          step'[t].at = "replaced" /\ step'[t].old.pipe \in Pipes
    BY <1>3, <1>4 DEF RecordsInv, ClearsStarted
  <2>6. QED
    BY <1>2, <2>3, <2>4, <2>5 DEF ClearsStarted
<1>14. (user.at \in {"deletes", "clears"} => StepsIdle)'
  <2>1. CASE c = User
    BY <2>1 DEF Settle, NoPlan
  <2>2. ASSUME NEW s \in Steps, c = s
        PROVE  (user.at \in {"deletes", "clears"} => StepsIdle)'
    BY <1>5, <2>2 DEF RecordsInv, StepsIdle
  <2>3. QED
    BY <2>1, <2>2
<1>15. QED
  BY <1>1, <1>7, <1>8, <1>10, <1>11, <1>12, <1>13, <1>14 DEF RecordsInv

\* The user plans a delete.
LEMMA PlanDeleteKeeps ==
  ASSUME RecordsInv, QuietDeletes, NEW d \in Drafts, NEW verb \in {"outputs", "draft"}, PlanDelete(d, verb)
  PROVE  RecordsInv'
<1> USE StepKinds, RecordTypes DEF RecordsInv, TypeOK, Runs
<1>1. TypeOK'
  BY UserTypes DEF UserActs
<1>2. Working'
  BY DEF PlanDelete, Working
<1>3. Unstarted'
  BY DEF PlanDelete, Unstarted
<1>4. \A t \in Steps : Written(t) => Written(t)'
  BY DEF PlanDelete, Written, Working
<1>5. \A q \in Pipes : Started(q) => Started(q)'
  BY <1>4 DEF Started
<1>6. RecordsOwned'
  BY <1>4 DEF PlanDelete, RecordsOwned, Cut, InHand, Working
<1>7. RowsTrue'
  BY <1>4 DEF PlanDelete, RowsTrue
<1>8. LockHeld'
  BY DEF PlanDelete, LockHeld, Cut
<1>9. ClearsStarted'
  BY <1>5, FieldTypes DEF PlanDelete, ClearsStarted
<1>10. (user.at \in {"deletes", "clears"} => StepsIdle)'
  BY DEF PlanDelete, StepsIdle, Working, MayDelete
<1>11. QED
  BY <1>1, <1>2, <1>3, <1>6, <1>7, <1>8, <1>9, <1>10

\* The user's delete is confirmed, or refused.
LEMMA ApplyDeleteKeeps ==
  ASSUME RecordsInv, QuietDeletes, ApplyDelete
  PROVE  RecordsInv'
<1> USE StepKinds, RecordTypes DEF RecordsInv, TypeOK, Runs
<1>1. TypeOK'
  BY UserTypes DEF UserActs
<1>2. Working'
  BY DEF ApplyDelete, BeginDelete, Working
<1>3. Unstarted'
  BY DEF ApplyDelete, BeginDelete, Unstarted
<1>4. \A t \in Steps : Written(t) => Written(t)'
  BY DEF ApplyDelete, BeginDelete, Written, Working
<1>5. \A q \in Pipes : Started(q) => Started(q)'
  BY <1>4 DEF Started
<1>6. RecordsOwned'
  BY <1>4 DEF ApplyDelete, BeginDelete, RecordsOwned, Cut, InHand, Working
<1>7. RowsTrue'
  BY <1>4 DEF ApplyDelete, BeginDelete, RowsTrue
<1>8. LockHeld'
  BY DEF ApplyDelete, BeginDelete, LockHeld, Cut
<1>9. ClearsStarted'
  <2>1. PICK d \in Drafts : BeginDelete(d, user.verb) \/ UNCHANGED clearing
    BY DEF ApplyDelete
  <2>2. \A c \in Clearers : \A p \in clearing'[c].touched : p \in Pipes /\ Started(p)
    <3>1. CASE UNCHANGED clearing
      BY <3>1, FieldTypes DEF ClearsStarted
    <3>2. CASE BeginDelete(d, user.verb)
      BY <3>2, BeginStarted, BeginTypes, FieldTypes DEF ClearsStarted
    <3>3. QED
      BY <2>1, <3>1, <3>2
  <2>3. \A t \in Steps : clearing'[t] = clearing[t]
    BY <2>1, BeginStarted
  <2>4. QED
    BY <1>5, <2>2, <2>3, FieldTypes DEF ApplyDelete, ClearsStarted
<1>10. (user.at \in {"deletes", "clears"} => StepsIdle)'
  <2>1. user' = NoPlan \/ StepsIdle
    BY DEF ApplyDelete, MayDelete
  <2>2. QED
    BY <2>1 DEF ApplyDelete, NoPlan, StepsIdle
<1>11. QED
  BY <1>1, <1>2, <1>3, <1>6, <1>7, <1>8, <1>9, <1>10

\* The user registers a draft.
LEMMA BeginRegisterKeeps ==
  ASSUME RecordsInv, QuietDeletes, NEW d \in Drafts, BeginRegister(d)
  PROVE  RecordsInv'
<1> USE StepKinds, RecordTypes DEF RecordsInv, TypeOK, Runs
<1>1. TypeOK'
  BY UserTypes DEF UserActs
<1>2. Working'
  BY DEF BeginRegister, BeginDelete, Working
<1>3. Unstarted'
  BY DEF BeginRegister, BeginDelete, Unstarted
<1>4. \A t \in Steps : Written(t) => Written(t)'
  BY DEF BeginRegister, BeginDelete, Written, Working
<1>5. \A q \in Pipes : Started(q) => Started(q)'
  BY <1>4 DEF Started
<1>6. RecordsOwned'
  BY <1>4 DEF BeginRegister, BeginDelete, RecordsOwned, Cut, InHand, Working
<1>7. RowsTrue'
  BY <1>4 DEF BeginRegister, BeginDelete, RowsTrue
<1>8. LockHeld'
  BY DEF BeginRegister, BeginDelete, LockHeld, Cut
<1>9. ClearsStarted'
  <2>1. BeginDelete(d, "draft")
    BY DEF BeginRegister
  <2>2. \A c \in Clearers : \A p \in clearing'[c].touched : p \in Pipes /\ Started(p)
    BY <2>1, BeginStarted, BeginTypes, FieldTypes DEF ClearsStarted
  <2>3. QED
    BY <1>5, <2>1, <2>2, BeginStarted, FieldTypes DEF BeginRegister, ClearsStarted
<1>10. (user.at \in {"deletes", "clears"} => StepsIdle)'
  BY DEF BeginRegister, BeginDelete, StepsIdle, Working, MayDelete
<1>11. QED
  BY <1>1, <1>2, <1>3, <1>6, <1>7, <1>8, <1>9, <1>10

\* A registration is refused.
LEMMA RefuseRegisterKeeps ==
  ASSUME RecordsInv, QuietDeletes, RefuseRegister
  PROVE  RecordsInv'
<1> USE StepKinds, RecordTypes DEF RecordsInv, TypeOK, Runs
<1>1. TypeOK'
  BY UserTypes DEF UserActs
<1>2. Working'
  BY DEF RefuseRegister, Working
<1>3. Unstarted'
  BY DEF RefuseRegister, Unstarted
<1>4. \A t \in Steps : Written(t) => Written(t)'
  BY DEF RefuseRegister, Written, Working
<1>5. \A q \in Pipes : Started(q) => Started(q)'
  BY <1>4 DEF Started
<1>6. RecordsOwned'
  BY <1>4 DEF RefuseRegister, RecordsOwned, Cut, InHand, Working
<1>7. RowsTrue'
  BY <1>4 DEF RefuseRegister, RowsTrue
<1>8. LockHeld'
  BY DEF RefuseRegister, LockHeld, Cut
<1>9. ClearsStarted'
  BY <1>5, FieldTypes DEF RefuseRegister, ClearsStarted
<1>10. (user.at \in {"deletes", "clears"} => StepsIdle)'
  BY DEF RefuseRegister, StepsIdle, Working, MayDelete
<1>11. QED
  BY <1>1, <1>2, <1>3, <1>6, <1>7, <1>8, <1>9, <1>10

\* A draft's folder goes: no step is at work then.
LEMMA DeleteFolderKeeps ==
  ASSUME RecordsInv, QuietDeletes, DeleteFolder
  PROVE  RecordsInv'
<1> USE StepKinds, RecordTypes DEF RecordsInv, TypeOK, Runs
<1>1. TypeOK'
  BY UserTypes DEF UserActs
<1>2. Working'
  <2>1. \A t \in Steps : step[t].at \in {"waits", "done", "refused"}
    BY DEF DeleteFolder, StepsIdle, Working
  <2>2. QED
    BY <2>1 DEF DeleteFolder, Working
<1>3. Unstarted'
  BY DEF DeleteFolder, Unstarted
<1>4. \A t \in Steps : Written(t) => Written(t)'
  BY DEF DeleteFolder, Written, Working
<1>5. \A q \in Pipes : Started(q) => Started(q)'
  BY <1>4 DEF Started
<1>6. RecordsOwned'
  BY <1>4 DEF DeleteFolder, RecordsOwned, Cut, InHand, Working
<1>7. RowsTrue'
  BY <1>4 DEF DeleteFolder, RowsTrue
<1>8. LockHeld'
  <2>1. \A t \in Steps : step[t].at \in {"waits", "done", "refused"}
    BY DEF DeleteFolder, StepsIdle, Working
  <2>2. QED
    BY <2>1 DEF DeleteFolder, LockHeld, Cut
<1>9. ClearsStarted'
  BY <1>5, FieldTypes DEF DeleteFolder, ClearsStarted
<1>10. (user.at \in {"deletes", "clears"} => StepsIdle)'
  BY DEF DeleteFolder, StepsIdle, Working, MayDelete
<1>11. QED
  BY <1>1, <1>2, <1>3, <1>6, <1>7, <1>8, <1>9, <1>10

-----------------------------------------------------------------------------
\* Every action keeps the invariant, if the user deletes between steps.
LEMMA InvNext ==
  ASSUME RecordsInv, QuietDeletes, [Next]_vars
  PROVE  RecordsInv'
<1>1. CASE UNCHANGED vars
  <2>1. TypeOK' /\ Working' /\ Unstarted' /\ RowsTrue' /\ LockHeld'
    BY <1>1 DEF vars, RecordsInv, TypeOK, Working, Unstarted, RowsTrue, LockHeld, Cut,
       Written, Runs
  <2>2. RecordsOwned'
    BY <1>1 DEF vars, RecordsInv, RecordsOwned, Cut, Written, InHand, Runs
  <2>3. ClearsStarted' /\ (user.at \in {"deletes", "clears"} => StepsIdle)'
    BY <1>1 DEF vars, RecordsInv, ClearsStarted, StepsIdle, Written, Started, Runs
  <2>4. QED
    BY <1>1, <2>1, <2>2, <2>3 DEF vars, RecordsInv
<1>2. ASSUME NEW s \in Steps, StepActs(s)
      PROVE  RecordsInv'
  BY <1>2, MaterializeKeeps, TakeRecordKeeps, WriteEntryKeeps, MakeFolderKeeps,
     ComputeKeeps, ListDependentsKeeps DEF StepActs
<1>3. ASSUME NEW c \in Clearers, ClearingActs(c)
      PROVE  RecordsInv'
  BY <1>3, ClearOneKeeps, CountLeftKeeps, SettleKeeps DEF ClearingActs
<1>4. ASSUME NEW p \in Pipes, Launch(p) \/ Die(p) \/ BeginClose(p) \/ PipelineActs(p)
      PROVE  RecordsInv'
  BY <1>4, LaunchKeeps, DieKeeps, BeginCloseKeeps, OwnerEndsKeeps, EndRunningKeeps,
     CloseKeeps DEF PipelineActs
<1>5. CASE UserActs
  BY <1>5, PlanDeleteKeeps, BeginRegisterKeeps, ApplyDeleteKeeps, RefuseRegisterKeeps,
     DeleteFolderKeeps DEF UserActs
<1>6. QED
  BY <1>1, <1>2, <1>3, <1>4, <1>5 DEF Next

\* Nothing of a pipeline that ended is left running, a row that says ended is
\* right, and a record is written by its lock's holder, for any pipelines,
\* however they die and are closed out (draft.py, end_running_draft_steps and
\* _store_lock), when the user deletes between steps.
LEMMA RecordsInvariant ==
  ASSUME QuietDeletes
  PROVE  Spec => []RecordsInv
<1>1. Init => RecordsInv
  BY InvInit
<1>2. RecordsInv /\ [Next]_vars => RecordsInv'
  BY InvNext
<1>3. QED
  BY <1>1, <1>2, PTL DEF Spec

\* Who changes a record.
LEMMA RecordActions ==
  ASSUME [Next]_vars
  PROVE  \/ UNCHANGED runs
         \/ \E p \in Pipes, e \in Drafts : EndRunning(p, e)
         \/ \E s \in Steps : WriteEntry(s)
         \/ \E c \in Clearers : ClearOne(c)
         \/ DeleteFolder
<1>1. ASSUME NEW s \in Steps, StepActs(s)
      PROVE  UNCHANGED runs \/ WriteEntry(s)
  BY <1>1 DEF StepActs, Materialize, TakeRecord, MakeFolder, Compute, ListDependents
<1>2. ASSUME NEW c \in Clearers, ClearingActs(c)
      PROVE  UNCHANGED runs \/ ClearOne(c)
  BY <1>2 DEF ClearingActs, CountLeft, Settle
<1>3. ASSUME NEW p \in Pipes,
             Launch(p) \/ Die(p) \/ BeginClose(p) \/ PipelineActs(p)
      PROVE  UNCHANGED runs \/ \E e \in Drafts : EndRunning(p, e)
  BY <1>3 DEF Launch, Die, BeginClose, PipelineActs, OwnerEnds, CutShort, Close
<1>4. CASE UserActs
  BY <1>4 DEF UserActs, PlanDelete, BeginRegister, ApplyDelete, RefuseRegister
<1>5. CASE UNCHANGED vars
  BY <1>5 DEF vars
<1>6. QED
  BY <1>1, <1>2, <1>3, <1>4, <1>5 DEF Next

\* Only an entry that is written passes a record to another pipeline.
LEMMA RecordsPass ==
  ASSUME RecordsInv, [Next]_vars, NEW d \in Drafts,
         runs[d] # NoRun, runs'[d] # NoRun, runs'[d].pipe # runs[d].pipe
  PROVE  \E s \in Steps : s[2] = d /\ s[1] # runs[d].pipe /\ WriteEntry(s)
<1> USE StepKinds DEF RecordsInv, TypeOK
<1>1. CASE UNCHANGED runs
  BY <1>1
<1>2. ASSUME NEW p \in Pipes, NEW e \in Drafts, EndRunning(p, e)
      PROVE  FALSE
  <2>1. runs[d] \in RunRecords
    BY FieldTypes
  <2>2. [runs[d] EXCEPT !.status = "failed"].pipe = runs[d].pipe
    BY <2>1 DEF RunRecords
  <2>3. runs'[d] \in {runs[d], [runs[d] EXCEPT !.status = "failed"]}
    BY <1>2 DEF EndRunning
  <2>4. QED
    BY <2>2, <2>3
<1>3. ASSUME NEW s \in Steps, WriteEntry(s)
      PROVE  s[2] = d /\ s[1] # runs[d].pipe
  BY <1>3, WriteEntryMoves
<1>4. ASSUME NEW c \in Clearers, ClearOne(c)
      PROVE  FALSE
  BY <1>4 DEF ClearOne
<1>5. ASSUME DeleteFolder
      PROVE  FALSE
  BY <1>5 DEF DeleteFolder
<1>6. \/ UNCHANGED runs
      \/ \E p \in Pipes, e \in Drafts : EndRunning(p, e)
      \/ \E s \in Steps : WriteEntry(s)
      \/ \E c \in Clearers : ClearOne(c)
      \/ DeleteFolder
  BY RecordActions
<1>7. QED
  BY <1>1, <1>2, <1>3, <1>4, <1>5, <1>6

\* A record in which a step runs never passes to another pipeline: what the
\* writer judged when it took the lock still holds when it writes (draft.py,
\* record_draft_step), for any pipelines, when the user deletes between steps.
THEOREM RunningRunsKept ==
  ASSUME QuietDeletes
  PROVE  Spec => RunningKept
<1>1. ASSUME RecordsInv, [Next]_vars
      PROVE  [\A d \in Drafts :
                runs[d] # NoRun /\ runs'[d] # NoRun /\ runs'[d].pipe # runs[d].pipe
                  => (runs[d].status = "running" => Cut(runs[d].pipe))]_vars
  <2> SUFFICES ASSUME NEW d \in Drafts, runs[d] # NoRun, runs'[d] # NoRun,
                      runs'[d].pipe # runs[d].pipe
               PROVE  runs[d].status = "running" => Cut(runs[d].pipe)
    OBVIOUS
  <2>1. PICK s \in Steps : s[2] = d /\ s[1] # runs[d].pipe /\ WriteEntry(s)
    BY <1>1, RecordsPass
  <2>2. step[s].at = "writes"
    BY <2>1 DEF WriteEntry
  <2>3. QED
    BY <1>1, <2>1, <2>2 DEF RecordsInv, LockHeld, Cut
<1>2. QED
  BY <1>1, RecordsInvariant, PTL DEF Spec, RunningKept

-----------------------------------------------------------------------------
(* What is read, replaced and cleared.                                     *)

\* A step moves on with the inputs it read, starts over none, or reads them.
LEMMA StepMoves ==
  ASSUME RecordsInv, NEW s \in Steps, [Next]_vars
  PROVE  \/ step'[s] = step[s]
         \/ step'[s].at \in {"refused", "done"} /\ step'[s].from = {}
            /\ (step[s].at = "waits" /\ Runs(s[1])' => Materialize(s))
         \/ /\ Materialize(s) /\ step'[s].at = "ready" /\ step[s].at = "waits"
            /\ \A r \in step'[s].from : r[1] \in Reads[s[1]][s[2]]
         \/ /\ step[s].at \notin {"waits", "done", "refused"}
            /\ step'[s].at \notin {"waits", "ready", "done", "refused"}
            /\ step'[s].from = step[s].from
            /\ step'[s].at = "writes" => TakeRecord(s)
<1> USE StepKinds, RecordTypes
<1>1. /\ step \in [Steps -> StepRecords] /\ step[s] \in StepRecords
      /\ Gone.from = {} /\ \A e : Done(e).from = {}
  BY FieldTypes DEF RecordsInv, TypeOK, Gone, Done, Waits
<1>2. ASSUME NEW t \in Steps, Materialize(t)
      PROVE  \/ step'[s] = step[s]
             \/ t = s /\ step'[s] = Gone
             \/ /\ t = s /\ step'[s].at = "ready" /\ step[s].at = "waits"
                /\ \A r \in step'[s].from : r[1] \in Reads[s[1]][s[2]]
  <2> DEFINE f == {<<e, runs[e].pipe>> : e \in Reads[t[1]][t[2]]}
             g == [step[t] EXCEPT !.at = "ready", !.from = f]
  <2>1. step' = [step EXCEPT ![t] = Gone] \/ step' = [step EXCEPT ![t] = g]
    BY <1>2 DEF Materialize
  <2>2. g.at = "ready" /\ g.from = f
    BY <1>1, FieldTypes DEF StepRecords
  <2>3. \A r \in f : r[1] \in Reads[t[1]][t[2]]
    OBVIOUS
  <2> HIDE DEF f, g
  <2>4. step'[s] \in {step[s], IF t = s THEN Gone ELSE step[s],
                      IF t = s THEN g ELSE step[s]}
    BY <1>1, <2>1
  <2>5. step[t].at = "waits"
    BY <1>2 DEF Materialize
  <2>6. QED
    BY <2>2, <2>3, <2>4, <2>5
<1>3. ASSUME NEW t \in Steps, TakeRecord(t)
      PROVE  \/ step'[s] = step[s]
             \/ t = s /\ step'[s] = Gone /\ step[s].at \in {"ready", "ends"}
             \/ /\ t = s /\ step'[s].at = "writes" /\ step[s].at \in {"ready", "ends"}
                /\ step'[s].from = step[s].from
  <2> DEFINE g == [step[t] EXCEPT !.at = "writes", !.old = runs[t[2]]]
  <2>1. step' = [step EXCEPT ![t] = Gone] \/ step' = [step EXCEPT ![t] = g]
    BY <1>3 DEF TakeRecord
  <2>2. g.at = "writes" /\ g.from = step[t].from
    BY <1>1, FieldTypes DEF StepRecords
  <2> HIDE DEF g
  <2>3. step'[s] \in {step[s], IF t = s THEN Gone ELSE step[s],
                      IF t = s THEN g ELSE step[s]}
    BY <1>1, <2>1
  <2>4. step[t].at \in {"ready", "ends"}
    BY <1>3 DEF TakeRecord
  <2>5. QED
    BY <2>2, <2>3, <2>4
<1>4. ASSUME NEW t \in Steps, Continue(t)
      PROVE  \/ step'[s] = step[s]
             \/ t = s /\ step'[s].at = "done" /\ step'[s].from = {}
             \/ t = s /\ step'[s].at = "folder" /\ step'[s].from = step[s].from
  <2> DEFINE g == [step[t] EXCEPT !.at = "folder", !.old = NoRun]
  <2>1. step' = [step EXCEPT ![t] = g] \/ step' = [step EXCEPT ![t] = Done(step[t].entry)]
    BY <1>4 DEF Continue
  <2>2. g.at = "folder" /\ g.from = step[t].from
    BY <1>1, FieldTypes DEF StepRecords
  <2>3. Done(step[t].entry).at = "done"
    BY <1>1 DEF StepRecords
  <2> HIDE DEF g
  <2>4. step'[s] \in {step[s], IF t = s THEN Done(step[t].entry) ELSE step[s],
                      IF t = s THEN g ELSE step[s]}
    BY <1>1, <2>1
  <2>5. QED
    BY <1>1, <2>2, <2>3, <2>4
<1>5. ASSUME NEW t \in Steps, NEW at, Set(t, at)
      PROVE  step'[s] = step[s] \/ (t = s /\ step'[s].at = at /\ step'[s].from = step[s].from)
  <2> DEFINE g == [step[t] EXCEPT !.at = at]
  <2>1. step' = [step EXCEPT ![t] = g]
    BY <1>5 DEF Set
  <2>2. g.at = at /\ g.from = step[t].from
    BY <1>1, FieldTypes DEF StepRecords
  <2> HIDE DEF g
  <2>3. step'[s] = IF t = s THEN g ELSE step[s]
    BY <1>1, <2>1
  <2>4. QED
    BY <2>2, <2>3
<1>6. ASSUME NEW t \in Steps, Compute(t)
      PROVE  step'[s] = step[s] \/ (t = s /\ step'[s].at = "ends" /\ step'[s].from = step[s].from)
  <2>1. \E e \in {"completed", "failed"} :
          step' = [step EXCEPT ![t].at = "ends", ![t].entry = e]
    BY <1>6 DEF Compute
  <2> PICK e \in {"completed", "failed"} :
          step' = [step EXCEPT ![t].at = "ends", ![t].entry = e]
    BY <2>1
  <2> DEFINE g == [step[t] EXCEPT !.at = "ends", !.entry = e]
  <2>2. g.at = "ends" /\ g.from = step[t].from
    BY <1>1, FieldTypes DEF StepRecords
  <2> HIDE DEF g
  <2>3. step'[s] = IF t = s THEN g ELSE step[s]
    BY <1>1 DEF g
  <2>4. QED
    BY <2>2, <2>3
<1>7. ASSUME NEW t \in Steps, StepActs(t)
      PROVE  \/ step'[s] = step[s]
             \/ Materialize(t) \/ TakeRecord(t)
             \/ step[t].at = "writes" /\ (Continue(t) \/ Set(t, "replaced"))
             \/ step[t].at = "folder" /\ Set(t, "computes")
             \/ step[t].at = "computes" /\ Compute(t)
  BY <1>7 DEF StepActs, WriteEntry, MakeFolder, Compute, ListDependents
<1>8. ASSUME NEW t \in Steps, StepActs(t)
      PROVE  \/ step'[s] = step[s]
             \/ step'[s].at \in {"refused", "done"} /\ step'[s].from = {}
                /\ (step[s].at = "waits" => Materialize(s))
             \/ /\ Materialize(s) /\ step'[s].at = "ready" /\ step[s].at = "waits"
                /\ \A r \in step'[s].from : r[1] \in Reads[s[1]][s[2]]
             \/ /\ step[s].at \notin {"waits", "done", "refused"}
                /\ step'[s].at \notin {"waits", "ready", "done", "refused"}
                /\ step'[s].from = step[s].from
                /\ step'[s].at = "writes" => TakeRecord(s)
  <2>1. CASE Materialize(t)
    BY <1>1, <1>2, <2>1
  <2>2. CASE TakeRecord(t)
    BY <1>1, <1>3, <2>2
  <2>3. CASE step[t].at = "writes" /\ Continue(t)
    BY <1>4, <2>3
  <2>4. CASE step[t].at = "writes" /\ Set(t, "replaced")
    BY <1>5, <2>4
  <2>5. CASE step[t].at = "folder" /\ Set(t, "computes")
    BY <1>5, <2>5
  <2>6. CASE step[t].at = "computes" /\ Compute(t)
    BY <1>6, <2>6
  <2>7. QED
    BY <1>7, <1>8, <2>1, <2>2, <2>3, <2>4, <2>5, <2>6
<1>9. ASSUME NEW p \in Pipes, Launch(p) \/ Die(p) \/ BeginClose(p) \/ PipelineActs(p)
      PROVE  step'[s] = step[s] \/ (step'[s] = Gone /\ ~Runs(s[1])')
  <2>1. CASE Die(p) \/ BeginClose(p)
    <3>1. step' = Stopped(p) /\ ~Runs(p)'
      BY <2>1 DEF Die, BeginClose, Runs, RecordsInv, TypeOK
    <3>2. QED
      BY <3>1 DEF Stopped
  <2>2. CASE Launch(p) \/ PipelineActs(p)
    BY <2>2 DEF Launch, PipelineActs, OwnerEnds, CutShort, EndRunning, Close
  <2>3. QED
    BY <1>9, <2>1, <2>2
<1>10. ASSUME NEW c \in Clearers, ClearingActs(c)
       PROVE  \/ step'[s] = step[s]
              \/ step'[s].at = "done" /\ step'[s].from = {} /\ step[s].at = "replaced"
              \/ /\ step'[s].at = "folder" /\ step'[s].from = step[s].from
                 /\ step[s].at = "replaced"
  <2>1. CASE ClearOne(c) \/ CountLeft(c) \/ (Settle(c) /\ c = User)
    BY <2>1 DEF ClearOne, CountLeft, Settle
  <2>2. CASE Settle(c) /\ c # User
    <3>1. c \in Steps /\ Continue(c) /\ step[c].at = "replaced"
      BY <2>2 DEF Settle, Lives, RecordsInv, ClearsStarted
    <3>2. QED
      BY <1>4, <3>1
  <2>3. QED
    BY <1>10, <2>1, <2>2 DEF ClearingActs
<1>11. CASE UserActs
  BY <1>11 DEF UserActs, PlanDelete, BeginRegister, ApplyDelete, RefuseRegister,
     DeleteFolder
<1>12. CASE UNCHANGED vars
  BY <1>12 DEF vars
<1>13. QED
  BY <1>1, <1>8, <1>9, <1>10, <1>11, <1>12 DEF Next

\* The entry a step writes.
LEMMA EntryWritten ==
  ASSUME RecordsInv, NEW s \in Steps, WriteEntry(s)
  PROVE  /\ step[s].at = "writes" /\ Runs(s[1])
         /\ runs'[s[2]].pipe = s[1] /\ runs'[s[2]].from = step[s].from
         /\ runs'[s[2]].late = IF runs[s[2]].pipe = s[1] THEN runs[s[2]].late
                               ELSE \E r \in step[s].from : runs[r[1]].pipe # r[2]
         /\ \A d \in Drafts \ {s[2]} : runs'[d] = runs[d]
         /\ \A c \in Clearers \ {s} : clearing'[c] = clearing[c]
         /\ IF runs[s[2]] # NoRun /\ runs[s[2]].pipe # s[1]
            THEN clearing'[s].at = "list" /\ clearing'[s].seed = {s[2]}
                 /\ clearing'[s].todo = {}
            ELSE clearing' = clearing
         /\ clearing[s].at = "none"
         /\ UNCHANGED <<owner, user, pointer>>
<1> USE StepKinds
<1>1. /\ runs \in [Drafts -> RunRecords] /\ clearing \in [Clearers -> Clearings]
      /\ s \in Clearers /\ s[2] \in Drafts
  BY DEF RecordsInv, TypeOK
<1>2. step[s].at = "writes" /\ Runs(s[1]) /\ step[s].old = runs[s[2]]
  BY DEF WriteEntry, RecordsInv, LockHeld, Cut
<1>3. clearing[s].at = "none"
  BY <1>2 DEF RecordsInv, ClearsStarted
<1> DEFINE late == IF runs[s[2]].pipe = s[1] THEN runs[s[2]].late
                   ELSE \E r \in step[s].from : runs[r[1]].pipe # r[2]
           n == [pipe |-> s[1], status |-> step[s].entry, from |-> step[s].from,
                 late |-> late]
           c == [Cleared EXCEPT !.at = "list", !.seed = {s[2]}]
<1>4. runs' = [runs EXCEPT ![s[2]] = n]
  BY <1>2 DEF WriteEntry
<1>5. n.pipe = s[1] /\ n.from = step[s].from /\ n.late = late
  OBVIOUS
<1>6. c.at = "list" /\ c.seed = {s[2]} /\ c.todo = {}
  BY DEF Cleared
<1>7. clearing' = IF runs[s[2]] # NoRun /\ runs[s[2]].pipe # s[1]
                  THEN [clearing EXCEPT ![s] = c] ELSE clearing
  BY <1>2 DEF WriteEntry
<1> HIDE DEF n, c, late
<1>8. /\ runs'[s[2]] = n /\ \A d \in Drafts \ {s[2]} : runs'[d] = runs[d]
  BY <1>1, <1>4
<1>9. /\ runs[s[2]] # NoRun /\ runs[s[2]].pipe # s[1] => clearing'[s] = c
      /\ \A b \in Clearers \ {s} : clearing'[b] = clearing[b]
  BY <1>1, <1>7
<1>10. UNCHANGED <<owner, user, pointer>>
  BY DEF WriteEntry
<1>11. QED
  BY <1>2, <1>3, <1>5, <1>6, <1>7, <1>8, <1>9, <1>10 DEF late

\* A close-out ends a running step, and leaves the rest of its record.
LEMMA EndRunningPipe ==
  ASSUME RecordsInv, NEW p \in Pipes, NEW e \in Drafts, EndRunning(p, e), NEW d \in Drafts
  PROVE  /\ runs'[d].pipe = runs[d].pipe /\ runs'[d].from = runs[d].from
         /\ runs'[d].late = runs[d].late
<1> DEFINE g == [runs[d] EXCEPT !.status = "failed"]
<1>1. runs[d] \in RunRecords /\ runs \in [Drafts -> RunRecords]
  BY DEF RecordsInv, TypeOK
<1>2. g.pipe = runs[d].pipe /\ g.from = runs[d].from /\ g.late = runs[d].late
  BY <1>1 DEF RunRecords
<1>3. runs'[d] \in {runs[d], g}
  BY <1>1 DEF EndRunning
<1> HIDE DEF g
<1>4. QED
  BY <1>2, <1>3

\* What becomes of a record: ended, removed, or written.
LEMMA RecordMoves ==
  ASSUME RecordsInv, [Next]_vars, NEW d \in Drafts
  PROVE  \/ /\ runs'[d].pipe = runs[d].pipe /\ runs'[d].from = runs[d].from
            /\ runs'[d].late = runs[d].late
         \/ runs'[d] = NoRun
         \/ \E s \in Steps : s[2] = d /\ WriteEntry(s)
<1> USE StepKinds DEF RecordsInv, TypeOK
<1>1. ASSUME NEW p \in Pipes, NEW e \in Drafts, EndRunning(p, e)
      PROVE  /\ runs'[d].pipe = runs[d].pipe /\ runs'[d].from = runs[d].from
             /\ runs'[d].late = runs[d].late
  BY <1>1, EndRunningPipe
<1>2. ASSUME NEW s \in Steps, WriteEntry(s)
      PROVE  s[2] = d \/ runs'[d] = runs[d]
  BY <1>2, WriteEntryMoves
<1>3. ASSUME NEW c \in Clearers, ClearOne(c)
      PROVE  runs'[d] \in {runs[d], NoRun}
  BY <1>3 DEF ClearOne
<1>4. ASSUME DeleteFolder
      PROVE  runs'[d] \in {runs[d], NoRun}
  BY <1>4 DEF DeleteFolder
<1>5. \/ UNCHANGED runs
      \/ \E p \in Pipes, e \in Drafts : EndRunning(p, e)
      \/ \E s \in Steps : WriteEntry(s)
      \/ \E c \in Clearers : ClearOne(c)
      \/ DeleteFolder
  BY RecordActions
<1>6. QED
  BY <1>1, <1>2, <1>3, <1>4, <1>5

\* An owner that is launched stays launched; one that runs did before, or is
\* launched now; a row that is gone stays gone.
LEMMA OwnersMove ==
  ASSUME RecordsInv, [Next]_vars, NEW p \in Pipes
  PROVE  /\ owner[p] # "none" => owner'[p] # "none"
         /\ Runs(p)' => Runs(p) \/ (owner[p] = "none" /\ step' = step)
         /\ owner[p] # "none" /\ row[p] = "gone" => row'[p] = "gone"
         /\ (owner[p] # "none" => row[p] # "none") =>
              (owner'[p] # "none" => row'[p] # "none")
<1> USE StepKinds DEF RecordsInv, TypeOK, Runs
<1>1. ASSUME NEW s \in Steps, StepActs(s)
      PROVE  UNCHANGED <<owner, row>>
  BY <1>1 DEF StepActs, Materialize, TakeRecord, WriteEntry, MakeFolder, Compute,
     ListDependents
<1>2. ASSUME NEW c \in Clearers, ClearingActs(c)
      PROVE  /\ UNCHANGED owner
             /\ row[p] \notin {"running", "ended"} => row'[p] = row[p]
             /\ row[p] \in {"running", "ended"} => row'[p] \in {"running", "ended", "gone"}
  BY <1>2, OutcomeType DEF ClearingActs, ClearOne, CountLeft, Settle
<1>3. ASSUME NEW q \in Pipes, Launch(q)
      PROVE  /\ owner[q] = "none" /\ step' = step
             /\ owner' = [owner EXCEPT ![q] = "runs"] /\ row' = [row EXCEPT ![q] = "running"]
  BY <1>3 DEF Launch
<1>4. ASSUME NEW q \in Pipes, Die(q) \/ BeginClose(q) \/ PipelineActs(q)
      PROVE  /\ owner'[p] # owner[p] => owner'[p] \in {"dead", "closes", "ended", "cut"}
             /\ row[p] = "gone" => row'[p] = "gone"
             /\ row'[p] # row[p] => row'[p] \in {"running", "ended", "gone"}
             /\ owner[p] = "none" => owner'[p] = "none"
  <2>1. CASE Die(q) \/ BeginClose(q)
    BY <2>1 DEF Die, BeginClose
  <2>2. CASE OwnerEnds(q)
    BY <2>2, OutcomeType DEF OwnerEnds, CutShort
  <2>3. CASE Close(q) \/ \E d \in Drafts : EndRunning(q, d)
    BY <2>3, OutcomeType DEF Close, CutShort, EndRunning
  <2>4. QED
    BY <1>4, <2>1, <2>2, <2>3 DEF PipelineActs
<1>5. CASE UserActs \/ UNCHANGED vars
  BY <1>5 DEF UserActs, PlanDelete, BeginRegister, ApplyDelete, RefuseRegister,
     DeleteFolder, vars
<1>6. QED
  BY <1>1, <1>2, <1>3, <1>4, <1>5 DEF Next

\* A lock taken keeps the step's entry.
LEMMA TakenEntry ==
  ASSUME RecordsInv, NEW s \in Steps, TakeRecord(s), step'[s].at = "writes"
  PROVE  /\ step[s].at \in {"ready", "ends"} /\ step'[s].entry = step[s].entry
         /\ step'[s].old = runs[s[2]] /\ ~InProgress(s[2], s[1])
         /\ Runs(s[1]) /\ UNCHANGED <<owner, row, runs>>
<1> DEFINE g == [step[s] EXCEPT !.at = "writes", !.old = runs[s[2]]]
<1>1. step \in [Steps -> StepRecords] /\ step[s] \in StepRecords
  BY FieldTypes DEF RecordsInv, TypeOK
<1>2. g.entry = step[s].entry /\ g.old = runs[s[2]]
  BY <1>1 DEF StepRecords
<1>3. ~InProgress(s[2], s[1]) /\ step' = [step EXCEPT ![s] = g]
  BY <1>1, RecordTypes DEF TakeRecord
<1> HIDE DEF g
<1>4. step'[s] = g
  BY <1>1, <1>3
<1>5. QED
  BY <1>2, <1>3, <1>4 DEF TakeRecord

\* What a step wrote stays written.
LEMMA WrittenStays ==
  ASSUME RecordsInv, [Next]_vars, NEW s \in Steps, Written(s)
  PROVE  Written(s)'
<1> USE StepKinds DEF Written
<1>1. SUFFICES ASSUME Runs(s[1])'
               PROVE  /\ step'[s].at \notin {"waits", "ready"}
                      /\ step'[s].at = "writes" => step'[s].entry # "running"
  BY OwnersMove
<1>2. Runs(s[1])
  BY <1>1, OwnersMove
<1>3. CASE step'[s].at = "writes" /\ TakeRecord(s)
  BY <1>2, <1>3, TakenEntry DEF RecordsInv, Working
<1>4. QED
  BY <1>2, <1>3, StepMoves

\* A step that is done stays so while its owner runs.
LEMMA DoneStays ==
  ASSUME RecordsInv, [Next]_vars, NEW s \in Steps, Runs(s[1])', step[s].at = "done"
  PROVE  step'[s] = step[s]
<1> USE StepKinds
<1>1. ASSUME NEW t \in Steps, StepActs(t)
      PROVE  step'[s] = step[s]
  <2>1. step[t].at \notin {"done", "refused"} \/ step' = step
    BY <1>1 DEF StepActs, Materialize, TakeRecord, WriteEntry, MakeFolder, Compute,
       ListDependents
  <2>2. t = s => step' = step
    BY <2>1
  <2>3. t # s => step'[s] = step[s]
    <3>1. CASE WriteEntry(t)
      BY <3>1, WriteEntryMoves DEF RecordsInv
    <3>2. CASE ~WriteEntry(t)
      BY <1>1, <3>2 DEF StepActs, Materialize, TakeRecord, MakeFolder, Compute,
         ListDependents, Set, RecordsInv, TypeOK
    <3>3. QED
      BY <3>1, <3>2
  <2>4. QED
    BY <2>2, <2>3
<1>2. ASSUME NEW c \in Clearers, ClearingActs(c)
      PROVE  step'[s] = step[s]
  <2>1. CASE Settle(c) /\ c # User
    <3>1. c \in Steps /\ Continue(c) /\ step[c].at = "replaced"
      BY <2>1 DEF Settle, Lives, RecordsInv, ClearsStarted
    <3>2. QED
      BY <3>1, ContinueMoves DEF RecordsInv
  <2>2. QED
    BY <1>2, <2>1 DEF ClearingActs, ClearOne, CountLeft, Settle
<1>3. ASSUME NEW p \in Pipes, Launch(p) \/ Die(p) \/ BeginClose(p) \/ PipelineActs(p)
      PROVE  step'[s] = step[s]
  <2>1. CASE Die(p) \/ BeginClose(p)
    BY <2>1 DEF Die, BeginClose, Stopped, Runs, RecordsInv, TypeOK
  <2>2. QED
    BY <1>3, <2>1 DEF Launch, PipelineActs, OwnerEnds, CutShort, EndRunning, Close
<1>4. CASE UserActs \/ UNCHANGED vars
  BY <1>4 DEF UserActs, PlanDelete, BeginRegister, ApplyDelete, RefuseRegister,
     DeleteFolder, vars
<1>5. QED
  BY <1>1, <1>2, <1>3, <1>4 DEF Next

\* A run about to be replaced has no step to begin.
LEMMA ReplacesEndedKept ==
  ASSUME RecordsInv, RecordsInv', ReplacesEnded, [Next]_vars
  PROVE  ReplacesEnded'
<1> USE StepKinds
<1>1. \A p \in Pipes : AllWritten(p) => AllWritten(p)'
  BY WrittenStays DEF AllWritten
<1>2. \A p \in Pipes : owner'[p] # "none" => row'[p] # "none"
  BY OwnersMove DEF ReplacesEnded
<1>3. ASSUME NEW s \in Steps, NEW q \in Pipes, step'[s].at = "writes",
             step'[s].old.pipe = q, q # s[1]
      PROVE  row'[q] = "gone" \/ AllWritten(q)'
  <2>1. CASE step'[s] = step[s]
    <3>1. /\ Started(q)
          /\ row[q] = "gone" \/ AllWritten(q)
      BY <1>3, <2>1 DEF ReplacesEnded, RecordsInv, ClearsStarted
    <3>2. owner[q] # "none"
      BY <3>1 DEF Started, Written
    <3>3. QED
      BY <1>1, <3>1, <3>2, OwnersMove
  <2>2. CASE TakeRecord(s)
    <3>1. /\ q = runs[s[2]].pipe /\ ~InProgress(s[2], s[1])
          /\ UNCHANGED <<owner, row, runs>>
      BY <1>3, <2>2, TakenEntry
    <3>2. runs[s[2]] # NoRun
      BY <1>3, <3>1, RecordTypes
    <3>3. s[2] \in DraftsOf(q) /\ Written(<<q, s[2]>>)
      BY <3>1, <3>2 DEF RecordsInv, RecordsOwned, Cut
    <3>4. row[q] \in {"ended", "gone"}
      BY <1>3, <3>1, <3>2, <3>3 DEF InProgress, PipelineRunning, ReplacesEnded, Written,
         RecordsInv, TypeOK
    <3>5. row[q] = "ended" => AllWritten(q)
      BY DEF RecordsInv, RowsTrue, AllWritten
    <3>6. QED
      BY <1>1, <3>1, <3>4, <3>5
  <2>3. QED
    BY <1>3, <2>1, <2>2, StepMoves
<1>4. \A s \in Steps : step'[s].old.pipe \in Pipes \cup {NoPipe}
  BY DEF RecordsInv, TypeOK, StepRecords, RunRecords
<1>5. QED
  BY <1>2, <1>3, <1>4 DEF ReplacesEnded

\* A run read is of a draft named, after that draft's own step.
LEMMA ReadsNamedKept ==
  ASSUME RecordsInv, RecordsInv', ReadsNamed, [Next]_vars
  PROVE  ReadsNamed'
<1> USE StepKinds, RecordTypes
<1>1. ASSUME NEW s \in Steps, NEW r \in step'[s].from
      PROVE  r[1] \in Reads[s[1]][s[2]]
  BY <1>1, StepMoves DEF ReadsNamed
<1>2. ASSUME NEW d \in Drafts, NEW r \in runs'[d].from
      PROVE  r[1] \in Reads[runs'[d].pipe][d]
  <2>1. ASSUME NEW s \in Steps, s[2] = d, WriteEntry(s)
        PROVE  r[1] \in Reads[runs'[d].pipe][d]
    BY <1>2, <2>1, EntryWritten DEF ReadsNamed
  <2>2. NoRun.from = {}
    BY DEF NoRun
  <2>3. QED
    BY <1>2, <2>1, <2>2, RecordMoves DEF ReadsNamed
<1>3. ASSUME NEW s \in Steps, Runs(s[1])', step'[s].at # "waits", NEW t \in Above(s)
      PROVE  Sentinel(t)'
  <2>1. t \in Steps /\ t[1] = s[1]
    BY DEF Above
  <2>2. Runs(s[1]) /\ Sentinel(t)
    <3>1. CASE step[s].at = "waits"
      <4>1. Materialize(s)
        BY <1>3, <3>1, StepMoves
      <4>2. QED
        BY <4>1 DEF Materialize
    <3>2. CASE step[s].at # "waits"
      <4>1. Runs(s[1])
        BY <1>3, <3>2, OwnersMove DEF RecordsInv, Unstarted
      <4>2. QED
        BY <3>2, <4>1 DEF ReadsNamed
    <3>3. QED
      BY <3>1, <3>2
  <2>3. step'[t] = step[t]
    BY <1>3, <2>1, <2>2, DoneStays DEF Sentinel
  <2>4. QED
    BY <2>2, <2>3 DEF Sentinel
<1>4. QED
  BY <1>1, <1>2, <1>3 DEF ReadsNamed

\* What a step recorded is what it read.
LEMMA OwnInputsKept ==
  ASSUME RecordsInv, RecordsInv', OwnInputs, [Next]_vars
  PROVE  OwnInputs'
<1> USE StepKinds, RecordTypes
<1> SUFFICES ASSUME NEW s \in Steps, Runs(s[1])', step'[s].at \notin {"done", "refused"},
                    runs'[s[2]].pipe = s[1]
             PROVE  runs'[s[2]].from = step'[s].from
  BY DEF OwnInputs
<1>1. CASE WriteEntry(s)
  <2>1. step'[s].from = step[s].from
    BY <1>1, StepMoves DEF WriteEntry
  <2>2. QED
    BY <1>1, <2>1, EntryWritten
<1>2. CASE ~WriteEntry(s)
  <2>1. runs[s[2]].pipe = s[1] /\ runs'[s[2]].from = runs[s[2]].from
    <3>1. ASSUME NEW t \in Steps, t[2] = s[2], WriteEntry(t)
          PROVE  FALSE
      <4>1. t[1] = s[1]
        BY <3>1, EntryWritten
      <4>2. t = s
        BY <3>1, <4>1
      <4>3. QED
        BY <1>2, <3>1, <4>2
    <3>2. QED
      BY <3>1, RecordMoves
  <2>2. Written(s)
    BY <2>1 DEF RecordsInv, RecordsOwned, Cut
  <2>3. Runs(s[1]) /\ step[s].at \notin {"waits", "ready"}
    BY <2>2, OwnersMove DEF Written
  <2>4. step'[s].from = step[s].from /\ step[s].at \notin {"done", "refused"}
    BY <2>3, StepMoves
  <2>5. QED
    BY <2>1, <2>3, <2>4 DEF OwnInputs
<1>3. QED
  BY <1>1, <1>2

\* What was computed from a run is among what is cleared with it ...
LEMMA DependentsDirect ==
  ASSUME RecordsInv, NEW S \in SUBSET Drafts, NEW spare, NEW d \in Drafts,
         NEW r \in runs[d].from, r[1] \in S, d \notin S, runs[d].pipe # spare
  PROVE  d \in Dependents(S, spare)
<1>1. runs[d] # NoRun
  BY DEF NoRun
<1>2. d \in Listed(runs)
  BY <1>1 DEF RecordsInv, RecordsOwned, Cut, Listed
<1>3. QED
  BY <1>2 DEF Dependents

\* ... and only drafts that read others are.
LEMMA DependentsRead ==
  ASSUME RecordsInv, ReadsNamed, NEW S \in SUBSET Drafts, NEW spare
  PROVE  Dependents(S, spare) \cap Tops = {}
<1> SUFFICES ASSUME NEW x \in Dependents(S, spare), x \in Tops
             PROVE  FALSE
  OBVIOUS
<1> DEFINE C == S \cup {y \in Drafts : runs[y].from # {}}
<1>1. x \in Drafts /\ x \notin S /\ runs[x] # NoRun
  BY DEF Dependents, Listed, RecordsInv, TypeOK
<1>2. x \in C
  <2>1. \A y \in Listed(runs) : (\E r \in runs[y].from : r[1] \in C) => y \in C
    BY DEF Listed, RecordsInv, TypeOK
  <2>2. C \in SUBSET Drafts /\ S \subseteq C
    OBVIOUS
  <2> HIDE DEF C
  <2>3. QED
    BY <2>1, <2>2 DEF Dependents
<1>3. PICK r \in runs[x].from : TRUE
  BY <1>1, <1>2
<1>4. runs[x].pipe \in Pipes /\ x \in DraftsOf(runs[x].pipe)
  BY <1>1 DEF RecordsInv, RecordsOwned, Cut
<1>5. QED
  BY <1>3, <1>4 DEF ReadsNamed, Tops

\* Who will clear a draft, or died, still will while its list stays.
LEMMA CleansStay ==
  ASSUME RecordsInv, [Next]_vars, NEW c \in Clearers, NEW d \in Drafts, NEW x,
         clearing'[c] = clearing[c], Cleans(c, d, x)
  PROVE  Cleans(c, d, x)'
<1> USE StepKinds DEF Cleans, Lives
<1>1. CASE c = User
  BY <1>1
<1>2. CASE c # User
  <2>1. c \in Steps /\ clearing[c].at # "none"
    BY <1>2
  <2>2. owner[c[1]] # "none"
    BY <2>1 DEF RecordsInv, Unstarted
  <2>3. Runs(c[1])' => Runs(c[1])
    BY <2>1, <2>2, OwnersMove
  <2>4. QED
    BY <1>2, <2>3
<1>3. QED
  BY <1>1, <1>2

\* A living step that is about to list finds every record computed from the run
\* it replaced: its own pipeline has made none yet.
LEMMA ListFinds ==
  ASSUME RecordsInv, ReadsNamed, ClearsBelow, NEW s \in Steps, ListDependents(s),
         NEW d \in Drafts, NEW r \in runs[d].from, r[1] \in clearing[s].seed
  PROVE  d \in Dependents(clearing[s].seed, s[1])
<1> USE StepKinds
<1>1. Runs(s[1]) /\ clearing[s].at = "list" /\ clearing[s].seed = {s[2]}
  BY DEF ListDependents, ClearsBelow
<1>2. runs[d] # NoRun
  BY DEF NoRun
<1>3. /\ runs[d].pipe \in Pipes /\ d \in DraftsOf(runs[d].pipe)
      /\ Written(<<runs[d].pipe, d>>) /\ s[2] \in Reads[runs[d].pipe][d]
  BY <1>1, <1>2 DEF RecordsInv, RecordsOwned, Cut, ReadsNamed
<1>4. s[2] # d
  <2>1. <<runs[d].pipe, d>> \in Steps
    BY <1>3
  <2>2. QED
    BY <1>3, <2>1, DraftsAssumption
<1>5. runs[d].pipe # s[1]
  <2> SUFFICES ASSUME runs[d].pipe = s[1]
               PROVE  FALSE
    OBVIOUS
  <2> DEFINE t == <<s[1], d>>
  <2>1. t \in Steps /\ t[1] = s[1] /\ t[2] = d /\ step[t].at # "waits"
    BY <1>1, <1>3 DEF Written
  <2>2. s \in Above(t)
    BY <1>3, <2>1 DEF Above
  <2>3. Sentinel(s)
    BY <1>1, <2>1, <2>2 DEF ReadsNamed
  <2>4. step[s].at = "replaced"
    BY <1>1 DEF RecordsInv, ClearsStarted
  <2>5. QED
    BY <2>3, <2>4 DEF Sentinel
<1>6. QED
  BY <1>1, <1>4, <1>5, DependentsDirect

\* A clearing's own moves.
LEMMA ListMoves ==
  ASSUME RecordsInv, NEW s \in Steps, ListDependents(s)
  PROVE  /\ clearing'[s].at = "clear" /\ clearing'[s].seed = clearing[s].seed
         /\ clearing'[s].todo = Dependents(clearing[s].seed, s[1])
         /\ \A c \in Clearers \ {s} : clearing'[c] = clearing[c]
         /\ clearing[s].at = "list"
         /\ UNCHANGED <<runs, owner, user>>
<1> DEFINE later == Dependents(clearing[s].seed, s[1])
           touched == PipesOf(later) \cup {step[s].old.pipe}
           g == [clearing[s] EXCEPT !.at = "clear", !.todo = later, !.touched = touched]
<1>1. s \in Clearers /\ clearing \in [Clearers -> Clearings] /\ clearing[s] \in Clearings
  BY StepKinds, FieldTypes DEF RecordsInv, TypeOK
<1>2. clearing' = [clearing EXCEPT ![s] = g]
  BY DEF ListDependents
<1> HIDE DEF later, touched
<1>3. g.at = "clear" /\ g.seed = clearing[s].seed /\ g.todo = later
  BY <1>1 DEF Clearings
<1> HIDE DEF g
<1>4. clearing'[s] = g /\ \A c \in Clearers \ {s} : clearing'[c] = clearing[c]
  BY <1>1, <1>2
<1>5. QED
  BY <1>3, <1>4 DEF ListDependents, later

LEMMA ClearOneMoves ==
  ASSUME RecordsInv, NEW c \in Clearers, ClearOne(c)
  PROVE  \E x \in clearing[c].todo :
           /\ runs'[x] = NoRun /\ \A d \in Drafts \ {x} : runs'[d] = runs[d]
           /\ clearing'[c].at = "clear" /\ clearing'[c].seed = clearing[c].seed
           /\ clearing'[c].todo = clearing[c].todo \ {x}
           /\ \A b \in Clearers \ {c} : clearing'[b] = clearing[b]
           /\ clearing[c].at = "clear" /\ Lives(c)
           /\ UNCHANGED <<owner, user>>
<1>1. PICK x \in clearing[c].todo :
        /\ runs' = [runs EXCEPT ![x] = NoRun]
        /\ clearing' = [clearing EXCEPT ![c].todo = @ \ {x}]
  BY DEF ClearOne
<1> DEFINE g == [clearing[c] EXCEPT !.todo = clearing[c].todo \ {x}]
<1>2. /\ clearing \in [Clearers -> Clearings] /\ clearing[c] \in Clearings
      /\ runs \in [Drafts -> RunRecords] /\ x \in Drafts
  BY FieldTypes DEF RecordsInv, TypeOK, Clearings
<1>3. /\ g.at = clearing[c].at /\ g.seed = clearing[c].seed
      /\ g.todo = clearing[c].todo \ {x}
  BY <1>2 DEF Clearings
<1>4. clearing' = [clearing EXCEPT ![c] = g]
  BY <1>1, <1>2
<1> HIDE DEF g
<1>5. clearing'[c] = g /\ \A b \in Clearers \ {c} : clearing'[b] = clearing[b]
  BY <1>2, <1>4
<1>6. runs'[x] = NoRun /\ \A d \in Drafts \ {x} : runs'[d] = runs[d]
  BY <1>1, <1>2
<1>7. QED
  BY <1>3, <1>5, <1>6 DEF ClearOne

LEMMA CountSettleMoves ==
  ASSUME RecordsInv, NEW c \in Clearers, CountLeft(c) \/ Settle(c)
  PROVE  /\ Lives(c)
         /\ \/ clearing[c].at = "clear" /\ clearing[c].todo = {}
            \/ clearing[c].at = "settle"
         /\ clearing'[c].at \in {"settle", "none"} /\ clearing'[c].todo = {}
         /\ \A b \in Clearers \ {c} : clearing'[b] = clearing[b]
         /\ user' = user \/ (c = User /\ user'.at = "idle" /\ clearing'[c].at = "none")
         /\ UNCHANGED <<runs, owner>>
<1>1. clearing \in [Clearers -> Clearings] /\ clearing[c] \in Clearings
  BY FieldTypes DEF RecordsInv, TypeOK
<1>2. CASE CountLeft(c)
  <2> DEFINE bare == {p \in clearing[c].touched : StepsLeft(p, runs) = {}}
             g == [clearing[c] EXCEPT !.at = "settle", !.bare = bare]
  <2>1. clearing' = [clearing EXCEPT ![c] = g]
    BY <1>2 DEF CountLeft
  <2> HIDE DEF bare
  <2>2. g.at = "settle" /\ g.todo = clearing[c].todo
    BY <1>1 DEF Clearings
  <2> HIDE DEF g
  <2>3. clearing'[c] = g /\ \A b \in Clearers \ {c} : clearing'[b] = clearing[b]
    BY <1>1, <2>1
  <2>4. QED
    BY <1>2, <2>2, <2>3 DEF CountLeft
<1>3. CASE Settle(c)
  <2>1. clearing'[c] = Cleared /\ \A b \in Clearers \ {c} : clearing'[b] = clearing[b]
    BY <1>1, <1>3 DEF Settle
  <2>2. Cleared.at = "none" /\ Cleared.todo = {}
    BY DEF Cleared
  <2>3. QED
    BY <1>3, <2>1, <2>2 DEF Settle, NoPlan
<1>4. QED
  BY <1>2, <1>3

\* A delete begun, refused, or gone through with.
LEMMA BeginMoves ==
  ASSUME RecordsInv, NEW d \in Drafts, NEW verb, BeginDelete(d, verb)
  PROVE  /\ user'.at = "deletes" /\ user'.draft = {d}
         /\ clearing'[User].at = "list" /\ clearing'[User].seed = {d}
         /\ clearing'[User].todo = IF d \in Listed(runs) THEN Dependents({d}, NoPipe) ELSE {}
         /\ \A c \in Clearers \ {User} : clearing'[c] = clearing[c]
<1> DEFINE seeds == {d} \cap Listed(runs)
           later == IF seeds = {} THEN {} ELSE Dependents(seeds, NoPipe)
           begun == [at |-> "list", seed |-> {d}, todo |-> later,
                     touched |-> PipesOf(seeds \cup later), bare |-> {}]
<1>1. later = IF d \in Listed(runs) THEN Dependents({d}, NoPipe) ELSE {}
  <2>1. CASE d \in Listed(runs)
    <3>1. seeds = {d}
      BY <2>1
    <3>2. QED
      BY <2>1, <3>1
  <2>2. CASE d \notin Listed(runs)
    BY <2>2
  <2>3. QED
    BY <2>1, <2>2
<1>2. /\ clearing' = [clearing EXCEPT ![User] = begun]
      /\ user' = [at |-> "deletes", verb |-> verb, draft |-> {d}, plan |-> {}]
  BY DEF BeginDelete
<1>3. begun.at = "list" /\ begun.seed = {d} /\ begun.todo = later
  OBVIOUS
<1> HIDE DEF begun, later
<1>4. /\ clearing'[User] = begun
      /\ \A c \in Clearers \ {User} : clearing'[c] = clearing[c]
  BY <1>2, StepKinds DEF RecordsInv, TypeOK
<1>5. QED
  BY <1>1, <1>2, <1>3, <1>4

LEMMA DeleteMoves ==
  ASSUME RecordsInv, DeleteFolder
  PROVE  /\ user.at = "deletes" /\ user'.at = "clears"
         /\ clearing'[User].at = "clear" /\ clearing'[User].seed = clearing[User].seed
         /\ clearing'[User].todo = clearing[User].todo
         /\ \A c \in Clearers \ {User} : clearing'[c] = clearing[c]
         /\ UNCHANGED owner
         /\ \E x \in user.draft : x \in Drafts /\ runs'[x] = NoRun
                                 /\ \A d \in Drafts \ {x} : runs'[d] = runs[d]
<1> DEFINE g == [clearing[User] EXCEPT !.at = "clear"]
<1>1. /\ clearing \in [Clearers -> Clearings] /\ clearing[User] \in Clearings
      /\ runs \in [Drafts -> RunRecords] /\ user.draft \subseteq Drafts
      /\ User \in Clearers
  BY StepKinds, FieldTypes DEF RecordsInv, TypeOK
<1>2. g.at = "clear" /\ g.seed = clearing[User].seed /\ g.todo = clearing[User].todo
  BY <1>1 DEF Clearings
<1>3. clearing' = [clearing EXCEPT ![User] = g]
  BY DEF DeleteFolder
<1> HIDE DEF g
<1>4. /\ clearing'[User] = g
      /\ \A c \in Clearers \ {User} : clearing'[c] = clearing[c]
  BY <1>1, <1>3
<1>5. \E x \in user.draft : runs' = [runs EXCEPT ![x] = NoRun]
  BY DEF DeleteFolder
<1>6. user'.at = "clears" /\ user.at = "deletes" /\ owner' = owner
  BY DEF DeleteFolder, RecordsInv, TypeOK
<1>7. QED
  BY <1>1, <1>2, <1>4, <1>5, <1>6

\* Who changes a clearing.
LEMMA ClearingActions ==
  ASSUME RecordsInv, [Next]_vars, NEW c \in Clearers, clearing'[c] # clearing[c]
  PROVE  \/ c \in Steps /\ (WriteEntry(c) \/ ListDependents(c))
         \/ ClearOne(c) \/ CountLeft(c) \/ Settle(c)
         \/ /\ c = User
            /\ \/ RefuseRegister \/ DeleteFolder
               \/ /\ user.at \in {"idle", "asks"} /\ UNCHANGED runs
                  /\ \E d \in Drafts, verb \in {"outputs", "draft", "none"} : BeginDelete(d, verb)
<1> USE StepKinds
<1>1. ASSUME NEW s \in Steps, StepActs(s)
      PROVE  c = s /\ (WriteEntry(s) \/ ListDependents(s))
  <2>1. CASE WriteEntry(s)
    <3>1. \A b \in Clearers \ {s} : clearing'[b] = clearing[b]
      BY <2>1, EntryWritten
    <3>2. QED
      BY <2>1, <3>1
  <2>2. CASE ListDependents(s)
    <3>1. \A b \in Clearers \ {s} : clearing'[b] = clearing[b]
      BY <2>2, ListMoves
    <3>2. QED
      BY <2>2, <3>1
  <2>3. CASE Materialize(s) \/ TakeRecord(s) \/ MakeFolder(s) \/ Compute(s)
    BY <2>3 DEF Materialize, TakeRecord, MakeFolder, Compute
  <2>4. QED
    BY <1>1, <2>1, <2>2, <2>3 DEF StepActs
<1>2. ASSUME NEW b \in Clearers, ClearingActs(b)
      PROVE  c = b /\ (ClearOne(c) \/ CountLeft(c) \/ Settle(c))
  BY <1>2, ClearOneMoves, CountSettleMoves DEF ClearingActs
<1>3. ASSUME NEW p \in Pipes, Launch(p) \/ Die(p) \/ BeginClose(p) \/ PipelineActs(p)
      PROVE  FALSE
  BY <1>3 DEF Launch, Die, BeginClose, PipelineActs, OwnerEnds, CutShort, EndRunning, Close
<1>4. CASE UserActs
  <2>1. ASSUME NEW d \in Drafts, NEW verb \in {"outputs", "draft", "none"},
               BeginDelete(d, verb), user.at \in {"idle", "asks"}, UNCHANGED runs
        PROVE  /\ c = User
               /\ user.at \in {"idle", "asks"} /\ UNCHANGED runs
               /\ \E e \in Drafts, v \in {"outputs", "draft", "none"} : BeginDelete(e, v)
    BY <2>1, BeginMoves
  <2>2. CASE ApplyDelete
    <3>1. user.draft \subseteq Drafts /\ user.verb \in {"outputs", "draft", "none"}
      BY DEF RecordsInv, TypeOK
    <3>2. /\ user.at = "asks" /\ UNCHANGED runs
          /\ \E d \in user.draft : BeginDelete(d, user.verb) \/ UNCHANGED clearing
      BY <2>2 DEF ApplyDelete
    <3>3. QED
      BY <2>1, <3>1, <3>2
  <2>3. CASE \E d \in Drafts : BeginRegister(d)
    BY <2>1, <2>3 DEF BeginRegister
  <2>4. CASE RefuseRegister
    BY <2>4 DEF RefuseRegister, RecordsInv, TypeOK
  <2>5. CASE DeleteFolder
    BY <2>5, DeleteMoves
  <2>6. CASE \E d \in Drafts, verb \in {"outputs", "draft"} : PlanDelete(d, verb)
    BY <2>6 DEF PlanDelete
  <2>7. QED
    BY <1>4, <2>2, <2>3, <2>4, <2>5, <2>6 DEF UserActs
<1>5. CASE UNCHANGED vars
  BY <1>5 DEF vars
<1>6. QED
  BY <1>1, <1>2, <1>3, <1>4, <1>5 DEF Next

\* Who has a record to clear keeps it until it is cleared.
LEMMA CleansKept ==
  ASSUME RecordsInv, ReadsNamed, ClearsBelow, [Next]_vars, NEW c \in Clearers,
         NEW d \in Drafts, NEW r \in runs[d].from, Cleans(c, d, r[1])
  PROVE  Cleans(c, d, r[1])' \/ runs'[d] = NoRun
<1> USE StepKinds
<1>1. CASE clearing'[c] = clearing[c]
  BY <1>1, CleansStay
<1>2. CASE c \in Steps /\ WriteEntry(c)
  BY <1>2, EntryWritten DEF Cleans
<1>3. CASE c \in Steps /\ ListDependents(c)
  <2>1. d \in Dependents(clearing[c].seed, c[1])
    BY <1>3, ListFinds DEF Cleans
  <2>2. QED
    BY <1>3, <2>1, ListMoves DEF Cleans
<1>4. CASE ClearOne(c)
  <2>1. PICK x \in clearing[c].todo :
           /\ runs'[x] = NoRun
           /\ clearing'[c].at = "clear" /\ clearing'[c].seed = clearing[c].seed
           /\ clearing'[c].todo = clearing[c].todo \ {x}
           /\ clearing[c].at = "clear" /\ Lives(c)
    BY <1>4, ClearOneMoves
  <2>2. d \in clearing[c].todo /\ r[1] \in clearing[c].seed
    BY <2>1 DEF Cleans
  <2>3. QED
    BY <2>1, <2>2 DEF Cleans
<1>5. CASE CountLeft(c) \/ Settle(c)
  BY <1>5, CountSettleMoves DEF Cleans
<1>6. CASE c = User /\ (RefuseRegister \/ DeleteFolder \/ user.at \in {"idle", "asks"})
  <2>1. user.at \in {"deletes", "idle", "asks"}
    BY <1>6 DEF RefuseRegister, DeleteFolder
  <2>2. QED
    BY <1>6, <2>1 DEF ClearsBelow, Cleans
<1>7. QED
  BY <1>1, <1>2, <1>3, <1>4, <1>5, <1>6, ClearingActions

\* A top run that is gone leaves no record of its own making.
LEMMA StaleFoundKept ==
  ASSUME RecordsInv, RecordsInv', ReadsNamed, OwnInputs, ClearsBelow, StaleFound, [Next]_vars
  PROVE  StaleFound'
<1> USE StepKinds, RecordTypes
<1>1. ASSUME NEW d \in Drafts, NEW r \in runs[d].from, r[1] \in Tops, runs'[d] # NoRun
      PROVE  \/ runs[d].late
             \/ runs'[r[1]].pipe = r[2]
             \/ \E c \in Clearers : Cleans(c, d, r[1])'
  <2>1. CASE runs[d].late
    BY <2>1
  <2>2. ASSUME NEW c \in Clearers, Cleans(c, d, r[1])
        PROVE  Cleans(c, d, r[1])'
    BY <1>1, <2>2, CleansKept
  <2>3. CASE runs[r[1]].pipe = r[2]
    <3>1. r[1] \in Drafts /\ r[2] \in Pipes
      BY DEF RecordsInv, TypeOK, RunRecords
    <3>2. ASSUME NEW s \in Steps, s[2] = r[1], WriteEntry(s)
          PROVE  runs'[r[1]].pipe = r[2] \/ Cleans(s, d, r[1])'
      <4>1. runs[s[2]] # NoRun /\ runs[s[2]].pipe = r[2]
        BY <2>3, <3>1, <3>2
      <4>2. /\ runs'[s[2]].pipe = s[1]
            /\ runs[s[2]].pipe # s[1] => clearing'[s].at = "list" /\ clearing'[s].seed = {s[2]}
        BY <3>2, <4>1, EntryWritten
      <4>3. QED
        BY <3>2, <4>1, <4>2 DEF Cleans
    <3>3. ASSUME NEW c \in Clearers, ClearOne(c)
          PROVE  runs'[r[1]] = runs[r[1]]
      <4>1. PICK x \in clearing[c].todo : \A e \in Drafts \ {x} : runs'[e] = runs[e]
        BY <3>3, ClearOneMoves
      <4>2. x # r[1]
        BY <1>1, <4>1 DEF ClearsBelow
      <4>3. QED
        BY <3>1, <4>1, <4>2
    <3>4. CASE DeleteFolder
      <4>1. PICK x \in user.draft : \A e \in Drafts \ {x} : runs'[e] = runs[e]
        BY <3>4, DeleteMoves
      <4>2. CASE x = r[1]
        <5>1. user.at = "deletes" /\ user' = [user EXCEPT !.at = "clears"]
          BY <3>4 DEF DeleteFolder
        <5>2. r[1] \in clearing[User].seed /\ d \in clearing[User].todo
          BY <2>3, <4>2, <5>1 DEF ClearsBelow
        <5>3. Cleans(User, d, r[1])'
          BY <3>4, <5>2, DeleteMoves DEF Cleans
        <5>4. QED
          BY <5>3
      <4>3. QED
        BY <2>3, <3>1, <4>1, <4>2
    <3>5. ASSUME NEW p \in Pipes, NEW e \in Drafts, EndRunning(p, e)
          PROVE  runs'[r[1]].pipe = r[2]
      BY <2>3, <3>1, <3>5, EndRunningPipe
    <3>6. CASE UNCHANGED runs
      BY <2>3, <3>6
    <3>7. ASSUME NEW s \in Steps, s[2] # r[1], WriteEntry(s)
          PROVE  runs'[r[1]] = runs[r[1]]
      <4>1. \A e \in Drafts \ {s[2]} : runs'[e] = runs[e]
        BY <3>7, EntryWritten
      <4>2. QED
        BY <3>1, <3>7, <4>1
    <3>8. QED
      BY <2>3, <3>2, <3>3, <3>4, <3>5, <3>6, <3>7, RecordActions
  <2>4. QED
    BY <1>1, <2>1, <2>2, <2>3 DEF StaleFound
<1>2. ASSUME NEW d \in Drafts, NEW r \in runs'[d].from, r[1] \in Tops
      PROVE  \/ runs'[d].late
             \/ runs'[r[1]].pipe = r[2]
             \/ \E c \in Clearers : Cleans(c, d, r[1])'
  <2>1. runs'[d] # NoRun
    BY <1>2 DEF NoRun
  <2>2. CASE runs'[d].from = runs[d].from /\ runs'[d].late = runs[d].late
    BY <1>1, <1>2, <2>1, <2>2
  <2>3. ASSUME NEW s \in Steps, s[2] = d, WriteEntry(s)
        PROVE  \/ runs'[d].late
               \/ runs'[r[1]].pipe = r[2]
               \/ \E c \in Clearers : Cleans(c, d, r[1])'
    <3>1. CASE runs[d].pipe = s[1]
      <4>1. /\ runs'[s[2]].from = step[s].from /\ runs'[s[2]].late = runs[s[2]].late
            /\ Runs(s[1]) /\ step[s].at = "writes"
        BY <2>3, <3>1, EntryWritten
      <4>2. runs[s[2]].from = step[s].from
        BY <2>3, <3>1, <4>1 DEF OwnInputs
      <4>3. QED
        BY <2>2, <2>3, <4>1, <4>2
    <3>2. CASE runs[d].pipe # s[1]
      <4>1. /\ runs'[s[2]].from = step[s].from
            /\ runs'[s[2]].late = \E q \in step[s].from : runs[q[1]].pipe # q[2]
            /\ \A e \in Drafts \ {s[2]} : runs'[e] = runs[e]
        BY <2>3, <3>2, EntryWritten
      <4>2. r \in step[s].from
        BY <1>2, <2>3, <4>1
      <4>3. r[1] \in Drafts /\ r[1] # d
        BY <2>3, <4>2, DraftsAssumption DEF ReadsNamed
      <4>4. runs'[r[1]] = runs[r[1]]
        BY <2>3, <4>1, <4>3
      <4>5. CASE runs[r[1]].pipe = r[2]
        BY <4>4, <4>5
      <4>6. CASE runs[r[1]].pipe # r[2]
        <5>1. \E q \in step[s].from : runs[q[1]].pipe # q[2]
          BY <4>2, <4>6
        <5>2. QED
          BY <2>3, <4>1, <5>1
      <4>7. QED
        BY <4>5, <4>6
    <3>3. QED
      BY <3>1, <3>2
  <2>4. QED
    BY <2>1, <2>2, <2>3, RecordMoves
<1>3. QED
  BY <1>2 DEF StaleFound

\* Where the user's command goes.
LEMMA UserMoves ==
  ASSUME RecordsInv, [Next]_vars
  PROVE  \/ user' = user
         \/ user.at \in {"idle", "asks"} /\ user'.at \in {"idle", "asks"} /\ UNCHANGED clearing
         \/ user'.at = "idle" /\ clearing'[User].at = "none"
         \/ user'.at = "clears"
         \/ /\ user.at \in {"idle", "asks"} /\ UNCHANGED runs
            /\ \E d \in Drafts, verb \in {"outputs", "draft", "none"} : BeginDelete(d, verb)
<1> USE StepKinds
<1>1. ASSUME NEW s \in Steps, StepActs(s)
      PROVE  user' = user
  BY <1>1 DEF StepActs, Materialize, TakeRecord, WriteEntry, MakeFolder, Compute,
     ListDependents
<1>2. ASSUME NEW c \in Clearers, ClearingActs(c)
      PROVE  user' = user \/ (user'.at = "idle" /\ clearing'[User].at = "none")
  BY <1>2, CountSettleMoves DEF ClearingActs, ClearOne
<1>3. ASSUME NEW p \in Pipes, Launch(p) \/ Die(p) \/ BeginClose(p) \/ PipelineActs(p)
      PROVE  user' = user
  BY <1>3 DEF Launch, Die, BeginClose, PipelineActs, OwnerEnds, CutShort, EndRunning, Close
<1>4. CASE UserActs
  <2>1. CASE \E d \in Drafts, verb \in {"outputs", "draft"} : PlanDelete(d, verb)
    BY <2>1 DEF PlanDelete
  <2>2. CASE ApplyDelete
    <3>1. user.draft \subseteq Drafts /\ user.verb \in {"outputs", "draft", "none"}
      BY DEF RecordsInv, TypeOK
    <3>2. user.at = "asks" /\ UNCHANGED runs
      BY <2>2 DEF ApplyDelete
    <3>3. \/ \E d \in user.draft : BeginDelete(d, user.verb)
          \/ user' = NoPlan /\ UNCHANGED clearing
      BY <2>2 DEF ApplyDelete
    <3>4. NoPlan.at = "idle"
      BY DEF NoPlan
    <3>5. QED
      BY <3>1, <3>2, <3>3, <3>4
  <2>3. CASE \E d \in Drafts : BeginRegister(d)
    BY <2>3 DEF BeginRegister
  <2>4. CASE RefuseRegister
    BY <2>4 DEF RefuseRegister, NoPlan, Cleared, RecordsInv, TypeOK
  <2>5. CASE DeleteFolder
    BY <2>5, DeleteMoves
  <2>6. QED
    BY <1>4, <2>1, <2>2, <2>3, <2>4, <2>5 DEF UserActs
<1>5. CASE UNCHANGED vars
  BY <1>5 DEF vars
<1>6. QED
  BY <1>1, <1>2, <1>3, <1>4, <1>5 DEF Next

\* A delete begun lists what was computed from its draft.
LEMMA BeginFinds ==
  ASSUME RecordsInv, ReadsNamed, NEW x \in Drafts, NEW verb, BeginDelete(x, verb),
         NEW d \in Drafts, NEW r \in runs[d].from, r[1] = x, runs[x].pipe = r[2]
  PROVE  d \in clearing'[User].todo
<1> USE StepKinds, RecordTypes
<1>1. runs[d] # NoRun /\ r[2] \in Pipes
  BY DEF NoRun, RecordsInv, TypeOK, RunRecords
<1>2. /\ runs[d].pipe \in Pipes /\ d \in DraftsOf(runs[d].pipe)
      /\ x \in Reads[runs[d].pipe][d]
  BY <1>1 DEF RecordsInv, RecordsOwned, Cut, ReadsNamed
<1>3. x # d
  <2>1. <<runs[d].pipe, d>> \in Steps
    BY <1>2
  <2>2. QED
    BY <1>2, <2>1, DraftsAssumption
<1>4. runs[x] # NoRun
  BY <1>1
<1>5. x \in Listed(runs)
  BY <1>4 DEF Listed, RecordsInv, RecordsOwned, Cut
<1>6. d \in Dependents({x}, NoPipe)
  BY <1>2, <1>3, DependentsDirect
<1>7. QED
  BY <1>5, <1>6, BeginMoves

\* While the user deletes, no record is written.
LEMMA DeletingQuiet ==
  ASSUME RecordsInv, QuietDeletes, ClearsBelow, [Next]_vars, user.at = "deletes",
         user'.at = "deletes"
  PROVE  /\ \A d \in Drafts : runs'[d].pipe = runs[d].pipe /\ runs'[d].from = runs[d].from
         /\ clearing'[User] = clearing[User] /\ user' = user
<1> USE StepKinds
<1>1. /\ clearing[User].at = "list"
      /\ \A s \in Steps : Runs(s[1]) => step[s].at \in {"waits", "done", "refused"}
  BY DEF ClearsBelow, RecordsInv, StepsIdle
<1>2. \A s \in Steps : ~WriteEntry(s)
  BY <1>1 DEF WriteEntry
<1>3. \A c \in Clearers : ~ClearOne(c)
  <2>1. \A s \in Steps : Lives(s) => clearing[s].at = "none"
    BY <1>1 DEF Lives, RecordsInv, ClearsStarted
  <2>2. \A s \in Steps : ~ClearOne(s)
    BY <2>1 DEF ClearOne
  <2>3. ~ClearOne(User)
    BY <1>1 DEF ClearOne
  <2>4. QED
    BY <2>2, <2>3
<1>4. ~DeleteFolder
  BY DeleteMoves
<1>5. ASSUME NEW d \in Drafts
      PROVE  runs'[d].pipe = runs[d].pipe /\ runs'[d].from = runs[d].from
  BY <1>2, <1>3, <1>4, RecordActions, EndRunningPipe
<1>6. user' = user
  BY UserMoves
<1>7. clearing'[User] = clearing[User]
  <2>1. ~RefuseRegister
    BY DEF RefuseRegister, NoPlan
  <2>2. ~CountLeft(User) /\ ~Settle(User)
    BY <1>1, CountSettleMoves
  <2>3. QED
    BY <1>3, <1>4, <2>1, <2>2, ClearingActions
<1>8. QED
  BY <1>5, <1>6, <1>7

\* Clearings start from the draft in hand and clear drafts that read others.
LEMMA ClearsBelowKept ==
  ASSUME RecordsInv, RecordsInv', QuietDeletes, ReadsNamed, ClearsBelow, [Next]_vars
  PROVE  ClearsBelow'
<1> USE StepKinds, RecordTypes
<1>1. ASSUME NEW c \in Clearers
      PROVE  clearing'[c].todo \cap Tops = {}
  <2>1. CASE clearing'[c] = clearing[c]
    BY <2>1 DEF ClearsBelow
  <2>2. CASE c \in Steps /\ WriteEntry(c)
    BY <2>2, EntryWritten DEF ClearsBelow
  <2>3. CASE c \in Steps /\ ListDependents(c)
    <3>1. clearing[c].seed \in SUBSET Drafts
      BY FieldTypes DEF RecordsInv, Clearings
    <3>2. QED
      BY <2>3, <3>1, ListMoves, DependentsRead
  <2>4. CASE ClearOne(c)
    BY <2>4, ClearOneMoves DEF ClearsBelow
  <2>5. CASE CountLeft(c) \/ Settle(c)
    BY <2>5, CountSettleMoves
  <2>6. CASE c = User /\ DeleteFolder
    BY <2>6, DeleteMoves DEF ClearsBelow
  <2>7. CASE c = User /\ RefuseRegister
    <3>1. clearing'[c] = Cleared
      BY <2>7 DEF RefuseRegister, RecordsInv, TypeOK
    <3>2. QED
      BY <3>1 DEF Cleared
  <2>8. ASSUME NEW d \in Drafts, NEW verb, BeginDelete(d, verb), c = User
        PROVE  clearing'[c].todo \cap Tops = {}
    <3>1. {d} \in SUBSET Drafts
      OBVIOUS
    <3>2. Dependents({d}, NoPipe) \cap Tops = {}
      BY <3>1, DependentsRead
    <3>3. QED
      BY <2>8, <3>2, BeginMoves
  <2>9. QED
    BY <2>1, <2>2, <2>3, <2>4, <2>5, <2>6, <2>7, <2>8, ClearingActions
<1>2. ASSUME NEW s \in Steps, clearing'[s].at = "list"
      PROVE  clearing'[s].seed = {s[2]}
  <2>1. CASE clearing'[s] = clearing[s]
    BY <1>2, <2>1 DEF ClearsBelow
  <2>2. CASE WriteEntry(s)
    BY <1>2, <2>2, EntryWritten DEF ClearsBelow
  <2>3. CASE ListDependents(s)
    BY <1>2, <2>3, ListMoves
  <2>4. CASE ClearOne(s)
    BY <1>2, <2>4, ClearOneMoves
  <2>5. CASE CountLeft(s) \/ Settle(s)
    BY <1>2, <2>5, CountSettleMoves
  <2>6. QED
    BY <2>1, <2>2, <2>3, <2>4, <2>5, ClearingActions
<1>3. ASSUME user'.at \in {"idle", "asks"}
      PROVE  clearing'[User].at = "none"
  <2>1. CASE user'.at = "idle" /\ clearing'[User].at = "none"
    BY <2>1
  <2>2. CASE user.at \in {"idle", "asks"} /\ UNCHANGED clearing
    BY <2>2 DEF ClearsBelow
  <2>3. CASE user' = user
    <3>1. clearing[User].at = "none"
      BY <1>3, <2>3 DEF ClearsBelow
    <3>2. ~ClearOne(User) /\ ~CountLeft(User) /\ ~Settle(User)
      BY <3>1 DEF ClearOne, CountLeft, Settle
    <3>3. ~RefuseRegister /\ ~DeleteFolder
      BY <1>3, <2>3 DEF RefuseRegister, DeleteFolder
    <3>4. \A d \in Drafts, verb \in {"outputs", "draft", "none"} : ~BeginDelete(d, verb)
      BY <1>3, BeginMoves
    <3>5. clearing'[User] = clearing[User]
      BY <3>2, <3>3, <3>4, ClearingActions
    <3>6. QED
      BY <3>1, <3>5
  <2>4. ASSUME NEW d \in Drafts, NEW verb, BeginDelete(d, verb)
        PROVE  FALSE
    BY <1>3, <2>4, BeginMoves
  <2>5. QED
    BY <1>3, <2>1, <2>2, <2>3, <2>4, UserMoves
<1>4. ASSUME user'.at = "deletes"
      PROVE  /\ clearing'[User].at = "list" /\ clearing'[User].seed = user'.draft
             /\ \A d \in Drafts : \A r \in runs'[d].from :
                  r[1] \in user'.draft /\ runs'[r[1]].pipe = r[2]
                    => d \in clearing'[User].todo
  <2>1. CASE user.at = "deletes"
    <3>1. \A d \in Drafts : runs'[d].pipe = runs[d].pipe /\ runs'[d].from = runs[d].from
      BY <1>4, <2>1, DeletingQuiet
    <3>2. clearing'[User] = clearing[User] /\ user' = user
      BY <1>4, <2>1, DeletingQuiet
    <3>3. \A d \in Drafts : \A r \in runs[d].from : r[1] \in Drafts
      BY DEF RecordsInv, TypeOK, RunRecords
    <3>4. QED
      BY <2>1, <3>1, <3>2, <3>3 DEF ClearsBelow
  <2>2. ASSUME NEW x \in Drafts, NEW verb, BeginDelete(x, verb), UNCHANGED runs
        PROVE  /\ clearing'[User].at = "list" /\ clearing'[User].seed = user'.draft
               /\ \A d \in Drafts : \A r \in runs'[d].from :
                    r[1] \in user'.draft /\ runs'[r[1]].pipe = r[2]
                      => d \in clearing'[User].todo
    <3>1. /\ clearing'[User].at = "list" /\ clearing'[User].seed = {x}
          /\ user'.draft = {x}
      BY <2>2, BeginMoves
    <3>2. ASSUME NEW d \in Drafts, NEW r \in runs[d].from, r[1] = x, runs[x].pipe = r[2]
          PROVE  d \in clearing'[User].todo
      BY <2>2, <3>2, BeginFinds
    <3>3. QED
      BY <2>2, <3>1, <3>2
  <2>3. QED
    BY <1>4, <2>1, <2>2, UserMoves
<1>5. QED
  BY <1>1, <1>2, <1>3, <1>4 DEF ClearsBelow

\* The invariant holds at the start ...
LEMMA DraftsInvInit == Init => DraftsInv
<1> SUFFICES ASSUME Init
             PROVE  DraftsInv
  OBVIOUS
<1> USE RecordTypes
<1>1. RecordsInv
  BY InvInit
<1>2. /\ \A s \in Steps : step[s] = Waits
      /\ \A d \in Drafts : runs[d] = NoRun
      /\ \A c \in Clearers : clearing[c] = Cleared
      /\ \A p \in Pipes : owner[p] = "none"
      /\ user.at = "idle" /\ Waits.from = {} /\ NoRun.from = {} /\ Cleared.todo = {}
  BY StepKinds DEF Init, NoPlan, Waits, NoRun, Cleared
<1>3. ReplacesEnded
  BY <1>2 DEF ReplacesEnded
<1>4. ReadsNamed
  BY <1>2, StepKinds DEF ReadsNamed, Runs
<1>5. OwnInputs
  BY <1>2, StepKinds DEF OwnInputs, Runs
<1>6. StaleFound
  BY <1>2 DEF StaleFound
<1>7. ClearsBelow
  BY <1>2, StepKinds DEF ClearsBelow
<1>8. QED
  BY <1>1, <1>3, <1>4, <1>5, <1>6, <1>7 DEF DraftsInv

\* ... and every step keeps it.
LEMMA DraftsInvNext ==
  ASSUME DraftsInv, QuietDeletes, [Next]_vars
  PROVE  DraftsInv'
<1>1. RecordsInv'
  BY InvNext DEF DraftsInv
<1>2. ReplacesEnded'
  BY <1>1, ReplacesEndedKept DEF DraftsInv
<1>3. ReadsNamed'
  BY <1>1, ReadsNamedKept DEF DraftsInv
<1>4. OwnInputs'
  BY <1>1, OwnInputsKept DEF DraftsInv
<1>5. StaleFound'
  BY <1>1, StaleFoundKept DEF DraftsInv
<1>6. ClearsBelow'
  BY <1>1, ClearsBelowKept DEF DraftsInv
<1>7. QED
  BY <1>1, <1>2, <1>3, <1>4, <1>5, <1>6 DEF DraftsInv

\* Nothing of a pipeline that ended is left running, a row that says ended is
\* right, a record is written by its lock's holder (draft.py,
\* end_running_draft_steps and _store_lock), a run about to be replaced has no
\* step to begin, and a run replaced or deleted has its dependents on somebody's
\* list: for any pipelines, however they die and are closed out, when the user
\* deletes between steps.
THEOREM DraftsInvariant ==
  ASSUME QuietDeletes
  PROVE  Spec => []DraftsInv
<1>1. Init => DraftsInv
  BY DraftsInvInit
<1>2. DraftsInv /\ [Next]_vars => DraftsInv'
  BY DraftsInvNext
<1>3. QED
  BY <1>1, <1>2, PTL DEF Spec

\* A top draft's run replaced or deleted takes along what was computed from it
\* (draft_clearing.py, settle_replacement and _clear_dependents): a record that
\* names a run that is gone is late, or on the way to be cleared by somebody still
\* at it or dead, for any drafts and any chain of them, when the user deletes
\* between steps.
THEOREM StaleRunsCleared ==
  ASSUME QuietDeletes
  PROVE  Spec => []NoStaleLeft
<1>1. DraftsInv => NoStaleLeft
  BY DEF DraftsInv, StaleFound, Cleans, NoStaleLeft
<1>2. QED
  BY <1>1, DraftsInvariant, PTL

\* A draft run in progress is never replaced: the record passes only when no step
\* of the pipeline it belonged to runs or is still to begin, as long as that
\* pipeline's row says running (draft.py, record_draft_step), for any pipelines,
\* when the user deletes between steps.
THEOREM InProgressRunsKept ==
  ASSUME QuietDeletes
  PROVE  Spec => InProgressKept
<1>1. ASSUME DraftsInv, [Next]_vars
      PROVE  [\A d \in Drafts :
                runs[d] # NoRun /\ runs'[d] # NoRun /\ runs'[d].pipe # runs[d].pipe
                  => /\ runs[d].status = "running" => Cut(runs[d].pipe)
                     /\ row[runs[d].pipe] = "running" => AllWritten(runs[d].pipe)]_vars
  <2> SUFFICES ASSUME NEW d \in Drafts, runs[d] # NoRun, runs'[d] # NoRun,
                      runs'[d].pipe # runs[d].pipe
               PROVE  /\ runs[d].status = "running" => Cut(runs[d].pipe)
                      /\ row[runs[d].pipe] = "running" => AllWritten(runs[d].pipe)
    OBVIOUS
  <2>1. PICK s \in Steps : s[2] = d /\ s[1] # runs[d].pipe /\ WriteEntry(s)
    BY <1>1, RecordsPass DEF DraftsInv
  <2>2. step[s].at = "writes"
    BY <2>1 DEF WriteEntry
  <2>3. step[s].old = runs[d] /\ (runs[d].status = "running" => Cut(runs[d].pipe))
    BY <1>1, <2>1, <2>2 DEF DraftsInv, RecordsInv, LockHeld, Cut
  <2>4. runs[d].pipe \in Pipes /\ runs[d].pipe # NoPipe
    BY <1>1, StepKinds DEF DraftsInv, RecordsInv, RecordsOwned, Cut
  <2>5. row[runs[d].pipe] = "gone" \/ AllWritten(runs[d].pipe)
    BY <1>1, <2>1, <2>2, <2>3, <2>4 DEF DraftsInv, ReplacesEnded
  <2>6. QED
    BY <2>3, <2>5
<1>2. QED
  BY <1>1, DraftsInvariant, PTL DEF Spec, InProgressKept

=============================================================================
