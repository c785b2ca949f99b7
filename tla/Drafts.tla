------------------------------- MODULE Drafts -------------------------------
(***************************************************************************)
(* A draft is a method folder that is not registered; a pipeline can run   *)
(* it, and keeps what it did only in the draft's own folder: one record    *)
(* (draft-run.json), the steps' result folders and the record's lock file. *)
(* A draft keeps its latest draft run only.  A run from another pipeline   *)
(* replaces it, and clears the later drafts' results that were computed    *)
(* from it; so do Delete outputs, Remove draft and Register.               *)
(*                                                                         *)
(* Each step runs in a process of its own, the pipelines and the user's    *)
(* commands in others.  They meet in the draft folders and in the rows of  *)
(* pipeline_runs.  Every draft here has one step and one sample.           *)
(***************************************************************************)
EXTENDS Integers, FiniteSets

CONSTANTS
  Pipes,         \* pipelines
  Tries,         \* those that are a `wfc try`: they keep no pipeline record
  Drafts,
  Reads,         \* a pipeline's drafts, each with the drafts its inputs name
  Recorded,      \* pipelines that record a run of a registered method too
  QuietDeletes,  \* whether the user deletes and registers only between steps
  Scenes,        \* a behaviour's pipelines, deaths, deletes and failing endings
  NoPipe

DraftsOf(p) == DOMAIN Reads[p]
Steps == UNION {{p} \X DraftsOf(p) : p \in Pipes}
User == <<NoPipe>>
Clearers == Steps \cup {User}
Budgets == [pipes : SUBSET Pipes, stops : Nat, commands : Nat, faults : Nat]

ASSUME DraftsAssumption ==
  /\ Tries \subseteq Pipes /\ Recorded \subseteq Pipes \ Tries
  /\ NoPipe \notin Pipes
  /\ \A p \in Pipes : DraftsOf(p) \subseteq Drafts
  /\ \A p \in Tries : \E d \in Drafts : DraftsOf(p) = {d}
  /\ \A s \in Steps : Reads[s[1]][s[2]] \subseteq Drafts \ {s[2]}
  /\ QuietDeletes \in BOOLEAN
  /\ Scenes \subseteq Budgets

VARIABLES
  pointer,   \* the drafts that exist
  runs,      \* a draft's latest draft run, as its draft-run.json has it
  results,   \* whose result folder the draft has, and whether outputs are in it
  lock,      \* who made a record's lock file
  row,       \* a pipeline's row of pipeline_runs
  owner,     \* the process that runs a pipeline, or ended it, its ending cut or not
  closing,   \* the drafts a close-out has still to look at
  step,      \* where a step is, and its locals
  clearing,  \* where a clearing is, and its locals
  user,      \* where the user's command is, and its plan
  budget     \* what is left of the scene's pipelines, deaths, commands and faults

vars == <<pointer, runs, results, lock, row, owner, closing, step, clearing, user, budget>>

NoRun == [pipe |-> NoPipe, status |-> "none", from |-> {}, late |-> FALSE]
NoResult == [by |-> NoPipe, made |-> FALSE]
Waits == [at |-> "waits", entry |-> "running", from |-> {}, old |-> NoRun]
Gone == [Waits EXCEPT !.at = "refused"]
Cleared == [at |-> "none", seed |-> {}, todo |-> {}, touched |-> {}, bare |-> {}]
NoPlan == [at |-> "idle", verb |-> "none", draft |-> {}, plan |-> {}]

\* A draft step's inputs: the drafts it names, and whose run of each it read.
\* `late` marks an entry written when a run it had read was already gone.
RunRecords ==
  [pipe : Pipes \cup {NoPipe}, status : {"none", "running", "completed", "failed"},
   from : SUBSET (Drafts \X Pipes), late : BOOLEAN]

StepRecords ==
  [at : {"waits", "ready", "writes", "replaced", "folder", "computes", "ends",
         "done", "refused"},
   entry : {"running", "completed", "failed"},
   from : SUBSET (Drafts \X Pipes), old : RunRecords]
Clearings ==
  [at : {"none", "list", "clear", "settle"}, seed : SUBSET Drafts,
   todo : SUBSET Drafts, touched : SUBSET Pipes, bare : SUBSET Pipes]
Plans == [records : SUBSET (Drafts \X RunRecords), rows : SUBSET Pipes]

TypeOK ==
  /\ pointer \subseteq Drafts
  /\ runs \in [Drafts -> RunRecords]
  /\ results \in [Drafts -> [by : Pipes \cup {NoPipe}, made : BOOLEAN]]
  /\ lock \in [Drafts -> Pipes \cup {NoPipe}]
  /\ row \in [Pipes -> {"none", "running", "ended", "gone"}]
  /\ owner \in [Pipes -> {"none", "runs", "dead", "closes", "ended", "cut"}]
  /\ closing \in [Pipes -> SUBSET Drafts]
  /\ step \in [Steps -> StepRecords]
  /\ clearing \in [Clearers -> Clearings]
  /\ user \in [at : {"idle", "asks", "deletes", "clears"},
               verb : {"none", "outputs", "draft"},
               draft : SUBSET Drafts, plan : SUBSET Plans]
  /\ budget \in Budgets

Init ==
  /\ pointer = Drafts
  /\ runs = [d \in Drafts |-> NoRun]
  /\ results = [d \in Drafts |-> NoResult]
  /\ lock = [d \in Drafts |-> NoPipe]
  /\ row = [p \in Pipes |-> "none"]
  /\ owner = [p \in Pipes |-> "none"]
  /\ closing = [p \in Pipes |-> {}]
  /\ step = [s \in Steps |-> Waits]
  /\ clearing = [c \in Clearers |-> Cleared]
  /\ user = NoPlan
  /\ budget \in Scenes

-----------------------------------------------------------------------------
(* What a record and the rows say.                                         *)

\* The drafts with a record, as a listing of the drafts finds them.
Listed(rs) == {d \in pointer : rs[d] # NoRun}
StepsLeft(p, rs) == {d \in Listed(rs) : rs[d].pipe = p}

\* Whether the pipeline of a draft run is still running: by its row, by its
\* steps when it has no row.
PipelineRunning(d) ==
  LET p == runs[d].pipe
  IN  IF row[p] \in {"running", "ended"} THEN row[p] = "running"
      ELSE runs[d].status = "running"

\* Why another pipeline cannot start a draft run now.
InProgress(d, p) ==
  runs[d] # NoRun /\ runs[d].pipe # p /\ PipelineRunning(d)

\* The status helper that waits for targets whether or not the record is left.
OutcomeExpecting(p, o, rs) ==
  IF \/ p \notin Tries /\ StepsLeft(p, rs) # DraftsOf(p)
     \/ \E d \in StepsLeft(p, rs) : rs[d].status = "running"
  THEN "running" ELSE "ended"

\* The status helper, with owners o and draft records rs: a pipeline with a
\* pipeline record waits for the targets that have no entry.
Outcome(p, o, rs) ==
  IF \/ /\ p \notin Tries /\ o[p] \in {"runs", "dead", "closes"}
        /\ StepsLeft(p, rs) # DraftsOf(p)
     \/ \E d \in StepsLeft(p, rs) : rs[d].status = "running"
  THEN "running" ELSE "ended"

\* The listing taken of completed steps alone.
DependentsCompleted(S, spare) ==
  {d \in Listed(runs) \ S : /\ runs[d].pipe # spare /\ runs[d].status = "completed"
                            /\ \E r \in runs[d].from : r[1] \in S}

\* The later drafts whose results were computed from those of S, down the
\* chain; the records of the pipeline `spare` are left out.
Dependents(S, spare) ==
  LET later == {d \in Listed(runs) : runs[d].pipe # spare}
      Names(d, C) == \E r \in runs[d].from : r[1] \in C
      Closed(C) == \A d \in later : Names(d, C) => d \in C
  IN  {d \in later \ S : \A C \in SUBSET Drafts : S \subseteq C /\ Closed(C) => d \in C}

PipesOf(S) == {runs[d].pipe : d \in S} \ {NoPipe}

-----------------------------------------------------------------------------
(* A pipeline: launched, ended by its owner, or closed out.                *)

Runs(p) == owner[p] = "runs"
Set(s, at) == step' = [step EXCEPT ![s].at = at]
Done(entry) == [Waits EXCEPT !.at = "done", !.entry = entry]

\* The launch, after the draft preflight.
Launch(p) ==
  /\ owner[p] = "none" /\ p \in budget.pipes
  /\ \A d \in DraftsOf(p) : d \in pointer /\ ~InProgress(d, p)
  /\ owner' = [owner EXCEPT ![p] = "runs"]
  /\ row' = [row EXCEPT ![p] = "running"]
  /\ UNCHANGED <<pointer, runs, results, lock, closing, step, clearing, user, budget>>

\* A step whose own pipeline's step above it left no sentinel never runs.
Above(s) == {<<s[1], e>> : e \in Reads[s[1]][s[2]] \cap DraftsOf(s[1])}
Sentinel(s) == step[s].at = "done" /\ step[s].entry = "completed"
Over(s) ==
  \/ step[s].at \in {"done", "refused"}
  \/ step[s].at = "waits" /\ \E t \in Above(s) : step[t].at \in {"done", "refused", "waits"}
                                                 /\ ~Sentinel(t)
EngineExited(p) == \A d \in DraftsOf(p) : Over(<<p, d>>)

\* An ending part of which raises, which is printed: the record goes all the same.
CutShort(p) ==
  /\ budget.faults > 0
  /\ budget' = [budget EXCEPT !.faults = @ - 1]
  /\ owner' = [owner EXCEPT ![p] = "cut"]

\* The owner ends: the record goes and the outcome is stored.  A try that
\* left no step takes its row back.
OwnerEnds(p) ==
  /\ Runs(p) /\ EngineExited(p)
  /\ \/ /\ owner' = [owner EXCEPT ![p] = "ended"]
        /\ row' = [row EXCEPT ![p] =
                     IF p \in Tries /\ StepsLeft(p, runs) = {} THEN "gone"
                     ELSE IF @ = "gone" THEN @ ELSE Outcome(p, owner', runs)]
        /\ UNCHANGED budget
     \/ CutShort(p) /\ UNCHANGED row
  /\ UNCHANGED <<pointer, runs, results, lock, closing, step, clearing, user>>

\* Nobody dies with a record's lock in hand.
HoldsNoLock(p) == \A d \in Drafts : lock[d] # p

Stopped(p) == [s \in Steps |-> IF s[1] = p THEN Gone ELSE step[s]]

\* The process and its steps die.
Die(p) ==
  /\ Runs(p) /\ HoldsNoLock(p) /\ budget.stops > 0
  /\ budget' = [budget EXCEPT !.stops = @ - 1]
  /\ owner' = [owner EXCEPT ![p] = "dead"]
  /\ step' = Stopped(p)
  /\ UNCHANGED <<pointer, runs, results, lock, row, closing, clearing, user>>

\* A recovery, or a user's cancel, that kills what is left of a pipeline with
\* a record and lists the drafts.  Neither finds a try.
BeginClose(p) ==
  /\ p \notin Tries /\ HoldsNoLock(p)
  /\ owner[p] \in {"runs", "dead"}
  /\ owner' = [owner EXCEPT ![p] = "closes"]
  /\ closing' = [closing EXCEPT ![p] = Listed(runs)]
  /\ step' = Stopped(p)
  /\ UNCHANGED <<pointer, runs, results, lock, row, clearing, user, budget>>

\* One draft's running step of the pipeline is ended, under the record's lock.
EndRunning(p, d) ==
  /\ owner[p] = "closes" /\ d \in closing[p] /\ lock[d] = NoPipe
  /\ closing' = [closing EXCEPT ![p] = @ \ {d}]
  /\ runs' = [runs EXCEPT ![d] = IF @.pipe = p /\ @.status = "running"
                                 THEN [@ EXCEPT !.status = "failed"] ELSE @]
  /\ UNCHANGED <<pointer, results, lock, row, owner, step, clearing, user, budget>>

\* A close-out that leaves the draft steps as they are.
CloseRowsOnly(p) ==
  /\ owner[p] = "closes"
  /\ owner' = [owner EXCEPT ![p] = "ended"]
  /\ row' = [row EXCEPT ![p] = IF @ = "gone" THEN @ ELSE Outcome(p, owner', runs)]
  /\ UNCHANGED <<pointer, runs, results, lock, closing, step, clearing, user, budget>>

\* Every draft is looked at, or ending their steps raises, or the drafts are
\* read as none: the record goes, and the outcome is stored of the drafts it
\* reads, or of none, or not at all.
Close(p) ==
  /\ owner[p] = "closes"
  /\ \/ /\ closing[p] = {}
        /\ owner' = [owner EXCEPT ![p] = "ended"]
        /\ row' = [row EXCEPT ![p] = IF @ = "gone" THEN @ ELSE Outcome(p, owner', runs)]
        /\ UNCHANGED budget
     \/ /\ CutShort(p)
        /\ \E stored \in {Outcome(p, owner', runs), "ended", row[p]} :
             row' = [row EXCEPT ![p] = IF @ = "gone" THEN @ ELSE stored]
  /\ UNCHANGED <<pointer, runs, results, lock, closing, step, clearing, user>>

-----------------------------------------------------------------------------
(* A draft step.                                                           *)

DeletesQuietly == QuietDeletes /\ user.at \in {"deletes", "clears"}

\* The inputs are resolved: each draft string to its draft's latest completed
\* step, whose output is there.  A refusal writes nothing.
Materialize(s) ==
  /\ Runs(s[1]) /\ step[s].at = "waits" /\ \A t \in Above(s) : Sentinel(t)
  /\ ~DeletesQuietly
  /\ LET p == s[1]  d == s[2]
         readable == \A e \in Reads[p][d] :
                       e \in pointer /\ runs[e].status = "completed" /\ results[e].made
     IN  IF d \in pointer /\ readable
         THEN step' = [step EXCEPT ![s].at = "ready",
                                   ![s].from = {<<e, runs[e].pipe>> : e \in Reads[p][d]}]
         ELSE step' = [step EXCEPT ![s] = Gone]
  /\ UNCHANGED <<pointer, runs, results, lock, row, owner, closing, clearing, user, budget>>

\* The judgement left to the launch's preflight.
TakeRecordPreflighted(s) ==
  /\ Runs(s[1]) /\ step[s].at \in {"ready", "ends"} /\ lock[s[2]] = NoPipe
  /\ step' = [step EXCEPT ![s].at = "writes", ![s].old = runs[s[2]]]
  /\ lock' = [lock EXCEPT ![s[2]] = s[1]]
  /\ UNCHANGED <<pointer, runs, results, row, owner, closing, clearing, user, budget>>

\* The lock is taken and the record read: another pipeline's draft run in
\* progress refuses the step, at its start as at its end.
TakeRecord(s) ==
  /\ Runs(s[1]) /\ step[s].at \in {"ready", "ends"} /\ lock[s[2]] = NoPipe
  /\ LET p == s[1]  d == s[2]
     IN  IF InProgress(d, p)
         THEN step' = [step EXCEPT ![s] = Gone] /\ UNCHANGED lock
         ELSE /\ step' = [step EXCEPT ![s].at = "writes", ![s].old = runs[d]]
              /\ lock' = [lock EXCEPT ![d] = p]
  /\ UNCHANGED <<pointer, runs, results, row, owner, closing, clearing, user, budget>>

\* A step whose entry is written starts its container, or is done.
Continue(s) ==
  step' = [step EXCEPT ![s] = IF @.entry = "running"
                              THEN [@ EXCEPT !.at = "folder", !.old = NoRun] ELSE Done(@.entry)]

\* The entry is written and the lock file removed.  A record of another
\* pipeline, or none, has the results cleared first.
WriteEntry(s) ==
  /\ Runs(s[1]) /\ step[s].at = "writes"
  /\ LET p == s[1]  d == s[2]  old == step[s].old
         own == old.pipe = p
         replaces == old # NoRun /\ ~own
         late == IF own THEN old.late
                 ELSE \E r \in step[s].from : runs[r[1]].pipe # r[2]
     IN  /\ runs' = [runs EXCEPT ![d] =
                       [pipe |-> p, status |-> step[s].entry,
                        from |-> step[s].from, late |-> late]]
         /\ results' = IF own THEN results ELSE [results EXCEPT ![d] = NoResult]
         /\ lock' = [lock EXCEPT ![d] = NoPipe]
         /\ IF replaces THEN Set(s, "replaced") ELSE Continue(s)
         /\ clearing' = IF replaces
                        THEN [clearing EXCEPT ![s] = [Cleared EXCEPT !.at = "list",
                                                                     !.seed = {d}]]
                        ELSE clearing
  /\ UNCHANGED <<pointer, row, owner, closing, user, budget>>

\* The code copy is taken and a fresh result folder made.
MakeFolder(s) ==
  /\ Runs(s[1]) /\ step[s].at = "folder"
  /\ results' = [results EXCEPT ![s[2]] = [by |-> s[1], made |-> FALSE]]
  /\ Set(s, "computes")
  /\ UNCHANGED <<pointer, runs, lock, row, owner, closing, clearing, user, budget>>

\* The container ran and its outputs are looked for.  A folder removed under
\* it takes what it writes along; what is found then is whatever lies there.
Compute(s) ==
  /\ Runs(s[1]) /\ step[s].at = "computes"
  /\ \E succeeds \in BOOLEAN :
       LET written == IF succeeds /\ results[s[2]].by = s[1]
                      THEN [results[s[2]] EXCEPT !.made = TRUE] ELSE results[s[2]]
           found == IF succeeds /\ written.made THEN "completed" ELSE "failed"
       IN  /\ results' = [results EXCEPT ![s[2]] = written]
           /\ step' = [step EXCEPT ![s].at = "ends", ![s].entry = found]
  /\ UNCHANGED <<pointer, runs, lock, row, owner, closing, clearing, user, budget>>

-----------------------------------------------------------------------------
(* A clearing: of a replaced draft run by the step that replaced it, of a  *)
(* deleted one by the user's command.                                      *)

Lives(c) == c # User => Runs(c[1])

\* The step lists the later drafts computed from the run it replaced.
ListDependents(s) ==
  /\ Runs(s[1]) /\ clearing[s].at = "list"
  /\ LET later == Dependents(clearing[s].seed, s[1])
     IN  clearing' = [clearing EXCEPT
           ![s].at = "clear", ![s].todo = later,
           ![s].touched = PipesOf(later) \cup {step[s].old.pipe}]
  /\ UNCHANGED <<pointer, runs, results, lock, row, owner, closing, step, user, budget>>

\* One of them is cleared, by its name: record and results go, under its lock.
ClearOne(c) ==
  /\ Lives(c) /\ clearing[c].at = "clear"
  /\ \E d \in clearing[c].todo :
       /\ lock[d] = NoPipe
       /\ runs' = [runs EXCEPT ![d] = NoRun]
       /\ results' = [results EXCEPT ![d] = NoResult]
       /\ clearing' = [clearing EXCEPT ![c].todo = @ \ {d}]
  /\ UNCHANGED <<pointer, lock, row, owner, closing, step, user, budget>>

\* The steps every pipeline still has are read.
CountLeft(c) ==
  /\ Lives(c) /\ clearing[c].at = "clear" /\ clearing[c].todo = {}
  /\ clearing' = [clearing EXCEPT ![c].at = "settle",
                    ![c].bare = {p \in clearing[c].touched : StepsLeft(p, runs) = {}}]
  /\ UNCHANGED <<pointer, runs, results, lock, row, owner, closing, step, user, budget>>

\* Each pipeline touched has its outcome stored; one that recorded nothing
\* and had no step left loses its row.
Settle(c) ==
  /\ Lives(c) /\ clearing[c].at = "settle"
  /\ row' = [p \in Pipes |->
       IF p \notin clearing[c].touched \/ row[p] \notin {"running", "ended"} THEN row[p]
       ELSE IF p \in clearing[c].bare \ Recorded THEN "gone"
       ELSE Outcome(p, owner, runs)]
  /\ clearing' = [clearing EXCEPT ![c] = Cleared]
  /\ IF c = User THEN user' = NoPlan /\ UNCHANGED step
     ELSE UNCHANGED user /\ Continue(c)
  /\ UNCHANGED <<pointer, runs, results, lock, owner, closing, budget>>

-----------------------------------------------------------------------------
(* Delete outputs, Remove draft and Register.                              *)

StepsIdle == \A s \in Steps : Runs(s[1]) => step[s].at \in {"waits", "done", "refused"}
MayDelete == QuietDeletes => StepsIdle

\* What a plan's token names: the records it clears and the pipelines whose
\* row it changes.
Plan(d) ==
  LET seeds == {d} \cap Listed(runs)
      cleared == seeds \cup (IF seeds = {} THEN {} ELSE Dependents(seeds, NoPipe))
  IN  [records |-> {<<e, runs[e]>> : e \in cleared},
       rows |-> {p \in PipesOf(cleared) : row[p] \in {"running", "ended"}}]

\* The delete is planned and put to the user.
PlanDelete(d, verb) ==
  /\ user.at = "idle" /\ budget.commands > 0 /\ d \in pointer /\ verb \in {"outputs", "draft"}
  /\ verb = "outputs" => runs[d] # NoRun
  /\ user' = [at |-> "asks", verb |-> verb, draft |-> {d}, plan |-> {Plan(d)}]
  /\ budget' = [budget EXCEPT !.commands = @ - 1]
  /\ UNCHANGED <<pointer, runs, results, lock, row, owner, closing, step, clearing>>

BeginDelete(d, verb) ==
  LET seeds == {d} \cap Listed(runs)
      later == IF seeds = {} THEN {} ELSE Dependents(seeds, NoPipe)
  IN  /\ user' = [at |-> "deletes", verb |-> verb, draft |-> {d}, plan |-> {}]
      /\ clearing' = [clearing EXCEPT ![User] =
           [at |-> "list", seed |-> {d}, todo |-> later,
            touched |-> PipesOf(seeds \cup later), bare |-> {}]]

\* Confirmed: a fresh plan that differs refuses, having deleted nothing.
ApplyDelete ==
  /\ user.at = "asks"
  /\ \E d \in user.draft :
       IF d \in pointer /\ Plan(d) \in user.plan
       THEN MayDelete /\ BeginDelete(d, user.verb)
       ELSE user' = NoPlan /\ UNCHANGED clearing
  /\ UNCHANGED <<pointer, runs, results, lock, row, owner, closing, step, budget>>

\* Register: what is cleared is read before the registration is made.
BeginRegister(d) ==
  /\ user.at = "idle" /\ budget.commands > 0 /\ d \in pointer /\ MayDelete
  /\ BeginDelete(d, "draft")
  /\ budget' = [budget EXCEPT !.commands = @ - 1]
  /\ UNCHANGED <<pointer, runs, results, lock, row, owner, closing, step>>

\* A registration that is refused keeps the draft and clears nothing.
RefuseRegister ==
  /\ user.at = "deletes" /\ user.verb = "draft"
  /\ user' = NoPlan /\ clearing' = [clearing EXCEPT ![User] = Cleared]
  /\ UNCHANGED <<pointer, runs, results, lock, row, owner, closing, step, budget>>

\* The draft folder goes, or all of it but the pointer, the record's lock
\* file included, whoever holds it.
DeleteFolder ==
  /\ user.at = "deletes"
  /\ \E d \in user.draft :
       /\ runs' = [runs EXCEPT ![d] = NoRun]
       /\ results' = [results EXCEPT ![d] = NoResult]
       /\ lock' = [lock EXCEPT ![d] = NoPipe]
       /\ pointer' = IF user.verb = "outputs" THEN pointer ELSE pointer \ {d}
  /\ user' = [user EXCEPT !.at = "clears"]
  /\ clearing' = [clearing EXCEPT ![User].at = "clear"]
  /\ UNCHANGED <<row, owner, closing, step, budget>>

-----------------------------------------------------------------------------
StepActs(s) ==
  \/ Materialize(s) \/ TakeRecord(s) \/ WriteEntry(s) \/ MakeFolder(s) \/ Compute(s)
  \/ ListDependents(s)
PipelineActs(p) == OwnerEnds(p) \/ (\E d \in Drafts : EndRunning(p, d)) \/ Close(p)
UserActs ==
  \/ \E d \in Drafts, verb \in {"outputs", "draft"} : PlanDelete(d, verb)
  \/ \E d \in Drafts : BeginRegister(d)
  \/ ApplyDelete \/ RefuseRegister \/ DeleteFolder
ClearingActs(c) == ClearOne(c) \/ CountLeft(c) \/ Settle(c)

Next ==
  \/ \E s \in Steps : StepActs(s)
  \/ \E c \in Clearers : ClearingActs(c)
  \/ \E p \in Pipes : Launch(p) \/ Die(p) \/ BeginClose(p) \/ PipelineActs(p)
  \/ UserActs

\* What the scheduler runs: every living step, owner and clearing, and a
\* recovery of a pipeline whose owner died.
Work ==
  \/ \E s \in Steps : StepActs(s)
  \/ \E c \in Clearers : ClearingActs(c)
  \/ \E p \in Pipes : PipelineActs(p) \/ (owner[p] = "dead" /\ BeginClose(p))
  \/ DeleteFolder

Spec == Init /\ [][Next]_vars
FairSpec == Spec /\ WF_vars(Work)

-----------------------------------------------------------------------------
(* What the records and the rows rest on, when deletes come between steps. *)

\* A pipeline whose ending failed to end its draft steps or to store its outcome.
Cut(p) == owner[p] = "cut"

\* A step that wrote its draft's record, or never will; a pipeline with one.
Written(s) ==
  /\ owner[s[1]] # "none"
  /\ Runs(s[1]) => /\ step[s].at \notin {"waits", "ready"}
                   /\ step[s].at = "writes" => step[s].entry # "running"
Started(p) == \E d \in DraftsOf(p) : Written(<<p, d>>)

\* A step that has yet to end what it recorded as running.
InHand(s) ==
  \/ step[s].at \in {"folder", "computes", "ends"}
  \/ step[s].at = "writes" /\ step[s].entry # "running"
  \/ step[s].at = "replaced" /\ step[s].entry = "running"

\* A step works for an owner that runs, in a draft that exists.
Working ==
  \A s \in Steps :
    /\ step[s].at \notin {"waits", "done", "refused"} =>
         Runs(s[1]) /\ s[2] \in pointer
    /\ step[s].at = "ends" => step[s].entry # "running"

Unstarted ==
  \A s \in Steps : owner[s[1]] = "none" =>
    step[s].at = "waits" /\ clearing[s].at = "none"

\* A record is its pipeline's; a running one has somebody who will end it,
\* unless its process died, or its pipeline's ending was cut short.
RecordsOwned ==
  \A d \in Drafts : runs[d] # NoRun =>
    LET q == runs[d].pipe
    IN  /\ q \in Pipes /\ d \in DraftsOf(q) /\ d \in pointer
        /\ Written(<<q, d>>)
        /\ runs[d].status = "running" /\ ~Cut(q) =>
             /\ row[q] # "ended"
             /\ \/ Runs(q) /\ InHand(<<q, d>>)
                \/ owner[q] = "dead"
                \/ owner[q] = "closes" /\ d \in closing[q]

\* A row that says ended: no step of the pipeline starts any more.
RowsTrue ==
  \A p \in Pipes : row[p] = "ended" =>
    \A d \in DraftsOf(p) : Written(<<p, d>>)

\* Whoever writes a record has its lock and knows it.
LockHeld ==
  \A s \in Steps : step[s].at = "writes" =>
    /\ lock[s[2]] = s[1] /\ step[s].old = runs[s[2]]
    /\ runs[s[2]].pipe # s[1] /\ runs[s[2]].status = "running" => Cut(runs[s[2]].pipe)

\* What a clearing touches had a record.
ClearsStarted ==
  /\ \A s \in Steps : step[s].old.pipe # NoPipe => Started(step[s].old.pipe)
  /\ \A c \in Clearers : \A p \in clearing[c].touched : Started(p)
  /\ \A s \in Steps : clearing[s].at # "none" /\ Runs(s[1]) =>
       step[s].at = "replaced" /\ step[s].old.pipe \in Pipes

-----------------------------------------------------------------------------
(* What a replacement and a clearing rest on.                              *)

\* No step of the pipeline is still to begin.
AllWritten(p) == \A d \in DraftsOf(p) : Written(<<p, d>>)

\* A run about to be replaced is of a pipeline that has no step to begin, or
\* whose row is gone for good.
ReplacesEnded ==
  /\ \A p \in Pipes : owner[p] # "none" => row[p] # "none"
  /\ \A s \in Steps :
       step[s].at = "writes" /\ step[s].old.pipe \notin {NoPipe, s[1]} =>
         row[step[s].old.pipe] = "gone" \/ AllWritten(step[s].old.pipe)

\* A run read is of a draft the step's inputs name, after that draft's own step.
ReadsNamed ==
  /\ \A s \in Steps : \A r \in step[s].from : r[1] \in Reads[s[1]][s[2]]
  /\ \A d \in Drafts : \A r \in runs[d].from : r[1] \in Reads[runs[d].pipe][d]
  /\ \A s \in Steps : Runs(s[1]) /\ step[s].at # "waits" =>
       \A t \in Above(s) : Sentinel(t)

\* What a step recorded is what it read.
OwnInputs ==
  \A s \in Steps :
    Runs(s[1]) /\ step[s].at \notin {"done", "refused"} /\ runs[s[2]].pipe = s[1]
      => runs[s[2]].from = step[s].from

\* Drafts that read no other draft, in any pipeline.
Tops == {d \in Drafts : \A p \in Pipes : d \in DraftsOf(p) => Reads[p][d] = {}}

\* Somebody who replaced or deleted the run of x will clear d, or died.
Cleans(c, d, x) ==
  /\ x \in clearing[c].seed
  /\ \/ c # User /\ clearing[c].at = "list"
     \/ clearing[c].at = "clear" /\ (d \in clearing[c].todo \/ ~Lives(c))

\* A record whose top run is gone is late, or somebody's to clear.
StaleFound ==
  \A d \in Drafts : \A r \in runs[d].from :
    r[1] \in Tops => \/ runs[d].late
                     \/ runs[r[1]].pipe = r[2]
                     \/ \E c \in Clearers : Cleans(c, d, r[1])

\* A clearing starts from the draft in hand and clears drafts that read others;
\* a delete begun has all that was computed from its draft on its list.
ClearsBelow ==
  /\ \A c \in Clearers : clearing[c].todo \cap Tops = {}
  /\ \A s \in Steps : clearing[s].at = "list" => clearing[s].seed = {s[2]}
  /\ user.at \in {"idle", "asks"} => clearing[User].at = "none"
  /\ user.at = "deletes" =>
       /\ clearing[User].at = "list" /\ clearing[User].seed = user.draft
       /\ \A d \in Drafts : \A r \in runs[d].from :
            r[1] \in user.draft /\ runs[r[1]].pipe = r[2] => d \in clearing[User].todo

-----------------------------------------------------------------------------
(* The properties.                                                         *)

\* Nothing of a pipeline that ended is left running, unless its ending was cut
\* short; a row that says ended is right, and a record's lock is its writer's (draft.py, end_running_draft_steps
\* and _store_lock).
RecordsInv ==
  /\ TypeOK
  /\ Working /\ Unstarted
  /\ RecordsOwned /\ RowsTrue
  /\ LockHeld /\ ClearsStarted
  /\ QuietDeletes /\ user.at \in {"deletes", "clears"} => StepsIdle

\* The inductive invariant: that, and what a replacement and a clearing rest on.
DraftsInv ==
  /\ RecordsInv
  /\ ReplacesEnded /\ ReadsNamed /\ OwnInputs
  /\ StaleFound /\ ClearsBelow

\* A record in which a step runs never passes to another pipeline, however many
\* were launched at once (draft.py, record_draft_step); what an ending that was
\* cut short left running may.
RunningKept ==
  [][\A d \in Drafts :
       runs[d] # NoRun /\ runs'[d] # NoRun /\ runs'[d].pipe # runs[d].pipe
         => (runs[d].status = "running" => Cut(runs[d].pipe))]_vars

\* A draft run in progress is never replaced: nor does a record pass to another
\* pipeline while the one it had has a step to begin and a row that says running
\* (RunningKept and more).
InProgressKept ==
  [][\A d \in Drafts :
       runs[d] # NoRun /\ runs'[d] # NoRun /\ runs'[d].pipe # runs[d].pipe
         => /\ runs[d].status = "running" => Cut(runs[d].pipe)
            /\ row[runs[d].pipe] = "running" => AllWritten(runs[d].pipe)]_vars

\* A top draft's run replaced or deleted takes along what was computed from it:
\* once whoever cleared it is done, no record names a run that is gone.  A step
\* that read the run before it went and wrote its entry after is late and stays.
NoStaleLeft ==
  \A d \in Drafts : \A r \in runs[d].from :
    r[1] \in Tops =>
      \/ runs[d].late
      \/ runs[r[1]].pipe = r[2]
      \/ \E c \in Clearers : /\ r[1] \in clearing[c].seed
                             /\ clearing[c].at \in {"list", "clear"}

\* A draft in progress does not stay so: its pipeline ends, by itself or by
\* recovery, and its row says so.  Exceptions are a `wfc try` that is killed,
\* and a pipeline whose ending could not end its draft steps or store its outcome.
DraftFreed ==
  \A d \in Drafts, p \in Pipes :
    (runs[d].pipe = p /\ row[p] = "running")
      ~> \/ ~(runs[d].pipe = p /\ row[p] = "running")
         \/ p \in Tries /\ owner[p] = "dead"
         \/ Cut(p)

\* The same of every pipeline, as the refusal promises: "wait for it to end,
\* or cancel it, then run again".
EveryDraftFreed ==
  \A d \in Drafts, p \in Pipes :
    (runs[d].pipe = p /\ row[p] = "running")
      ~> ~(runs[d].pipe = p /\ row[p] = "running")
=============================================================================
