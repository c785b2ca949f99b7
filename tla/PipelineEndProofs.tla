-------------------------- MODULE PipelineEndProofs --------------------------
(***************************************************************************)
(* Proofs about PipelineEnd, for any targets, cancels and recoveries: its  *)
(* endings give each target one row, the record goes last, the status that *)
(* is stored is the rows', a kill or an engine's failure is blamed right,  *)
(* and all of them together implement SettledOnce.                         *)
(***************************************************************************)
EXTENDS PipelineEnd, FiniteSetTheorems, TLAPS

LEMMA ActorKinds ==
  /\ Owner \in Actors /\ Closers \subseteq Actors
  /\ Cancels \subseteq Closers /\ Recoveries \subseteq Closers
  /\ \A a \in Actors : a = Owner \/ a \in Closers
  /\ \A c \in Closers : c # Owner /\ c # Nobody
  /\ \A c \in Closers : c \in Cancels \/ c \in Recoveries
  /\ \A c \in Cancels : c \notin Recoveries
  BY PipelineAssumption DEF Actors, Closers

LEMMA StatusType ==
  ASSUME NEW pending \in BOOLEAN
  PROVE  PipelineStatus(pending)
           \in {"running", "succeeded", "failed", "cancelled", "mixed"}
<1> DEFINE cancelled == With("cancelled")
           engineSide == {t \in cancelled :
                            reason[t] \in {"interrupted", "engine_failed"}}
<1>1. PipelineStatus(pending) =
        CASE With("running") # {} \/ pending -> "running"
          [] With("failed") = {} /\ cancelled = {} -> "succeeded"
          [] With("completed") # {} -> "mixed"
          [] With("failed") # {} \/ engineSide # {} -> "failed"
          [] OTHER -> "cancelled"
  BY DEF PipelineStatus
<1> HIDE DEF cancelled, engineSide
<1>2. QED
  BY <1>1

LEMMA TypeInit == Init => TypeOK
<1> SUFFICES ASSUME Init
             PROVE  TypeOK
  OBVIOUS
<1> USE ActorKinds DEF Init, NewRecord, NothingRead
<1>1. record \in Records /\ seen \in [Actors -> Records]
  BY DEF Records
<1>2. /\ row \in [Targets -> Status] /\ reason \in [Targets -> Reasons]
      /\ step \in [Targets -> {"none", "claiming", "computing", "passed",
                              "ended"}]
  BY DEF NoReason, Status, Reasons
<1>3. pc \in [Actors -> Labels] /\ after \in [Actors -> Labels]
  BY DEF Labels
<1>4. cause \in [Actors -> Reasons]
  BY DEF Reasons
<1>5. QED
  BY <1>1, <1>2, <1>3, <1>4 DEF TypeOK

\* Each step keeps the types: the engine's and its steps', ...
LEMMA EngineTypes ==
  ASSUME TypeOK, NEW t \in Targets, StartStep(t) \/ Engine(t) \/ EngineEnds
  PROVE  TypeOK'
<1> USE ActorKinds DEF TypeOK, index, world, locals
<1>1. CASE StartStep(t)
  BY <1>1 DEF StartStep
<1>2. ASSUME NEW st \in {"completed", "running"}, ClaimRow(t, st)
      PROVE  TypeOK'
  BY <1>2 DEF ClaimRow, InsertRows, NoReason, Status, Reasons, Present, With
<1>3. CASE ClaimFails(t)
  BY <1>3 DEF ClaimFails
<1>4. CASE EndStep(t)
  <2>1. /\ row' \in {row, [row EXCEPT ![t] = "completed"],
                    [row EXCEPT ![t] = "failed"]}
        /\ step' \in {[step EXCEPT ![t] = "passed"], [step EXCEPT ![t] = "ended"]}
    BY <1>4 DEF EndStep
  <2>2. row' \in [Targets -> Status]
    BY <2>1 DEF Status
  <2>3. QED
    BY <1>4, <2>1, <2>2 DEF EndStep
<1>5. CASE EngineEnds
  BY <1>5 DEF EngineEnds
<1>6. QED
  BY <1>1, <1>2, <1>3, <1>4, <1>5 DEF Engine

\* ... an ending's, ...
LEMMA EndTypes ==
  ASSUME TypeOK, NEW a \in Actors, End(a)
  PROVE  TypeOK'
<1> USE ActorKinds DEF TypeOK, index, world, locals, Goto
<1>1. CASE ReadRecorded(a)
  BY <1>1 DEF ReadRecorded, Labels, Records
<1>2. CASE StoreOutcome(a)
  BY <1>2, StatusType DEF StoreOutcome
<1>3. CASE FailRows(a)
  BY <1>3 DEF FailRows, Labels, Status
<1>4. CASE PickRunning(a)
  BY <1>4 DEF PickRunning, Labels, With
<1>5. CASE WriteCancelled(a)
  BY <1>5 DEF WriteCancelled, Labels, Status, Reasons
<1>6. CASE WalkRead(a)
  BY <1>6 DEF WalkRead, Labels, Present, With
<1>7. CASE WalkRefusals(a)
  <2>1. CASE UNCHANGED <<index, known>>
    BY <1>7, <2>1 DEF WalkRefusals, Labels
  <2>2. ASSUME NEW t \in refused \ known[a].present,
               Goto(a, "refusals", "refusals"),
               InsertRows({t}, "failed", NoReason),
               known' = [known EXCEPT ![a] = [present |-> @.present \cup {t},
                                              failed |-> @.failed \cup {t}]]
        PROVE  TypeOK'
    <3>1. known' \in [Actors -> [present : SUBSET Targets,
                                failed : SUBSET Targets]]
      BY <2>2
    <3>2. row' \in [Targets -> Status] /\ reason' \in [Targets -> Reasons]
      BY <2>2 DEF InsertRows, NoReason, Status, Reasons
    <3>3. second' \subseteq Targets
      BY <2>2 DEF InsertRows
    <3>4. QED
      BY <1>7, <2>2, <3>1, <3>2, <3>3 DEF WalkRefusals, Labels
  <2>3. QED
    BY <1>7, <2>1, <2>2 DEF WalkRefusals
<1>8. CASE WalkCancelled(a)
  BY <1>8 DEF WalkCancelled, InsertRows, Why, Labels, Status, Reasons,
              Present, With, NothingRead
<1>9. CASE RemoveRecord(a)
  BY <1>9 DEF RemoveRecord, Labels, Records
<1>10. QED
  BY <1>1, <1>2, <1>3, <1>4, <1>5, <1>6, <1>7, <1>8, <1>9 DEF End

\* ... the owner's, ...
LEMMA OwnTypes ==
  ASSUME TypeOK, Own \/ EngineRaises \/ OwnerStops
  PROVE  TypeOK'
<1> USE ActorKinds DEF TypeOK, index, world, locals, Goto
<1>1. CASE StartEngine
  BY <1>1 DEF StartEngine, Labels
<1>2. CASE RecordEngine
  BY <1>2 DEF RecordEngine, Labels, Records
<1>3. CASE ProbeCancel
  BY <1>3 DEF ProbeCancel, Labels, Records, CancelRequested
<1>4. CASE JudgeFailure
  BY <1>4 DEF JudgeFailure, Labels, Reasons
<1>5. CASE EngineRaises
  BY <1>5 DEF EngineRaises, Labels
<1>6. CASE OwnerStops
  BY <1>6 DEF OwnerStops, Labels
<1>7. QED
  BY <1>1, <1>2, <1>3, <1>4, <1>5, <1>6 DEF Own

\* ... and a closer's.
LEMMA CloseTypes ==
  ASSUME TypeOK, NEW c \in Closers, Close(c) \/ Announce(c) \/ CloserStops(c)
  PROVE  TypeOK'
<1> USE ActorKinds DEF TypeOK, index, world, locals, Goto
<1>1. CASE TakeLock(c)
  BY <1>1 DEF TakeLock, Labels
<1>2. CASE CancelLook(c)
  BY <1>2 DEF CancelLook, Labels, Records
<1>3. CASE KillEngine(c)
  BY <1>3 DEF KillEngine, Labels
<1>4. CASE AskOwner(c)
  BY <1>4 DEF AskOwner, Labels
<1>5. CASE JudgeDead(c)
  BY <1>5 DEF JudgeDead, Labels
<1>6. CASE CloseRead(c)
  BY <1>6 DEF CloseRead, Labels, Records, CancelRequested
<1>7. CASE ReleaseLock(c)
  BY <1>7 DEF ReleaseLock, Forget, NewRecord, NothingRead, Labels, Records
<1>8. CASE Announce(c)
  BY <1>8 DEF Announce, Labels, Records
<1>9. CASE CloserStops(c)
  BY <1>9 DEF CloserStops, Forget, NewRecord, NothingRead, Labels, Records
<1>10. QED
  BY <1>1, <1>2, <1>3, <1>4, <1>5, <1>6, <1>7, <1>8, <1>9 DEF Close

\* An ending that raises keeps the types, and writes nothing.
LEMMA RaiseTypes ==
  ASSUME TypeOK, EndingRaises
  PROVE  TypeOK'
<1> USE ActorKinds DEF TypeOK, index, world, locals, Goto
<1>1. CASE OwnerEndingRaises
  BY <1>1 DEF OwnerEndingRaises, Labels, NothingRead
<1>2. ASSUME NEW c \in Closers, CloserEndingRaises(c)
      PROVE  TypeOK'
  BY <1>2 DEF CloserEndingRaises, Labels
<1>3. ASSUME NEW a \in Actors, StoreRaises(a)
      PROVE  TypeOK'
  BY <1>3 DEF StoreRaises, Labels
<1>4. QED
  BY <1>1, <1>2, <1>3 DEF EndingRaises

LEMMA TypeNext == TypeOK /\ [Next]_vars => TypeOK'
<1> SUFFICES ASSUME TypeOK, [Next]_vars
             PROVE  TypeOK'
  OBVIOUS
<1>1. CASE EngineEnds
  <2>1. PICK t \in Targets : TRUE
    BY PipelineAssumption
  <2>2. QED
    BY <1>1, <2>1, EngineTypes
<1>2. CASE UNCHANGED vars
  BY <1>2 DEF TypeOK, vars, index, world, locals
<1>3. CASE Next /\ ~EngineEnds
  BY <1>3, EngineTypes, EndTypes, OwnTypes, CloseTypes, RaiseTypes DEF Next
<1>4. QED
  BY <1>1, <1>2, <1>3

\* Every variable keeps its type, whatever goes wrong.
THEOREM TypeInvariant == Spec => []TypeOK
  BY TypeInit, TypeNext, PTL DEF Spec

-----------------------------------------------------------------------------
(* Where the actors are, whatever goes wrong.                              *)

LEMMA PlacesInit == Init => PlacesInv
<1> SUFFICES ASSUME Init
             PROVE  PlacesInv
  OBVIOUS
<1> USE ActorKinds DEF Init, NewRecord, NothingRead
<1>1. TypeOK
  BY TypeInit
<1>2. OwnerPlaced
  BY DEF OwnerPlaced
<1>3. CloserPlaced
  BY DEF CloserPlaced, Outside, Closing, Cancelling
<1>4. RowsFirst
  BY DEF RowsFirst, Finished, RecordGoesLast
<1>5. StepsLive => engine = "running"
  BY DEF StepsLive, NoReason
<1>6. QED
  BY <1>1, <1>2, <1>3, <1>4, <1>5 DEF PlacesInv

\* Each step keeps the places: the engine's and its steps', ...
LEMMA EnginePlaces ==
  ASSUME PlacesInv, NEW t \in Targets, StartStep(t) \/ Engine(t) \/ EngineEnds
  PROVE  PlacesInv'
<1> USE ActorKinds DEF PlacesInv, index, world, locals, Goto
<1>1. TypeOK'
  BY EngineTypes
<1>2. CASE StartStep(t)
  <2>1. OwnerPlaced' /\ (StepsLive => engine = "running")'
    BY <1>2 DEF StartStep, OwnerPlaced, StepsLive, Alive, TypeOK, Records
  <2>2. CloserPlaced'
    BY <1>2 DEF StartStep, CloserPlaced, Closing, Cancelling, Outside, Alive,
       TypeOK
  <2>3. RowsFirst'
    BY <1>2 DEF StartStep, RowsFirst, Finished, RecordGoesLast, TypeOK,
       Present, With
  <2>4. QED
    BY <1>1, <2>1, <2>2, <2>3
<1>3. ASSUME NEW st \in {"completed", "running"}, ClaimRow(t, st)
      PROVE  PlacesInv'
  <2>1. Present' = Present \cup {t}
    BY <1>3 DEF ClaimRow, InsertRows, Present, With, TypeOK
  <2>2. OwnerPlaced' /\ (StepsLive => engine = "running")'
    BY <1>3, <2>1 DEF ClaimRow, OwnerPlaced, StepsLive, Alive, TypeOK, Records
  <2>3. CloserPlaced'
    BY <1>3, <2>1 DEF ClaimRow, CloserPlaced, Closing, Cancelling, Outside,
       Alive, TypeOK
  <2>4. RowsFirst'
    BY <1>3, <2>1 DEF ClaimRow, RowsFirst, Finished, RecordGoesLast, TypeOK
  <2>5. QED
    BY <1>1, <2>2, <2>3, <2>4
<1>4. CASE ClaimFails(t)
  <2>1. OwnerPlaced' /\ (StepsLive => engine = "running")'
    BY <1>4 DEF ClaimFails, OwnerPlaced, StepsLive, Alive, TypeOK, Records
  <2>2. CloserPlaced'
    BY <1>4 DEF ClaimFails, CloserPlaced, Closing, Cancelling, Outside, Alive,
       TypeOK
  <2>3. RowsFirst'
    BY <1>4 DEF ClaimFails, RowsFirst, Finished, RecordGoesLast, TypeOK,
       Present, With
  <2>4. QED
    BY <1>1, <2>1, <2>2, <2>3
<1>5. CASE EndStep(t)
  <2>1. Present' = Present
    BY <1>5 DEF EndStep, Present, With, TypeOK
  <2>2. OwnerPlaced' /\ (StepsLive => engine = "running")'
    BY <1>5, <2>1 DEF EndStep, OwnerPlaced, StepsLive, Alive, TypeOK, Records
  <2>3. CloserPlaced'
    BY <1>5, <2>1 DEF EndStep, CloserPlaced, Closing, Cancelling, Outside,
       Alive, TypeOK
  <2>4. RowsFirst'
    BY <1>5, <2>1 DEF EndStep, RowsFirst, Finished, RecordGoesLast, TypeOK
  <2>5. QED
    BY <1>1, <2>2, <2>3, <2>4
<1>6. CASE EngineEnds
  <2>1. OwnerPlaced' /\ (StepsLive => engine = "running")'
    BY <1>6 DEF EngineEnds, OwnerPlaced, StepsLive, Alive, TypeOK, Records
  <2>2. CloserPlaced'
    BY <1>6 DEF EngineEnds, CloserPlaced, Closing, Cancelling, Outside, Alive,
       TypeOK
  <2>3. RowsFirst'
    BY <1>6 DEF EngineEnds, RowsFirst, Finished, RecordGoesLast, TypeOK,
       Present, With
  <2>4. QED
    BY <1>1, <2>1, <2>2, <2>3
<1>7. QED
  BY <1>2, <1>3, <1>4, <1>5, <1>6 DEF Engine

\* A step of the walk over the refusals: T is empty or the one target written,
\* of which it knew no row.
RefusalStep(a, T) ==
  /\ pc[a] = "refusals" /\ pc' = [pc EXCEPT ![a] = pc'[a]]
  /\ pc'[a] \in {"refusals", "cancelled"} /\ (T # {} => pc'[a] = "refusals")
  /\ T \subseteq refused \ known[a].present
  /\ T = {} \/ \E t \in Targets : T = {t}
  /\ T = {} => refused \subseteq known[a].present
  /\ InsertRows(T, "failed", NoReason)
  /\ Present' = Present \cup T
  /\ known' = [known EXCEPT ![a] = known'[a]]
  /\ known'[a].present = known[a].present \cup T
  /\ known'[a].failed = known[a].failed \cup T
  /\ UNCHANGED <<record, world, user, cause, picked, counted, after, seen, lock,
                 stored, cut>>

LEMMA RefusalsWritten ==
  ASSUME TypeOK, NEW a \in Actors, WalkRefusals(a)
  PROVE  \E T \in SUBSET Targets : RefusalStep(a, T)
<1> USE DEF TypeOK, Goto
<1>1. CASE /\ refused \subseteq known[a].present
           /\ Goto(a, "refusals", "cancelled")
           /\ UNCHANGED <<index, known>>
  <2>1. InsertRows({}, "failed", NoReason) /\ Present' = Present
    BY <1>1 DEF InsertRows, Present, With, index
  <2>2. RefusalStep(a, {})
    BY <1>1, <2>1 DEF WalkRefusals, RefusalStep
  <2>3. QED
    BY <2>2
<1>2. ASSUME NEW t \in refused \ known[a].present,
             Goto(a, "refusals", "refusals"),
             InsertRows({t}, "failed", NoReason),
             known' = [known EXCEPT ![a] = [present |-> @.present \cup {t},
                                            failed |-> @.failed \cup {t}]]
      PROVE  \E T \in SUBSET Targets : RefusalStep(a, T)
  <2>1. Present' = Present \cup {t}
    BY <1>2 DEF InsertRows, Present, With
  <2>2. /\ known' = [known EXCEPT ![a] = known'[a]]
        /\ known'[a].present = known[a].present \cup {t}
        /\ known'[a].failed = known[a].failed \cup {t}
    BY <1>2
  <2>3. t \in Targets /\ pc[a] = "refusals" /\ pc' = [pc EXCEPT ![a] = "refusals"]
    BY <1>2
  <2>4. UNCHANGED <<record, world, user, cause, picked, counted, after, seen, lock,
                    stored, cut>>
    BY DEF WalkRefusals
  <2>5. RefusalStep(a, {t})
    BY <1>2, <2>1, <2>2, <2>3, <2>4 DEF RefusalStep
  <2>6. QED
    BY <2>3, <2>5
<1>3. QED
  BY <1>1, <1>2 DEF WalkRefusals

\* ... an ending's, ...
LEMMA EndPlaces ==
  ASSUME PlacesInv, NEW a \in Actors, End(a)
  PROVE  PlacesInv'
<1> USE ActorKinds DEF PlacesInv, index, world, locals, Goto
<1>1. TypeOK'
  BY EndTypes
<1>2. CASE ReadRecorded(a)
  <2>1. OwnerPlaced' /\ (StepsLive => engine = "running")'
    BY <1>2 DEF ReadRecorded, OwnerPlaced, StepsLive, Alive, TypeOK, Records
  <2>2. CloserPlaced'
    BY <1>2 DEF ReadRecorded, CloserPlaced, Closing, Cancelling, Outside,
       Alive, TypeOK
  <2>3. RowsFirst'
    BY <1>2 DEF ReadRecorded, RowsFirst, Finished, RecordGoesLast, TypeOK,
       Present, With
  <2>4. QED
    BY <1>1, <2>1, <2>2, <2>3
<1>3. CASE StoreOutcome(a)
  <2>1. OwnerPlaced' /\ (StepsLive => engine = "running")'
    BY <1>3 DEF StoreOutcome, OwnerPlaced, StepsLive, Alive, TypeOK, Records
  <2>2. CloserPlaced'
    BY <1>3 DEF StoreOutcome, CloserPlaced, Closing, Cancelling, Outside,
       Alive, TypeOK, OwnerPlaced
  <2>3. RowsFirst'
    BY <1>3 DEF StoreOutcome, RowsFirst, Finished, RecordGoesLast, TypeOK,
       Present, With, OwnerPlaced, CloserPlaced
  <2>4. QED
    BY <1>1, <2>1, <2>2, <2>3
<1>4. CASE FailRows(a)
  <2>1. Present' = Present
    BY <1>4 DEF FailRows, Present, With, TypeOK
  <2>2. OwnerPlaced' /\ (StepsLive => engine = "running")'
    BY <1>4, <2>1 DEF FailRows, OwnerPlaced, StepsLive, Alive, TypeOK, Records
  <2>3. CloserPlaced'
    BY <1>4, <2>1 DEF FailRows, CloserPlaced, Closing, Cancelling, Outside,
       Alive, TypeOK
  <2>4. RowsFirst'
    BY <1>4, <2>1 DEF FailRows, RowsFirst, Finished, RecordGoesLast, TypeOK
  <2>5. QED
    BY <1>1, <2>2, <2>3, <2>4
<1>5. CASE PickRunning(a)
  <2>1. a \in Closers
    BY <1>5 DEF PickRunning, OwnerPlaced
  <2>2. OwnerPlaced' /\ (StepsLive => engine = "running")'
    BY <1>5, <2>1 DEF PickRunning, OwnerPlaced, StepsLive, Alive, TypeOK,
       Records
  <2>3. CloserPlaced'
    BY <1>5, <2>1 DEF PickRunning, CloserPlaced, Closing, Cancelling, Outside,
       Alive, TypeOK
  <2>4. RowsFirst'
    BY <1>5, <2>1 DEF PickRunning, RowsFirst, Finished, RecordGoesLast,
       TypeOK, Present, With
  <2>5. QED
    BY <1>1, <2>2, <2>3, <2>4
<1>6. CASE WriteCancelled(a)
  <2>1. a \in Closers
    BY <1>6 DEF WriteCancelled, OwnerPlaced
  <2>2. Present' = Present
    BY <1>6 DEF WriteCancelled, RowsFirst, Present, With, TypeOK
  <2>3. OwnerPlaced' /\ (StepsLive => engine = "running")'
    BY <1>6, <2>1, <2>2 DEF WriteCancelled, OwnerPlaced, StepsLive, Alive,
       TypeOK, Records
  <2>4. CloserPlaced'
    BY <1>6, <2>1, <2>2 DEF WriteCancelled, CloserPlaced, Closing, Cancelling,
       Outside, Alive, TypeOK
  <2>5. RowsFirst'
    BY <1>6, <2>1, <2>2 DEF WriteCancelled, RowsFirst, Finished,
       RecordGoesLast, TypeOK, CloserPlaced
  <2>6. QED
    BY <1>1, <2>3, <2>4, <2>5
<1>7. CASE WalkRead(a)
  <2>1. OwnerPlaced' /\ (StepsLive => engine = "running")'
    BY <1>7 DEF WalkRead, OwnerPlaced, StepsLive, Alive, TypeOK, Records
  <2>2. CloserPlaced'
    BY <1>7 DEF WalkRead, CloserPlaced, Closing, Cancelling, Outside, Alive,
       TypeOK
  <2>3. RowsFirst'
    BY <1>7 DEF WalkRead, RowsFirst, Finished, RecordGoesLast, TypeOK,
       Present, With
  <2>4. QED
    BY <1>1, <2>1, <2>2, <2>3
<1>8. CASE WalkRefusals(a)
  <2>1. PICK T : RefusalStep(a, T)
    BY <1>8, RefusalsWritten
  <2> HIDE DEF PlacesInv
  <2> USE DEF RefusalStep
  <2>2. OwnerPlaced' /\ (StepsLive => engine = "running")'
    BY <2>1 DEF PlacesInv, OwnerPlaced, StepsLive, Alive, TypeOK, Records
  <2>3. CloserPlaced'
    BY <2>1 DEF PlacesInv, CloserPlaced, Closing, Cancelling, Outside, Alive,
       TypeOK
  <2>4. RowsFirst'
    BY <2>1 DEF PlacesInv, RowsFirst, Finished, RecordGoesLast, TypeOK
  <2> USE DEF PlacesInv
  <2>5. QED
    BY <1>1, <2>2, <2>3, <2>4
<1>9. CASE WalkCancelled(a)
  <2>1. Present' = Targets
    BY <1>9 DEF WalkCancelled, RowsFirst, InsertRows, Present, With, TypeOK
  <2>2. OwnerPlaced' /\ (StepsLive => engine = "running")'
    BY <1>9, <2>1 DEF WalkCancelled, OwnerPlaced, StepsLive, Alive, TypeOK,
       Records
  <2>3. CloserPlaced'
    BY <1>9, <2>1 DEF WalkCancelled, CloserPlaced, Closing, Cancelling,
       Outside, Alive, TypeOK
  <2>4. RowsFirst'
    BY <1>9, <2>1 DEF WalkCancelled, RowsFirst, Finished, RecordGoesLast,
       TypeOK
  <2>5. QED
    BY <1>1, <2>2, <2>3, <2>4
<1>10. CASE RemoveRecord(a)
  <2>1. OwnerPlaced' /\ (StepsLive => engine = "running")'
    BY <1>10 DEF RemoveRecord, OwnerPlaced, StepsLive, Alive, TypeOK, Records,
       CloserPlaced, Closing
  <2>2. CloserPlaced'
    BY <1>10 DEF RemoveRecord, CloserPlaced, Closing, Cancelling, Outside,
       Alive, TypeOK
  <2>3. RowsFirst'
    BY <1>10 DEF RemoveRecord, RowsFirst, Finished, RecordGoesLast, TypeOK,
       Present, With
  <2>4. QED
    BY <1>1, <2>1, <2>2, <2>3
<1>11. QED
  BY <1>2, <1>3, <1>4, <1>5, <1>6, <1>7, <1>8, <1>9, <1>10 DEF End

\* ... the owner's, ...
LEMMA OwnPlaces ==
  ASSUME PlacesInv, Own \/ EngineRaises \/ OwnerStops
  PROVE  PlacesInv'
<1> USE ActorKinds DEF PlacesInv, index, world, locals, Goto
<1>1. TypeOK'
  BY OwnTypes
<1>2. CASE StartEngine
  <2>1. OwnerPlaced' /\ (StepsLive => engine = "running")'
    BY <1>2 DEF StartEngine, OwnerPlaced, StepsLive, Alive, TypeOK, Records
  <2>2. CloserPlaced'
    BY <1>2 DEF StartEngine, CloserPlaced, Closing, Cancelling, Outside,
       Alive, TypeOK
  <2>3. RowsFirst'
    BY <1>2 DEF StartEngine, RowsFirst, Finished, RecordGoesLast, TypeOK,
       Present, With, OwnerPlaced, CloserPlaced, Closing, Alive
  <2>4. QED
    BY <1>1, <2>1, <2>2, <2>3
<1>3. CASE RecordEngine
  <2>1. OwnerPlaced' /\ (StepsLive => engine = "running")'
    BY <1>3 DEF RecordEngine, OwnerPlaced, StepsLive, Alive, TypeOK, Records
  <2>2. CloserPlaced'
    BY <1>3 DEF RecordEngine, CloserPlaced, Closing, Cancelling, Outside,
       Alive, TypeOK
  <2>3. RowsFirst'
    BY <1>3 DEF RecordEngine, RowsFirst, Finished, RecordGoesLast, TypeOK,
       Present, With
  <2>4. QED
    BY <1>1, <2>1, <2>2, <2>3
<1>4. CASE ProbeCancel
  <2>1. OwnerPlaced' /\ (StepsLive => engine = "running")'
    BY <1>4 DEF ProbeCancel, OwnerPlaced, StepsLive, Alive, TypeOK, Records
  <2>2. CloserPlaced'
    BY <1>4 DEF ProbeCancel, CloserPlaced, Closing, Cancelling, Outside,
       Alive, TypeOK
  <2>3. RowsFirst'
    BY <1>4 DEF ProbeCancel, RowsFirst, Finished, RecordGoesLast, TypeOK,
       Present, With
  <2>4. QED
    BY <1>1, <2>1, <2>2, <2>3
<1>5. CASE JudgeFailure
  <2>1. OwnerPlaced' /\ (StepsLive => engine = "running")'
    BY <1>5 DEF JudgeFailure, OwnerPlaced, StepsLive, Alive, TypeOK, Records
  <2>2. CloserPlaced'
    BY <1>5 DEF JudgeFailure, CloserPlaced, Closing, Cancelling, Outside,
       Alive, TypeOK
  <2>3. RowsFirst'
    BY <1>5 DEF JudgeFailure, RowsFirst, Finished, RecordGoesLast, TypeOK,
       Present, With
  <2>4. QED
    BY <1>1, <2>1, <2>2, <2>3
<1>6. CASE EngineRaises
  <2>1. OwnerPlaced' /\ (StepsLive => engine = "running")'
    BY <1>6 DEF EngineRaises, OwnerPlaced, StepsLive, Alive, TypeOK, Records
  <2>2. CloserPlaced'
    BY <1>6 DEF EngineRaises, CloserPlaced, Closing, Cancelling, Outside,
       Alive, TypeOK
  <2>3. RowsFirst'
    BY <1>6 DEF EngineRaises, RowsFirst, Finished, RecordGoesLast, TypeOK,
       Present, With, OwnerPlaced
  <2>4. QED
    BY <1>1, <2>1, <2>2, <2>3
<1>7. CASE OwnerStops
  <2>1. OwnerPlaced' /\ (StepsLive => engine = "running")'
    BY <1>7 DEF OwnerStops, OwnerPlaced, StepsLive, Alive, TypeOK, Records
  <2>2. CloserPlaced'
    BY <1>7 DEF OwnerStops, CloserPlaced, Closing, Cancelling, Outside, Alive,
       TypeOK
  <2>3. RowsFirst'
    BY <1>7 DEF OwnerStops, RowsFirst, Finished, RecordGoesLast, TypeOK,
       Present, With
  <2>4. QED
    BY <1>1, <2>1, <2>2, <2>3
<1>8. QED
  BY <1>2, <1>3, <1>4, <1>5, <1>6, <1>7 DEF Own

\* ... and a closer's.
LEMMA ClosePlaces ==
  ASSUME PlacesInv, NEW c \in Closers, Close(c) \/ Announce(c) \/ CloserStops(c)
  PROVE  PlacesInv'
<1> USE ActorKinds DEF PlacesInv, index, world, locals, Goto, Forget,
              NewRecord, NothingRead
<1>1. TypeOK'
  BY CloseTypes
<1>2. CASE TakeLock(c)
  <2>1. OwnerPlaced' /\ (StepsLive => engine = "running")'
    BY <1>2 DEF TakeLock, OwnerPlaced, StepsLive, Alive, TypeOK, Records
  <2>2. CloserPlaced'
    BY <1>2 DEF TakeLock, CloserPlaced, Closing, Cancelling, Outside, Alive,
       TypeOK
  <2>3. RowsFirst'
    BY <1>2 DEF TakeLock, RowsFirst, Finished, RecordGoesLast, TypeOK,
       Present, With
  <2>4. QED
    BY <1>1, <2>1, <2>2, <2>3
<1>3. CASE CancelLook(c)
  <2>1. OwnerPlaced' /\ (StepsLive => engine = "running")'
    BY <1>3 DEF CancelLook, OwnerPlaced, StepsLive, Alive, TypeOK, Records
  <2>2. CloserPlaced'
    BY <1>3 DEF CancelLook, CloserPlaced, Closing, Cancelling, Outside, Alive,
       TypeOK
  <2>3. RowsFirst'
    BY <1>3 DEF CancelLook, RowsFirst, Finished, RecordGoesLast, TypeOK,
       Present, With
  <2>4. QED
    BY <1>1, <2>1, <2>2, <2>3
<1>4. CASE KillEngine(c)
  <2>1. OwnerPlaced' /\ (StepsLive => engine = "running")'
    BY <1>4 DEF KillEngine, OwnerPlaced, StepsLive, Alive, TypeOK, Records
  <2>2. CloserPlaced'
    BY <1>4 DEF KillEngine, CloserPlaced, Closing, Cancelling, Outside, Alive,
       TypeOK, OwnerPlaced
  <2>3. RowsFirst'
    BY <1>4 DEF KillEngine, RowsFirst, Finished, RecordGoesLast, TypeOK,
       Present, With
  <2>4. QED
    BY <1>1, <2>1, <2>2, <2>3
<1>5. CASE AskOwner(c)
  <2>1. OwnerPlaced' /\ (StepsLive => engine = "running")'
    BY <1>5 DEF AskOwner, OwnerPlaced, StepsLive, Alive, TypeOK, Records
  <2>2. CloserPlaced'
    BY <1>5 DEF AskOwner, CloserPlaced, Closing, Cancelling, Outside, Alive,
       TypeOK
  <2>3. RowsFirst'
    BY <1>5 DEF AskOwner, RowsFirst, Finished, RecordGoesLast, TypeOK,
       Present, With
  <2>4. QED
    BY <1>1, <2>1, <2>2, <2>3
<1>6. CASE JudgeDead(c)
  <2>1. OwnerPlaced' /\ (StepsLive => engine = "running")'
    BY <1>6 DEF JudgeDead, OwnerPlaced, StepsLive, Alive, TypeOK, Records
  <2>2. CloserPlaced'
    BY <1>6 DEF JudgeDead, CloserPlaced, Closing, Cancelling, Outside, Alive,
       TypeOK
  <2>3. RowsFirst'
    BY <1>6 DEF JudgeDead, RowsFirst, Finished, RecordGoesLast, TypeOK,
       Present, With
  <2>4. QED
    BY <1>1, <2>1, <2>2, <2>3
<1>7. CASE CloseRead(c)
  <2>1. OwnerPlaced' /\ (StepsLive => engine = "running")'
    BY <1>7 DEF CloseRead, OwnerPlaced, StepsLive, Alive, TypeOK, Records
  <2>2. CloserPlaced'
    BY <1>7 DEF CloseRead, CloserPlaced, Closing, Cancelling, Outside, Alive,
       TypeOK
  <2>3. RowsFirst'
    BY <1>7 DEF CloseRead, RowsFirst, Finished, RecordGoesLast, TypeOK,
       Present, With
  <2>4. QED
    BY <1>1, <2>1, <2>2, <2>3
<1>8. CASE ReleaseLock(c)
  <2>1. OwnerPlaced' /\ (StepsLive => engine = "running")'
    BY <1>8 DEF ReleaseLock, OwnerPlaced, StepsLive, Alive, TypeOK, Records
  <2>2. CloserPlaced'
    BY <1>8 DEF ReleaseLock, CloserPlaced, Closing, Cancelling, Outside,
       Alive, TypeOK
  <2>3. RowsFirst'
    BY <1>8 DEF ReleaseLock, RowsFirst, Finished, RecordGoesLast, TypeOK,
       Present, With
  <2>4. QED
    BY <1>1, <2>1, <2>2, <2>3
<1>9. CASE Announce(c)
  <2>1. OwnerPlaced' /\ (StepsLive => engine = "running")'
    BY <1>9 DEF Announce, OwnerPlaced, StepsLive, Alive, TypeOK, Records
  <2>2. CloserPlaced'
    BY <1>9 DEF Announce, CloserPlaced, Closing, Cancelling, Outside, Alive,
       TypeOK
  <2>3. RowsFirst'
    BY <1>9 DEF Announce, RowsFirst, Finished, RecordGoesLast, TypeOK,
       Present, With
  <2>4. QED
    BY <1>1, <2>1, <2>2, <2>3
<1>10. CASE CloserStops(c)
  <2>1. OwnerPlaced' /\ (StepsLive => engine = "running")'
    BY <1>10 DEF CloserStops, OwnerPlaced, StepsLive, Alive, TypeOK, Records
  <2>2. CloserPlaced'
    BY <1>10 DEF CloserStops, CloserPlaced, Closing, Cancelling, Outside,
       Alive, TypeOK
  <2>3. RowsFirst'
    BY <1>10 DEF CloserStops, RowsFirst, Finished, RecordGoesLast, TypeOK,
       Present, With
  <2>4. QED
    BY <1>1, <2>1, <2>2, <2>3
<1>11. QED
  BY <1>2, <1>3, <1>4, <1>5, <1>6, <1>7, <1>8, <1>9, <1>10 DEF Close

\* An ending that raises leaves what the walk needs.
LEMMA RaisePlaces ==
  ASSUME PlacesInv, EndingRaises
  PROVE  PlacesInv'
<1> USE ActorKinds DEF PlacesInv, index, world, locals, Goto
<1>1. TypeOK'
  BY RaiseTypes
<1>2. CASE OwnerEndingRaises
  <2>1. OwnerPlaced' /\ (StepsLive => engine = "running")'
    BY <1>2 DEF OwnerEndingRaises, OwnerPlaced, StepsLive, Alive, TypeOK, Records
  <2>2. CloserPlaced'
    BY <1>2 DEF OwnerEndingRaises, CloserPlaced, Closing, Cancelling, Outside,
       Alive, TypeOK
  <2>3. RowsFirst'
    BY <1>2 DEF OwnerEndingRaises, RowsFirst, Finished, RecordGoesLast, TypeOK,
       Present, With
  <2>4. QED
    BY <1>1, <2>1, <2>2, <2>3
<1>3. ASSUME NEW c \in Closers, CloserEndingRaises(c)
      PROVE  PlacesInv'
  <2>1. OwnerPlaced' /\ (StepsLive => engine = "running")'
    BY <1>3 DEF CloserEndingRaises, OwnerPlaced, StepsLive, Alive, TypeOK, Records
  <2>2. CloserPlaced'
    BY <1>3 DEF CloserEndingRaises, CloserPlaced, Closing, Cancelling, Outside,
       Alive, TypeOK
  <2>3. RowsFirst'
    BY <1>3 DEF CloserEndingRaises, RowsFirst, Finished, RecordGoesLast, TypeOK,
       Present, With
  <2>4. QED
    BY <1>1, <2>1, <2>2, <2>3
<1>4. ASSUME NEW a \in Actors, StoreRaises(a)
      PROVE  PlacesInv'
  <2>1. OwnerPlaced' /\ (StepsLive => engine = "running")'
    BY <1>4 DEF StoreRaises, OwnerPlaced, StepsLive, Alive, TypeOK, Records
  <2>2. CloserPlaced'
    BY <1>4 DEF StoreRaises, CloserPlaced, Closing, Cancelling, Outside, Alive,
       TypeOK, OwnerPlaced
  <2>3. RowsFirst'
    BY <1>4 DEF StoreRaises, RowsFirst, Finished, RecordGoesLast, TypeOK,
       Present, With, OwnerPlaced, CloserPlaced
  <2>4. QED
    BY <1>1, <2>1, <2>2, <2>3
<1>5. QED
  BY <1>2, <1>3, <1>4 DEF EndingRaises

LEMMA PlacesNext == PlacesInv /\ [Next]_vars => PlacesInv'
<1> SUFFICES ASSUME PlacesInv, [Next]_vars
             PROVE  PlacesInv'
  OBVIOUS
<1>1. CASE EngineEnds
  <2>1. PICK t \in Targets : TRUE
    BY PipelineAssumption
  <2>2. QED
    BY <1>1, <2>1, EnginePlaces
<1>2. CASE UNCHANGED vars
  BY <1>2 DEF vars, index, world, locals, PlacesInv, TypeOK, OwnerPlaced,
     CloserPlaced, RowsFirst, StepsLive, Alive, Closing, Cancelling, Outside,
     Finished, RecordGoesLast, Present, With
<1>3. CASE Next /\ ~EngineEnds
  BY <1>3, EnginePlaces, EndPlaces, OwnPlaces, ClosePlaces, RaisePlaces DEF Next
<1>4. QED
  BY <1>1, <1>2, <1>3

\* Where the owner and the closers are, who holds the lock, and that a record
\* goes after a walk, whatever goes wrong.
THEOREM PlacesInvariant == Spec => []PlacesInv
  BY PlacesInit, PlacesNext, PTL DEF Spec

\* The record goes after every target has its row, or after an owner's ending
\* that raised, unless the engine could not be started.
THEOREM RecordLast ==
  ASSUME "engineRaises" \notin Disturbances
  PROVE  Spec => []RecordGoesLast
<1>1. PlacesInv => RecordGoesLast
  BY DEF PlacesInv, RowsFirst
<1>2. QED
  BY <1>1, PlacesInvariant, PTL

-----------------------------------------------------------------------------
(* One row for each target, of owners whose engine is recorded when they   *)
(* die.                                                                    *)

LEMMA EndInit == Init => EndInv
<1> SUFFICES ASSUME Init
             PROVE  EndInv
  OBVIOUS
<1> USE ActorKinds DEF Init, NewRecord, NothingRead
<1>1. PlacesInv
  BY PlacesInit
<1>2. FreshSteps
  BY DEF FreshSteps, NoReason
<1>3. EngineFound
  BY DEF EngineFound, Cancelling, Closing
<1>4. RowsKnown /\ OneRowEach
  BY DEF RowsKnown, OneRowEach
<1>5. QED
  BY <1>1, <1>2, <1>3, <1>4 DEF EndInv

\* While the engine runs nobody walks, and a claiming step has no row.
LEMMA WhileRunning ==
  ASSUME EndInv, engine = "running"
  PROVE  /\ ~Over /\ record.there
         /\ pc[Owner] \in {"recordEngine", "wait", "dead"}
         /\ \A a \in Actors : /\ pc[a] \notin {"walk", "refusals", "cancelled"}
                              /\ ~Finished(a)
         /\ \A t \in Targets : step[t] = "claiming" => t \notin Present
<1> USE ActorKinds DEF EndInv, PlacesInv
<1>1. ~Over /\ record.there
  BY DEF Over, EngineFound
<1>2. pc[Owner] \in {"recordEngine", "wait", "dead"}
  BY DEF OwnerPlaced
<1>3. \A c \in Closers : ~Closing(c)
  BY <1>1 DEF EngineFound
<1>4. \A c \in Closers : /\ pc[c] \notin {"walk", "refusals", "cancelled"}
                         /\ ~Finished(c)
  BY <1>3 DEF Closing, Finished
<1>5. QED
  BY <1>1, <1>2, <1>4 DEF Finished, FreshSteps, Present, With

LEMMA EngineSteps ==
  ASSUME EndInv, NEW t \in Targets, StartStep(t) \/ Engine(t) \/ EngineEnds
  PROVE  EndInv'
<1> USE ActorKinds DEF EndInv, PlacesInv, index, world, locals, Goto
<1>1. PlacesInv'
  BY EnginePlaces
<1>2. CASE StartStep(t)
  <2>1. FreshSteps'
    BY <1>2 DEF StartStep, FreshSteps, Over, TypeOK
  <2>2. EngineFound'
    BY <1>2 DEF StartStep, EngineFound, EngineKnown, Closing, Cancelling,
       Over, Alive, TypeOK
  <2>3. (RowsKnown /\ OneRowEach)'
    BY <1>2 DEF StartStep, RowsKnown, OneRowEach, TypeOK, Present, With
  <2>4. QED
    BY <1>1, <2>1, <2>2, <2>3
<1>3. ASSUME NEW st \in {"completed", "running"}, ClaimRow(t, st)
      PROVE  EndInv'
  <2>1. step[t] = "claiming" /\ engine = "running"
    BY <1>3 DEF ClaimRow, StepsLive
  <2>2. t \notin Present
    BY <2>1, WhileRunning
  <2>3. /\ row' = [row EXCEPT ![t] = st] /\ Present' = Present \cup {t}
        /\ second' = second
    BY <1>3, <2>2 DEF ClaimRow, InsertRows, Present, With, TypeOK
  <2>4. FreshSteps'
    BY <1>3, <2>1, <2>3 DEF ClaimRow, FreshSteps, Over, TypeOK
  <2>5. EngineFound'
    BY <1>3, <2>1, <2>3 DEF ClaimRow, EngineFound, EngineKnown, Closing,
       Cancelling, Over, Alive, TypeOK
  <2>6. (RowsKnown /\ OneRowEach)'
    BY <1>3, <2>1, <2>3, WhileRunning DEF ClaimRow, RowsKnown, OneRowEach,
       TypeOK
  <2>7. QED
    BY <1>1, <2>4, <2>5, <2>6
<1>4. CASE ClaimFails(t)
  <2>1. FreshSteps'
    BY <1>4 DEF ClaimFails, FreshSteps, Over, TypeOK
  <2>2. EngineFound'
    BY <1>4 DEF ClaimFails, EngineFound, EngineKnown, Closing, Cancelling,
       Over, Alive, TypeOK
  <2>3. (RowsKnown /\ OneRowEach)'
    BY <1>4 DEF ClaimFails, RowsKnown, OneRowEach, TypeOK, Present, With
  <2>4. QED
    BY <1>1, <2>1, <2>2, <2>3
<1>5. CASE EndStep(t)
  <2>1. PICK l \in {"passed", "ended"}, st \in Status :
          /\ step' = [step EXCEPT ![t] = l]
          /\ row' = [row EXCEPT ![t] = st]
          /\ st = "none" <=> row[t] = "none"
    BY <1>5 DEF EndStep, TypeOK, Status
  <2>2. Present' = Present
    BY <2>1 DEF Present, With, TypeOK
  <2>3. FreshSteps'
    BY <1>5, <2>1, <2>2 DEF EndStep, FreshSteps, Over, TypeOK
  <2>4. EngineFound'
    BY <1>5, <2>1, <2>2 DEF EndStep, EngineFound, EngineKnown, Closing,
       Cancelling, Over, Alive, TypeOK
  <2>5. (RowsKnown /\ OneRowEach)'
    BY <1>5, <2>1, <2>2 DEF EndStep, RowsKnown, OneRowEach, TypeOK
  <2>6. QED
    BY <1>1, <2>3, <2>4, <2>5
<1>6. CASE EngineEnds
  <2>1. FreshSteps'
    BY <1>6 DEF EngineEnds, FreshSteps, Over, TypeOK, OwnerPlaced
  <2>2. EngineFound'
    BY <1>6, WhileRunning DEF EngineEnds, EngineFound, EngineKnown, Closing,
       Cancelling, Over, Alive, TypeOK
  <2>3. (RowsKnown /\ OneRowEach)'
    BY <1>6 DEF EngineEnds, RowsKnown, OneRowEach, TypeOK, Present, With
  <2>4. QED
    BY <1>1, <2>1, <2>2, <2>3
<1>7. QED
  BY <1>2, <1>3, <1>4, <1>5, <1>6 DEF Engine

\* One actor walks at a time, and no step claims by then.
Walking(a) == pc[a] \in {"walk", "refusals", "cancelled"}

LEMMA OneWalks ==
  ASSUME EndInv, NEW a \in Actors, Walking(a) \/ pc[a] = "remove"
  PROVE  /\ Over
         /\ \A b \in Actors : Walking(b) => b = a
<1> USE ActorKinds DEF EndInv, PlacesInv, Walking
<1>1. CASE a = Owner
  <2>1. Over /\ record.there /\ Alive(Owner)
    BY <1>1 DEF OwnerPlaced, Over, Alive
  <2>2. \A c \in Closers : ~Closing(c)
    BY <2>1 DEF CloserPlaced
  <2>3. QED
    BY <1>1, <2>1, <2>2 DEF Closing
<1>2. CASE a \in Closers
  <2>1. Closing(a)
    BY <1>2 DEF Closing
  <2>2. Over /\ (record.there => ~Alive(Owner))
    BY <1>2, <2>1 DEF CloserPlaced, EngineFound
  <2>3. ~Walking(Owner)
    BY <2>2 DEF OwnerPlaced, Alive
  <2>4. \A c \in Closers : Walking(c) => c = a
    BY <1>2 DEF CloserPlaced, Outside
  <2>5. QED
    BY <2>2, <2>3, <2>4
<1>3. QED
  BY <1>1, <1>2

LEMMA EndSteps ==
  ASSUME EndInv, NEW a \in Actors, End(a)
  PROVE  EndInv'
<1> USE ActorKinds DEF EndInv, PlacesInv, index, world, locals, Goto
<1>1. PlacesInv'
  BY EndPlaces
<1>2. CASE ReadRecorded(a)
  <2>1. FreshSteps'
    BY <1>2 DEF ReadRecorded, FreshSteps, Over, TypeOK
  <2>2. EngineFound'
    BY <1>2 DEF ReadRecorded, EngineFound, EngineKnown, Closing, Cancelling,
       Over, Alive, TypeOK
  <2>3. (RowsKnown /\ OneRowEach)'
    BY <1>2 DEF ReadRecorded, RowsKnown, OneRowEach, TypeOK, Present, With
  <2>4. QED
    BY <1>1, <2>1, <2>2, <2>3
<1>3. CASE StoreOutcome(a)
  <2>1. FreshSteps'
    BY <1>3 DEF StoreOutcome, FreshSteps, Over, TypeOK, OwnerPlaced
  <2>2. EngineFound'
    BY <1>3 DEF StoreOutcome, EngineFound, EngineKnown, Closing, Cancelling,
       Over, Alive, TypeOK, OwnerPlaced, CloserPlaced, Outside
  <2>3. (RowsKnown /\ OneRowEach)'
    BY <1>3 DEF StoreOutcome, RowsKnown, OneRowEach, TypeOK, Present, With,
       OwnerPlaced, CloserPlaced
  <2>4. QED
    BY <1>1, <2>1, <2>2, <2>3
<1>4. CASE FailRows(a)
  <2>1. Present' = Present
    BY <1>4 DEF FailRows, Present, With, TypeOK
  <2>2. FreshSteps'
    BY <1>4, <2>1 DEF FailRows, FreshSteps, Over, TypeOK
  <2>3. EngineFound'
    BY <1>4, <2>1 DEF FailRows, EngineFound, EngineKnown, Closing, Cancelling,
       Over, Alive, TypeOK, CloserPlaced
  <2>4. (RowsKnown /\ OneRowEach)'
    BY <1>4, <2>1 DEF FailRows, RowsKnown, OneRowEach, TypeOK
  <2>5. QED
    BY <1>1, <2>2, <2>3, <2>4
<1>5. CASE PickRunning(a)
  <2>1. a \in Closers
    BY <1>5 DEF PickRunning, OwnerPlaced
  <2>2. FreshSteps'
    BY <1>5, <2>1 DEF PickRunning, FreshSteps, Over, TypeOK
  <2>3. EngineFound'
    BY <1>5, <2>1 DEF PickRunning, EngineFound, EngineKnown, Closing,
       Cancelling, Over, Alive, TypeOK
  <2>4. (RowsKnown /\ OneRowEach)'
    BY <1>5, <2>1 DEF PickRunning, RowsKnown, OneRowEach, TypeOK, Present,
       With
  <2>5. QED
    BY <1>1, <2>2, <2>3, <2>4
<1>6. CASE WriteCancelled(a)
  <2>1. a \in Closers
    BY <1>6 DEF WriteCancelled, OwnerPlaced
  <2>2. Present' = Present
    BY <1>6 DEF WriteCancelled, RowsFirst, Present, With, TypeOK
  <2>3. FreshSteps'
    BY <1>6, <2>1, <2>2 DEF WriteCancelled, FreshSteps, Over, TypeOK,
       RowsFirst, Present, With
  <2>4. EngineFound'
    BY <1>6, <2>1, <2>2 DEF WriteCancelled, EngineFound, EngineKnown, Closing,
       Cancelling, Over, Alive, TypeOK
  <2>5. (RowsKnown /\ OneRowEach)'
    BY <1>6, <2>1, <2>2 DEF WriteCancelled, RowsKnown, OneRowEach, TypeOK,
       CloserPlaced
  <2>6. QED
    BY <1>1, <2>3, <2>4, <2>5
<1>7. CASE WalkRead(a)
  <2>1. FreshSteps'
    BY <1>7 DEF WalkRead, FreshSteps, Over, TypeOK
  <2>2. EngineFound'
    BY <1>7 DEF WalkRead, EngineFound, EngineKnown, Closing, Cancelling, Over,
       Alive, TypeOK
  <2>3. (RowsKnown /\ OneRowEach)'
    BY <1>7 DEF WalkRead, RowsKnown, OneRowEach, TypeOK, Present, With
  <2>4. QED
    BY <1>1, <2>1, <2>2, <2>3
<1>8. CASE WalkRefusals(a)
  <2>1. /\ Over /\ known[a].present = Present
        /\ \A b \in Actors : Walking(b) => b = a
    BY <1>8, OneWalks DEF WalkRefusals, Walking, RowsKnown
  <2>2. PICK T : RefusalStep(a, T)
    BY <1>8, RefusalsWritten
  <2> USE DEF RefusalStep
  <2>3. FreshSteps'
    BY <2>1, <2>2 DEF FreshSteps, Over, TypeOK
  <2>4. EngineFound'
    BY <2>1, <2>2 DEF EngineFound, EngineKnown, Closing, Cancelling, Over,
       Alive, TypeOK
  <2>5. (RowsKnown /\ OneRowEach)'
    <3>1. second' = second
      BY <2>1, <2>2 DEF InsertRows
    <3>2. \A b \in Actors : pc'[b] \in {"refusals", "cancelled"} => b = a
      BY <2>1, <2>2 DEF Walking, TypeOK
    <3>3. known'[a].present = Present'
      BY <2>1, <2>2
    <3>4. QED
      BY <3>1, <3>2, <3>3 DEF RowsKnown, OneRowEach
  <2>6. QED
    BY <1>1, <2>3, <2>4, <2>5
<1>9. CASE WalkCancelled(a)
  <2>1. /\ Over /\ known[a].present = Present
        /\ \A b \in Actors : Walking(b) => b = a
    BY <1>9, OneWalks DEF WalkCancelled, Walking, RowsKnown
  <2>2. Present' = Targets /\ second' = second
    BY <1>9, <2>1 DEF WalkCancelled, InsertRows, Present, With, TypeOK
  <2>3. FreshSteps'
    BY <1>9, <2>1, <2>2 DEF WalkCancelled, FreshSteps, Over, TypeOK
  <2>4. EngineFound'
    BY <1>9, <2>1, <2>2 DEF WalkCancelled, EngineFound, EngineKnown, Closing,
       Cancelling, Over, Alive, TypeOK
  <2>5. (RowsKnown /\ OneRowEach)'
    BY <1>9, <2>1, <2>2 DEF WalkCancelled, RowsKnown, OneRowEach, TypeOK,
       Walking
  <2>6. QED
    BY <1>1, <2>3, <2>4, <2>5
<1>10. CASE RemoveRecord(a)
  <2>1. pc[a] = "remove" /\ Over
    BY <1>10, OneWalks DEF RemoveRecord
  <2>2. FreshSteps'
    BY <1>10, <2>1 DEF RemoveRecord, FreshSteps, Over, TypeOK
  <2>3. EngineFound'
    BY <1>10, <2>1 DEF RemoveRecord, EngineFound, EngineKnown, Closing,
       Cancelling, Over, Alive, TypeOK, CloserPlaced, Outside
  <2>4. (RowsKnown /\ OneRowEach)'
    BY <1>10, <2>1 DEF RemoveRecord, RowsKnown, OneRowEach, TypeOK, Present,
       With
  <2>5. QED
    BY <1>1, <2>2, <2>3, <2>4
<1>11. QED
  BY <1>2, <1>3, <1>4, <1>5, <1>6, <1>7, <1>8, <1>9, <1>10 DEF End

LEMMA OwnerSteps ==
  ASSUME EndInv, "unrecorded" \notin Disturbances,
         Own \/ EngineRaises \/ OwnerStops
  PROVE  EndInv'
<1> USE ActorKinds DEF EndInv, PlacesInv, index, world, locals, Goto
<1>1. PlacesInv'
  BY OwnPlaces
<1>2. CASE StartEngine
  <2>1. pc[Owner] = "launch" /\ engine = "none" /\ record.there /\ Alive(Owner)
    BY <1>2 DEF StartEngine, OwnerPlaced, Alive
  <2>2. \A c \in Closers : ~Closing(c)
    BY <2>1 DEF CloserPlaced
  <2>3. FreshSteps'
    BY <1>2, <2>1, <2>2 DEF StartEngine, FreshSteps, Over, TypeOK
  <2>4. EngineFound'
    BY <1>2, <2>1, <2>2 DEF StartEngine, EngineFound, EngineKnown, Closing,
       Cancelling, Over, Alive, TypeOK, OwnerPlaced
  <2>5. (RowsKnown /\ OneRowEach)'
    BY <1>2, <2>1, <2>2 DEF StartEngine, RowsKnown, OneRowEach, TypeOK,
       Present, With
  <2>6. QED
    BY <1>1, <2>3, <2>4, <2>5
<1>3. CASE RecordEngine
  <2>1. pc[Owner] = "recordEngine" /\ record.there /\ Alive(Owner)
    BY <1>3 DEF RecordEngine, OwnerPlaced, Alive
  <2>2. FreshSteps'
    BY <1>3, <2>1 DEF RecordEngine, FreshSteps, Over, TypeOK
  <2>3. EngineFound'
    BY <1>3, <2>1 DEF RecordEngine, EngineFound, EngineKnown, Closing,
       Cancelling, Over, Alive, TypeOK, Records
  <2>4. (RowsKnown /\ OneRowEach)'
    BY <1>3, <2>1 DEF RecordEngine, RowsKnown, OneRowEach, TypeOK, Present,
       With
  <2>5. QED
    BY <1>1, <2>2, <2>3, <2>4
<1>4. CASE ProbeCancel
  <2>1. pc[Owner] = "wait" /\ engine # "running" /\ record.there
    BY <1>4 DEF ProbeCancel, OwnerPlaced
  <2>2. FreshSteps'
    BY <1>4, <2>1 DEF ProbeCancel, FreshSteps, Over, TypeOK
  <2>3. EngineFound'
    BY <1>4, <2>1 DEF ProbeCancel, EngineFound, EngineKnown, Closing,
       Cancelling, Over, Alive, TypeOK
  <2>4. (RowsKnown /\ OneRowEach)'
    BY <1>4, <2>1 DEF ProbeCancel, RowsKnown, OneRowEach, TypeOK, Present,
       With
  <2>5. QED
    BY <1>1, <2>2, <2>3, <2>4
<1>5. CASE JudgeFailure
  <2>1. FreshSteps'
    BY <1>5 DEF JudgeFailure, FreshSteps, Over, TypeOK
  <2>2. EngineFound'
    BY <1>5 DEF JudgeFailure, EngineFound, EngineKnown, Closing, Cancelling,
       Over, Alive, TypeOK, OwnerPlaced
  <2>3. (RowsKnown /\ OneRowEach)'
    BY <1>5 DEF JudgeFailure, RowsKnown, OneRowEach, TypeOK, Present, With
  <2>4. QED
    BY <1>1, <2>1, <2>2, <2>3
<1>6. CASE EngineRaises
  <2>1. pc[Owner] = "launch" /\ engine = "none" /\ record.there
    BY <1>6 DEF EngineRaises, OwnerPlaced
  <2>2. FreshSteps'
    BY <1>6, <2>1 DEF EngineRaises, FreshSteps, Over, TypeOK
  <2>3. EngineFound'
    BY <1>6, <2>1 DEF EngineRaises, EngineFound, EngineKnown, Closing,
       Cancelling, Over, Alive, TypeOK
  <2>4. (RowsKnown /\ OneRowEach)'
    BY <1>6, <2>1 DEF EngineRaises, RowsKnown, OneRowEach, TypeOK, Present,
       With
  <2>5. QED
    BY <1>1, <2>2, <2>3, <2>4
<1>7. CASE OwnerStops
  <2>1. pc[Owner] = "ended" \/ EngineKnown
    BY <1>7 DEF OwnerStops
  <2>2. pc[Owner] = "ended" => engine # "running"
    BY DEF OwnerPlaced
  <2>3. FreshSteps'
    BY <1>7, <2>1, <2>2 DEF OwnerStops, FreshSteps, Over, TypeOK
  <2>4. EngineFound'
    BY <1>7, <2>1, <2>2 DEF OwnerStops, EngineFound, EngineKnown, Closing,
       Cancelling, Over, Alive, TypeOK
  <2>5. (RowsKnown /\ OneRowEach)'
    BY <1>7, <2>1, <2>2 DEF OwnerStops, RowsKnown, OneRowEach, TypeOK,
       Present, With
  <2>6. QED
    BY <1>1, <2>3, <2>4, <2>5
<1>8. QED
  BY <1>2, <1>3, <1>4, <1>5, <1>6, <1>7 DEF Own

LEMMA CloseSteps ==
  ASSUME EndInv, NEW c \in Closers, Close(c) \/ Announce(c) \/ CloserStops(c)
  PROVE  EndInv'
<1> USE ActorKinds, PipelineAssumption
    DEF EndInv, PlacesInv, index, world, locals, Goto, Forget, NewRecord,
        NothingRead
<1>1. PlacesInv'
  BY ClosePlaces
<1>2. CASE TakeLock(c)
  <2>1. FreshSteps'
    BY <1>2 DEF TakeLock, FreshSteps, Over, TypeOK
  <2>2. EngineFound'
    BY <1>2 DEF TakeLock, EngineFound, EngineKnown, Closing, Cancelling, Over,
       Alive, TypeOK, CloserPlaced, Outside
  <2>3. (RowsKnown /\ OneRowEach)'
    BY <1>2 DEF TakeLock, RowsKnown, OneRowEach, TypeOK, Present, With
  <2>4. QED
    BY <1>1, <2>1, <2>2, <2>3
<1>3. CASE CancelLook(c)
  <2>1. record'.there = record.there /\ record'.engine = record.engine
    BY <1>3 DEF CancelLook, TypeOK, Records
  <2>2. FreshSteps'
    BY <1>3, <2>1 DEF CancelLook, FreshSteps, Over, TypeOK
  <2>3. EngineFound'
    BY <1>3, <2>1 DEF CancelLook, EngineFound, EngineKnown, Closing,
       Cancelling, Over, Alive, TypeOK, CloserPlaced, Outside
  <2>4. (RowsKnown /\ OneRowEach)'
    BY <1>3, <2>1 DEF CancelLook, RowsKnown, OneRowEach, TypeOK, Present, With
  <2>5. QED
    BY <1>1, <2>2, <2>3, <2>4
<1>4. CASE KillEngine(c)
  <2>1. pc[c] = "kill" /\ Cancelling(c) /\ lock = c
    BY <1>4 DEF KillEngine, Cancelling, Closing, CloserPlaced, Outside
  <2>2. seen[c].engine => pc[Owner] # "launch"
    BY DEF OwnerPlaced
  <2>3. \/ /\ engine = "running" /\ engine' = "bad" /\ ~StepsLive'
           /\ pc[Owner] # "launch"
        \/ UNCHANGED <<engine, step>>
    BY <1>4, <2>2 DEF KillEngine, StepsLive, TypeOK
  <2>4. FreshSteps'
    BY <1>4, <2>1, <2>2, <2>3 DEF KillEngine, FreshSteps, Over, TypeOK
  <2>5. EngineFound'
    BY <1>4, <2>1, <2>2, <2>3 DEF KillEngine, EngineFound, EngineKnown,
       Closing, Cancelling, Over, Alive, TypeOK, CloserPlaced, Outside
  <2>6. (RowsKnown /\ OneRowEach)'
    BY <1>4, <2>1, <2>2, <2>3 DEF KillEngine, RowsKnown, OneRowEach, TypeOK,
       Present, With
  <2>7. QED
    BY <1>1, <2>4, <2>5, <2>6
<1>5. CASE AskOwner(c)
  <2>1. Cancelling(c) /\ pc[c] = "ask" /\ lock = c
    BY <1>5 DEF AskOwner, Cancelling, Closing, CloserPlaced, Outside
  <2>2. pc'[c] = "closeRead" => Over
    BY <1>5, <2>1 DEF AskOwner, CloserPlaced, EngineFound, EngineKnown, Over,
       Alive, TypeOK
  <2>3. FreshSteps'
    BY <1>5, <2>1, <2>2 DEF AskOwner, FreshSteps, Over, TypeOK
  <2>4. EngineFound'
    BY <1>5, <2>1, <2>2 DEF AskOwner, EngineFound, EngineKnown, Closing,
       Cancelling, Over, Alive, TypeOK
  <2>5. (RowsKnown /\ OneRowEach)'
    BY <1>5, <2>1, <2>2 DEF AskOwner, RowsKnown, OneRowEach, TypeOK, Present,
       With
  <2>6. QED
    BY <1>1, <2>3, <2>4, <2>5
<1>6. CASE JudgeDead(c)
  <2>1. Over
    BY <1>6 DEF JudgeDead, EngineFound, EngineKnown, Over, Alive
  <2>2. FreshSteps'
    BY <1>6, <2>1 DEF JudgeDead, FreshSteps, Over, TypeOK
  <2>3. EngineFound'
    BY <1>6, <2>1 DEF JudgeDead, EngineFound, EngineKnown, Closing,
       Cancelling, Over, Alive, TypeOK
  <2>4. (RowsKnown /\ OneRowEach)'
    BY <1>6, <2>1 DEF JudgeDead, RowsKnown, OneRowEach, TypeOK, Present, With
  <2>5. QED
    BY <1>1, <2>2, <2>3, <2>4
<1>7. CASE CloseRead(c)
  <2>1. FreshSteps'
    BY <1>7 DEF CloseRead, FreshSteps, Over, TypeOK
  <2>2. EngineFound'
    BY <1>7 DEF CloseRead, EngineFound, EngineKnown, Closing, Cancelling,
       Over, Alive, TypeOK
  <2>3. (RowsKnown /\ OneRowEach)'
    BY <1>7 DEF CloseRead, RowsKnown, OneRowEach, TypeOK, Present, With
  <2>4. QED
    BY <1>1, <2>1, <2>2, <2>3
<1>8. CASE ReleaseLock(c)
  <2>1. lock = c
    BY <1>8 DEF ReleaseLock, CloserPlaced, Outside
  <2>2. FreshSteps'
    BY <1>8, <2>1 DEF ReleaseLock, FreshSteps, Over, TypeOK
  <2>3. EngineFound'
    BY <1>8, <2>1 DEF ReleaseLock, EngineFound, EngineKnown, Closing,
       Cancelling, Over, Alive, TypeOK
  <2>4. (RowsKnown /\ OneRowEach)'
    BY <1>8, <2>1 DEF ReleaseLock, RowsKnown, OneRowEach, TypeOK, Present,
       With
  <2>5. QED
    BY <1>1, <2>2, <2>3, <2>4
<1>9. CASE Announce(c)
  <2>1. record'.there = record.there /\ record'.engine = record.engine
    BY <1>9 DEF Announce, TypeOK, Records
  <2>2. FreshSteps'
    BY <1>9, <2>1 DEF Announce, FreshSteps, Over, TypeOK
  <2>3. EngineFound'
    BY <1>9, <2>1 DEF Announce, EngineFound, EngineKnown, Closing, Cancelling,
       Over, Alive, TypeOK
  <2>4. (RowsKnown /\ OneRowEach)'
    BY <1>9, <2>1 DEF Announce, RowsKnown, OneRowEach, TypeOK, Present, With
  <2>5. QED
    BY <1>1, <2>2, <2>3, <2>4
<1>10. CASE CloserStops(c)
  <2>1. FreshSteps'
    BY <1>10 DEF CloserStops, FreshSteps, Over, TypeOK
  <2>2. EngineFound'
    BY <1>10 DEF CloserStops, EngineFound, EngineKnown, Closing, Cancelling,
       Over, Alive, TypeOK
  <2>3. (RowsKnown /\ OneRowEach)'
    BY <1>10 DEF CloserStops, RowsKnown, OneRowEach, TypeOK, Present, With
  <2>4. QED
    BY <1>1, <2>1, <2>2, <2>3
<1>11. QED
  BY <1>2, <1>3, <1>4, <1>5, <1>6, <1>7, <1>8, <1>9, <1>10 DEF Close

\* An ending that raises reads and writes no row.
LEMMA RaiseSteps ==
  ASSUME EndInv, EndingRaises
  PROVE  EndInv'
<1> USE ActorKinds DEF EndInv, PlacesInv, index, world, locals, Goto
<1>1. PlacesInv'
  BY RaisePlaces
<1>2. CASE OwnerEndingRaises
  <2>1. FreshSteps'
    BY <1>2 DEF OwnerEndingRaises, FreshSteps, Over, TypeOK
  <2>2. EngineFound'
    BY <1>2 DEF OwnerEndingRaises, EngineFound, EngineKnown, Closing,
       Cancelling, Over, Alive, TypeOK
  <2>3. (RowsKnown /\ OneRowEach)'
    BY <1>2 DEF OwnerEndingRaises, RowsKnown, OneRowEach, TypeOK, Present, With
  <2>4. QED
    BY <1>1, <2>1, <2>2, <2>3
<1>3. ASSUME NEW c \in Closers, CloserEndingRaises(c)
      PROVE  EndInv'
  <2>1. FreshSteps'
    BY <1>3 DEF CloserEndingRaises, FreshSteps, Over, TypeOK
  <2>2. EngineFound'
    BY <1>3 DEF CloserEndingRaises, EngineFound, EngineKnown, Closing,
       Cancelling, Over, Alive, TypeOK, CloserPlaced, Outside
  <2>3. (RowsKnown /\ OneRowEach)'
    BY <1>3 DEF CloserEndingRaises, RowsKnown, OneRowEach, TypeOK, Present, With
  <2>4. QED
    BY <1>1, <2>1, <2>2, <2>3
<1>4. ASSUME NEW a \in Actors, StoreRaises(a)
      PROVE  EndInv'
  <2>1. FreshSteps'
    BY <1>4 DEF StoreRaises, FreshSteps, Over, TypeOK, OwnerPlaced
  <2>2. EngineFound'
    BY <1>4 DEF StoreRaises, EngineFound, EngineKnown, Closing, Cancelling,
       Over, Alive, TypeOK, OwnerPlaced, CloserPlaced, Outside
  <2>3. (RowsKnown /\ OneRowEach)'
    BY <1>4 DEF StoreRaises, RowsKnown, OneRowEach, TypeOK, Present, With,
       OwnerPlaced, CloserPlaced
  <2>4. QED
    BY <1>1, <2>1, <2>2, <2>3
<1>5. QED
  BY <1>2, <1>3, <1>4 DEF EndingRaises

LEMMA EndNext ==
  ASSUME "unrecorded" \notin Disturbances, EndInv, [Next]_vars
  PROVE  EndInv'
<1>1. CASE EngineEnds
  <2>1. PICK t \in Targets : TRUE
    BY PipelineAssumption
  <2>2. QED
    BY <1>1, <2>1, EngineSteps
<1>2. CASE UNCHANGED vars
  <2>1. PlacesInv'
    BY <1>2, PlacesNext DEF EndInv
  <2>2. QED
    BY <1>2, <2>1 DEF vars, index, world, locals, EndInv, FreshSteps,
       EngineFound, EngineKnown, RowsKnown, OneRowEach, Over, Alive, Closing,
       Cancelling, Present, With
<1>3. CASE Next /\ ~EngineEnds
  BY <1>3, EngineSteps, EndSteps, OwnerSteps, CloseSteps, RaiseSteps DEF Next
<1>4. QED
  BY <1>1, <1>2, <1>3

\* The inductive invariant holds for any targets, cancels and recoveries, of
\* owners whose engine, if it runs, is in the record when they die.
THEOREM EndInvariant ==
  ASSUME "unrecorded" \notin Disturbances
  PROVE  Spec => []EndInv
<1>1. EndInv /\ [Next]_vars => EndInv'
  BY EndNext
<1>2. QED
  BY <1>1, EndInit, PTL DEF Spec

\* Whoever ends a pipeline, and whoever dies on the way, a target has one row.
THEOREM OneRowPerTarget ==
  ASSUME "unrecorded" \notin Disturbances
  PROVE  Spec => []OneRowEach
<1>1. EndInv => OneRowEach
  BY DEF EndInv
<1>2. Spec => []EndInv
  BY EndInvariant
<1>3. QED
  BY <1>1, <1>2, PTL

-----------------------------------------------------------------------------
(* The stored status, of engines that could be started.                    *)

LEMMA StatusSame ==
  ASSUME UNCHANGED <<row, reason>>
  PROVE  PipelineStatus(FALSE)' = PipelineStatus(FALSE)
  BY DEF PipelineStatus, With

\* With a row for every target nothing is pending.
LEMMA NothingPending ==
  ASSUME Present = Targets, second = {}
  PROVE  ~(Cardinality(Present) + Cardinality(second) < Cardinality(Targets))
  BY PipelineAssumption, FS_EmptySet, FS_CardinalityType

\* The record is gone or about to go: every target has its row, and no step
\* runs.
Last == ~record.there \/ pc[Owner] = "remove"

\* An ending that raised stays known; another step raises nothing.
LEMMA CutKept ==
  ASSUME [Next]_vars
  PROVE  \/ EndingRaises /\ cut \subseteq cut' /\ cut' # {}
         \/ cut' = cut
<1>1. ASSUME NEW t \in Targets, StartStep(t) \/ Engine(t)
      PROVE  cut' = cut
  BY <1>1 DEF StartStep, Engine, ClaimRow, ClaimFails, EndStep
<1>2. ASSUME NEW a \in Actors, End(a)
      PROVE  cut' = cut
  BY <1>2 DEF End, ReadRecorded, StoreOutcome, FailRows, PickRunning,
     WriteCancelled, WalkRead, WalkRefusals, WalkCancelled, RemoveRecord
<1>3. CASE Own \/ EngineRaises \/ OwnerStops \/ EngineEnds \/ UNCHANGED vars
  BY <1>3 DEF Own, StartEngine, RecordEngine, ProbeCancel, JudgeFailure,
     EngineRaises, OwnerStops, EngineEnds, vars
<1>4. ASSUME NEW c \in Closers, Close(c) \/ Announce(c) \/ CloserStops(c)
      PROVE  cut' = cut
  BY <1>4 DEF Close, TakeLock, CancelLook, KillEngine, AskOwner, JudgeDead,
     CloseRead, ReleaseLock, Announce, CloserStops
<1>5. EndingRaises => cut \subseteq cut' /\ cut' # {}
  BY DEF EndingRaises, OwnerEndingRaises, CloserEndingRaises, StoreRaises
<1>6. QED
  BY <1>1, <1>2, <1>3, <1>4, <1>5 DEF Next

\* What an ending that raises leaves as it is.
LEMMA RaiseQuiet ==
  ASSUME TypeOK, EndingRaises
  PROVE  /\ UNCHANGED <<record, index, world, user, cause, picked, seen, lock,
                        stored>>
         /\ \E a \in Actors : /\ pc' = [pc EXCEPT ![a] = pc'[a]]
                              /\ after' = [after EXCEPT ![a] = after'[a]]
                              /\ a # Owner => after' = after
                              /\ pc[a] \notin {"launch", "recordEngine", "wait",
                                             "ended", "dead"}
<1> USE ActorKinds DEF TypeOK, Goto
<1>1. CASE OwnerEndingRaises
  BY <1>1 DEF OwnerEndingRaises
<1>2. ASSUME NEW c \in Closers, CloserEndingRaises(c)
      PROVE  /\ pc' = [pc EXCEPT ![c] = pc'[c]]
             /\ after' = after
             /\ pc[c] \notin {"launch", "recordEngine", "wait", "ended", "dead"}
             /\ UNCHANGED <<record, index, world, user, cause, picked, seen, lock,
                            stored>>
  BY <1>2 DEF CloserEndingRaises, locals
<1>3. ASSUME NEW a \in Actors, StoreRaises(a)
      PROVE  /\ pc' = [pc EXCEPT ![a] = pc'[a]]
             /\ after' = after
             /\ pc[a] \notin {"launch", "recordEngine", "wait", "ended", "dead"}
             /\ UNCHANGED <<record, index, world, user, cause, picked, seen, lock,
                            stored>>
  BY <1>3 DEF StoreRaises
<1>4. QED
  BY <1>1, <1>2, <1>3 DEF EndingRaises

LEMMA LastComplete ==
  ASSUME EndInv, "engineRaises" \notin Disturbances, Last, Owner \notin cut
  PROVE  Present = Targets /\ second = {} /\ ~StepsLive
<1> USE ActorKinds DEF EndInv, PlacesInv, Last
<1>1. Present = Targets
  BY DEF RowsFirst, RecordGoesLast, Finished
<1>2. engine # "running"
  BY DEF OwnerPlaced, EngineFound, Over
<1>3. QED
  BY <1>1, <1>2 DEF OneRowEach

LEMMA StatusStored ==
  ASSUME EndInv, EndInv', "engineRaises" \notin Disturbances, Last', cut = {},
         NEW a \in Actors, StoreOutcome(a)
  PROVE  StatusKept'
<1>1. Last \/ Finished(Owner)
  BY ActorKinds DEF StoreOutcome, EndInv, PlacesInv, TypeOK, Last, Finished, Goto
<1>2. Present = Targets /\ second = {}
  BY <1>1, ActorKinds, LastComplete
     DEF EndInv, PlacesInv, RowsFirst, OneRowEach
<1>3. stored' = PipelineStatus(FALSE)
  <2>1. (counted[a] /\ Cardinality(Present) + Cardinality(second)
                         < Cardinality(Targets)) = FALSE
    BY <1>2, NothingPending
  <2>2. QED
    BY <2>1 DEF StoreOutcome
<1>4. QED
  BY <1>3, StatusSame DEF StoreOutcome, index, StatusKept

\* Whoever changes a row has to store the status still.
LEMMA StatusRows ==
  ASSUME EndInv, EndInv', "engineRaises" \notin Disturbances, Last', cut = {},
         StatusKept, NEW a \in Actors,
         \/ FailRows(a) \/ WriteCancelled(a) \/ WalkRefusals(a)
         \/ WalkCancelled(a) \/ RemoveRecord(a)
  PROVE  StatusKept'
<1> USE ActorKinds DEF EndInv, PlacesInv, Last, Goto
<1>1. CASE a \in Closers /\ (FailRows(a) \/ WriteCancelled(a) \/ RemoveRecord(a))
  <2>1. pc'[a] = "store"
    BY <1>1 DEF FailRows, WriteCancelled, RemoveRecord, TypeOK
  <2>2. QED
    BY <1>1, <2>1 DEF StatusKept
<1>2. CASE a \in Closers /\ (WalkRefusals(a) \/ WalkCancelled(a))
  <2>1. Walking(a) /\ known[a].present = Present
    BY <1>2 DEF WalkRefusals, WalkCancelled, Walking, RowsKnown
  <2>2. pc'[Owner] = pc[Owner] /\ record' = record /\ cut' = cut
    BY <1>2 DEF WalkRefusals, WalkCancelled, TypeOK
  <2>3. ~record.there
    BY <1>2, <2>1, <2>2, OneWalks
  <2>4. Present = Targets
    BY <2>3, LastComplete
  <2>5. UNCHANGED <<row, reason>>
    <3>1. CASE WalkRefusals(a)
      BY <2>1, <2>4, <3>1 DEF WalkRefusals, index, TypeOK
    <3>2. CASE WalkCancelled(a)
      BY <2>1, <2>4, <3>2 DEF WalkCancelled, InsertRows, TypeOK
    <3>3. QED
      BY <1>2, <3>1, <3>2
  <2>6. UNCHANGED stored /\ \A c \in Closers \ {a} : pc'[c] = pc[c]
    BY <1>2 DEF WalkRefusals, WalkCancelled, TypeOK
  <2>7. QED
    BY <2>1, <2>3, <2>5, <2>6, StatusSame DEF StatusKept, Walking
<1>3. CASE a = Owner /\ ~RemoveRecord(a)
  <2>1. record.there /\ pc[Owner] # "remove"
    BY <1>3 DEF FailRows, WriteCancelled, WalkRefusals, WalkCancelled,
       OwnerPlaced, Alive
  <2>2. record' = record /\ pc'[Owner] # "remove"
    BY <1>3 DEF FailRows, WriteCancelled, WalkRefusals, WalkCancelled, TypeOK
  <2>3. QED
    BY <2>1, <2>2
<1>4. CASE a = Owner /\ RemoveRecord(a)
  <2>1. Last /\ UNCHANGED <<row, reason, stored>>
    BY <1>4 DEF RemoveRecord, index
  <2>2. \A c \in Closers : pc'[c] = pc[c]
    BY <1>4 DEF RemoveRecord, TypeOK
  <2>3. QED
    BY <2>1, <2>2, StatusSame DEF StatusKept
<1>5. QED
  BY <1>1, <1>2, <1>3, <1>4

\* The other steps leave the rows, and a closer that has to store is let be.
LEMMA StatusQuiet ==
  ASSUME EndInv, Last', StatusKept, cut = {}, UNCHANGED <<row, reason, stored>>,
         Last' => Last,
         \A c \in Closers :
           pc[c] \in {"store", "write", "dead"} => pc'[c] \in {"store", "write", "dead"}
  PROVE  StatusKept'
  BY StatusSame DEF StatusKept, Last

LEMMA StatusNext ==
  ASSUME EndInv, EndInv', "engineRaises" \notin Disturbances, StatusKept,
         [Next]_vars
  PROVE  StatusKept'
<1> SUFFICES ASSUME Last', cut = {}, cut' = {}
             PROVE  StatusKept'
  BY CutKept DEF StatusKept, Last
<1> USE ActorKinds
    DEF EndInv, PlacesInv, TypeOK, Goto, index, world, locals
<1>1. ASSUME NEW t \in Targets, StartStep(t) \/ Engine(t)
      PROVE  StatusKept'
  <2>1. UNCHANGED <<record, pc, stored>> /\ Last
    BY <1>1 DEF StartStep, Engine, ClaimRow, ClaimFails, EndStep, Last
  <2>2. ~StepsLive
    BY <2>1, LastComplete
  <2>3. UNCHANGED <<row, reason>>
    BY <1>1, <2>2 DEF StartStep, Engine, ClaimRow, ClaimFails, EndStep, StepsLive
  <2>4. QED
    BY <2>1, <2>3, StatusQuiet
<1>2. ASSUME NEW a \in Actors, ReadRecorded(a) \/ PickRunning(a) \/ WalkRead(a)
      PROVE  StatusKept'
  BY <1>2, StatusQuiet DEF ReadRecorded, PickRunning, WalkRead, Last
<1>3. CASE Own \/ OwnerStops
  <2>1. CASE StartEngine
    BY <2>1, StatusQuiet DEF StartEngine, Last
  <2>2. CASE RecordEngine
    BY <2>2, StatusQuiet DEF RecordEngine, Last, Records
  <2>3. CASE ProbeCancel
    BY <2>3, StatusQuiet DEF ProbeCancel, Last
  <2>4. CASE JudgeFailure
    BY <2>4, StatusQuiet DEF JudgeFailure, Last
  <2>5. CASE OwnerStops
    BY <2>5, StatusQuiet DEF OwnerStops, Last
  <2>6. QED
    BY <1>3, <2>1, <2>2, <2>3, <2>4, <2>5 DEF Own
<1>4. ASSUME NEW c \in Closers, Close(c) \/ Announce(c) \/ CloserStops(c)
      PROVE  StatusKept'
  <2>1. CASE TakeLock(c)
    BY <2>1, StatusQuiet DEF TakeLock, Last
  <2>2. CASE CancelLook(c)
    BY <2>2, StatusQuiet DEF CancelLook, Last, Records
  <2>3. CASE KillEngine(c)
    BY <2>3, StatusQuiet DEF KillEngine, Last
  <2>4. CASE AskOwner(c)
    BY <2>4, StatusQuiet DEF AskOwner, Last
  <2>5. CASE JudgeDead(c)
    BY <2>5, StatusQuiet DEF JudgeDead, Last
  <2>6. CASE CloseRead(c)
    BY <2>6, StatusQuiet DEF CloseRead, Last
  <2>7. CASE ReleaseLock(c)
    BY <2>7, StatusQuiet DEF ReleaseLock, Last
  <2>8. CASE Announce(c)
    BY <2>8, StatusQuiet DEF Announce, Last, Records
  <2>9. CASE CloserStops(c)
    BY <2>9, StatusQuiet DEF CloserStops, Last
  <2>10. QED
    BY <1>4, <2>1, <2>2, <2>3, <2>4, <2>5, <2>6, <2>7, <2>8, <2>9 DEF Close
<1>5. CASE EngineEnds \/ UNCHANGED vars
  BY <1>5, StatusQuiet DEF EngineEnds, vars, Last
<1>6. CASE EngineRaises
  BY <1>6 DEF EngineRaises
<1>7. ~EndingRaises
  BY DEF EndingRaises, OwnerEndingRaises, CloserEndingRaises, StoreRaises
<1>8. QED
  BY <1>1, <1>2, <1>3, <1>4, <1>5, <1>6, <1>7, StatusStored, StatusRows
  DEF Next, End

\* Once nobody is at work on an ended pipeline, its stored status is the one
\* its rows give, when the engine was started and found.
THEOREM StatusFinal ==
  ASSUME "unrecorded" \notin Disturbances,
         "engineRaises" \notin Disturbances
  PROVE  Spec => []StoredIsFinal
<1>1. Init => StatusKept
  BY ActorKinds DEF Init, StatusKept, NewRecord
<1>2. EndInv /\ EndInv' /\ StatusKept /\ [Next]_vars => StatusKept'
  BY StatusNext
<1>3. Spec => []EndInv
  BY EndInvariant
<1>4. StatusKept => StoredIsFinal
  BY DEF StatusKept, StoredIsFinal
<1>5. QED
  BY <1>1, <1>2, <1>3, <1>4, PTL DEF Spec

-----------------------------------------------------------------------------
(* Who is blamed, and what a kill leaves to whom.                          *)

\* The engine does not start again; without it no row starts to run, and one
\* that fails was running or refused.
OverKept ==
  /\ Over' /\ ~StepsLive
  /\ refused' = refused
  /\ With("running")' \subseteq With("running")
  /\ With("failed")' \subseteq With("failed") \cup With("running") \cup refused

LEMMA OverStays ==
  ASSUME PlacesInv, Over, [Next]_vars
  PROVE  OverKept
<1> USE ActorKinds
    DEF PlacesInv, TypeOK, Goto, index, world, locals, Over, OverKept
<1>1. ~StepsLive
  OBVIOUS
<1>2. ASSUME NEW t \in Targets, StartStep(t) \/ Engine(t)
      PROVE  FALSE
  BY <1>1, <1>2 DEF StartStep, Engine, ClaimRow, ClaimFails, EndStep, StepsLive
<1>3. ASSUME NEW a \in Actors, End(a)
      PROVE  OverKept
  <2>1. CASE ReadRecorded(a) \/ PickRunning(a) \/ WalkRead(a) \/ RemoveRecord(a)
    BY <2>1 DEF ReadRecorded, PickRunning, WalkRead, RemoveRecord, With
  <2>2. CASE StoreOutcome(a)
    BY <2>2 DEF StoreOutcome, OwnerPlaced, With
  <2>3. CASE FailRows(a)
    BY <2>3 DEF FailRows, With
  <2>4. CASE WriteCancelled(a)
    BY <2>4 DEF WriteCancelled, With
  <2>5. CASE WalkRefusals(a)
    BY <2>5 DEF WalkRefusals, InsertRows, With
  <2>6. CASE WalkCancelled(a)
    BY <2>6 DEF WalkCancelled, InsertRows, With
  <2>7. QED
    BY <1>3, <2>1, <2>2, <2>3, <2>4, <2>5, <2>6 DEF End
<1>4. CASE Own \/ EngineRaises \/ OwnerStops
  BY <1>4 DEF Own, StartEngine, RecordEngine, ProbeCancel, JudgeFailure,
     EngineRaises, OwnerStops, With
<1>5. ASSUME NEW c \in Closers, Close(c) \/ Announce(c) \/ CloserStops(c)
      PROVE  OverKept
  <2>1. UNCHANGED <<row, refused>> /\ pc'[Owner] = pc[Owner]
    BY <1>5 DEF Close, TakeLock, CancelLook, KillEngine, AskOwner, JudgeDead,
       CloseRead, ReleaseLock, Announce, CloserStops
  <2>2. engine' # "running"
    BY <1>5 DEF Close, TakeLock, CancelLook, KillEngine, AskOwner, JudgeDead,
       CloseRead, ReleaseLock, Announce, CloserStops
  <2>3. QED
    BY <2>1, <2>2 DEF With
<1>6. CASE EngineEnds \/ UNCHANGED vars
  BY <1>6 DEF EngineEnds, vars, With
<1>7. CASE EndingRaises
  <2>1. UNCHANGED <<row, refused, engine, step>>
    BY <1>7, RaiseQuiet
  <2>2. pc'[Owner] # "launch"
    BY <1>7 DEF EndingRaises, OwnerEndingRaises, CloserEndingRaises, StoreRaises,
       OwnerPlaced
  <2>3. QED
    BY <2>1, <2>2 DEF With
<1>8. QED
  BY <1>1, <1>2, <1>3, <1>4, <1>5, <1>6, <1>7 DEF Next

LEMMA BlameNext == PlacesInv /\ BlameInv /\ [Next]_vars => BlameInv'
<1> SUFFICES ASSUME PlacesInv, BlameInv, [Next]_vars
             PROVE  BlameInv'
  OBVIOUS
<1> USE ActorKinds
    DEF PlacesInv, TypeOK, Goto, index, world, locals
\* The owner comes to judge by flipping the running rows.
<1>1. ASSUME Judging', ~Judging, Owner \notin cut'
      PROVE  FailRows(Owner)
  <2>1. ASSUME NEW t \in Targets, StartStep(t) \/ Engine(t)
        PROVE  FALSE
    BY <1>1, <2>1 DEF StartStep, Engine, ClaimRow, ClaimFails, EndStep, Judging
  <2>2. ASSUME NEW a \in Actors, End(a), ~(a = Owner /\ FailRows(a))
        PROVE  FALSE
    <3>1. CASE ReadRecorded(a) \/ StoreOutcome(a)
      <4>1. a = Owner
        BY <1>1, <3>1 DEF ReadRecorded, StoreOutcome, Judging
      <4>2. ReadRecorded(Owner) => pc[Owner] = "store" /\ pc'[Owner] = "write"
                                   /\ after' = after
        BY DEF ReadRecorded
      <4>3. StoreOutcome(Owner) => pc[Owner] = "write" /\ pc'[Owner] = after[Owner]
        BY DEF StoreOutcome
      <4>4. QED
        BY <1>1, <3>1, <4>1, <4>2, <4>3 DEF Judging, OwnerPlaced
    <3>2. CASE FailRows(a) \/ PickRunning(a) \/ WriteCancelled(a)
      BY <1>1, <2>2, <3>2 DEF FailRows, PickRunning, WriteCancelled, Judging,
         OwnerPlaced
    <3>3. CASE WalkRead(a) \/ WalkRefusals(a)
      BY <1>1, <3>3 DEF WalkRead, WalkRefusals, Judging
    <3>4. CASE WalkCancelled(a) \/ RemoveRecord(a)
      BY <1>1, <3>4 DEF WalkCancelled, RemoveRecord, Judging
    <3>5. QED
      BY <2>2, <3>1, <3>2, <3>3, <3>4 DEF End
  <2>3. ASSUME Own \/ EngineRaises \/ OwnerStops
        PROVE  FALSE
    BY <1>1, <2>3 DEF Own, StartEngine, RecordEngine, ProbeCancel,
       JudgeFailure, EngineRaises, OwnerStops, Judging
  <2>4. ASSUME NEW c \in Closers, Close(c) \/ Announce(c) \/ CloserStops(c)
        PROVE  FALSE
    BY <1>1, <2>4 DEF Close, TakeLock, CancelLook, KillEngine, AskOwner,
       JudgeDead, CloseRead, ReleaseLock, Announce, CloserStops, Judging,
       Forget
  <2>5. ASSUME EngineEnds \/ UNCHANGED vars
        PROVE  FALSE
    BY <1>1, <2>5 DEF EngineEnds, vars, Judging
  <2>6. ASSUME EndingRaises
        PROVE  FALSE
    BY <1>1, <2>6 DEF EndingRaises, OwnerEndingRaises, CloserEndingRaises,
       StoreRaises, Judging
  <2>7. QED
    BY <2>1, <2>2, <2>3, <2>4, <2>5, <2>6 DEF Next
<1>2. Owner \notin cut' /\ Judging' => With("running")' = {}
  <2>1. Judging => Over
    BY DEF Judging, OwnerPlaced, Over
  <2>2. FailRows(Owner) => With("running")' = {}
    BY DEF FailRows, With
  <2>3. QED
    BY <1>1, <2>1, <2>2, OverStays, CutKept DEF BlameInv, OverKept
\* Who comes to be blamed is blamed by the owner, which found no failure.
<1>3. ASSUME cause' # cause \/ \E t \in Targets : reason'[t] = "engine_failed" /\ reason[t] # "engine_failed"
      PROVE  JudgeFailure \/ \E a \in Actors : WalkCancelled(a)
  <2>1. ASSUME NEW t \in Targets, StartStep(t) \/ Engine(t)
        PROVE  FALSE
    BY <1>3, <2>1 DEF StartStep, Engine, ClaimRow, ClaimFails, EndStep,
       InsertRows, NoReason
  <2>2. ASSUME NEW a \in Actors, End(a), ~WalkCancelled(a)
        PROVE  FALSE
    BY <1>3, <2>2 DEF End, ReadRecorded, StoreOutcome, FailRows, PickRunning,
       WriteCancelled, WalkRead, WalkRefusals, RemoveRecord, InsertRows, NoReason
  <2>3. ASSUME StartEngine \/ RecordEngine \/ ProbeCancel \/ EngineRaises \/ OwnerStops
        PROVE  FALSE
    BY <1>3, <2>3 DEF StartEngine, RecordEngine, ProbeCancel, EngineRaises,
       OwnerStops
  <2>4. ASSUME NEW c \in Closers, Close(c) \/ Announce(c) \/ CloserStops(c)
        PROVE  FALSE
    BY <1>3, <2>4 DEF Close, TakeLock, CancelLook, KillEngine, AskOwner,
       JudgeDead, CloseRead, ReleaseLock, Announce, CloserStops
  <2>5. ASSUME EngineEnds \/ UNCHANGED vars
        PROVE  FALSE
    BY <1>3, <2>5 DEF EngineEnds, vars
  <2>6. ASSUME EndingRaises
        PROVE  FALSE
    BY <1>3, <2>6, RaiseQuiet
  <2>7. QED
    BY <2>1, <2>2, <2>3, <2>4, <2>5, <2>6 DEF Next, Own
<1>4. \A c \in Closers : cause'[c] # "engine_failed"
  <2>1. JudgeFailure => \A c \in Closers : cause'[c] = cause[c]
    BY DEF JudgeFailure
  <2>2. \A a \in Actors : WalkCancelled(a) => cause' = cause
    BY DEF WalkCancelled
  <2>3. QED
    BY <1>3, <2>1, <2>2 DEF BlameInv
<1>5. ASSUME Blamed, Owner \notin cut'
      PROVE  (Over /\ refused = {} /\ With("failed") = {} /\ With("running") = {})'
  BY <1>5, OverStays, CutKept DEF BlameInv, OverKept
<1>6. ASSUME ~Blamed, Blamed', Owner \notin cut'
      PROVE  (Over /\ refused = {} /\ With("failed") = {} /\ With("running") = {})'
  <2>1. JudgeFailure \/ \E a \in Actors : WalkCancelled(a)
    BY <1>3, <1>6 DEF Blamed
  <2>2. ASSUME NEW a \in Actors, WalkCancelled(a)
        PROVE  FALSE
    <3>1. cause[a] # "engine_failed" /\ cause' = cause
      BY <1>6, <2>2 DEF WalkCancelled, BlameInv, Blamed
    <3>2. \A t \in Targets : Why(a)[t] # "engine_failed"
      BY <3>1 DEF Why
    <3>3. QED
      BY <1>6, <2>2, <3>1, <3>2 DEF WalkCancelled, InsertRows, Blamed
  <2>3. JudgeFailure /\ Judging /\ Over
    BY <2>1, <2>2 DEF JudgeFailure, Judging, OwnerPlaced, Over
  <2>4. ~HasFailure
    BY <1>6, <2>3 DEF JudgeFailure, Blamed
  <2>5. QED
    BY <1>6, <2>3, <2>4, OverStays, CutKept DEF BlameInv, OverKept, HasFailure
<1>7. QED
  BY <1>2, <1>4, <1>5, <1>6 DEF BlameInv

LEMMA BlameHolds == Spec => []BlameInv
<1>1. Init => BlameInv
  BY ActorKinds DEF Init, BlameInv, Judging, Blamed, NoReason
<1>2. QED
  BY <1>1, BlameNext, PlacesInvariant, PTL DEF Spec

\* The engine is blamed only when no row failed and no claim was refused,
\* whatever goes wrong, but for a raise in the owner's own ending.
THEOREM EngineBlamedAlone == Spec => []BlamesEngineAlone
<1>1. BlameInv => BlamesEngineAlone
  BY DEF BlameInv, Blamed, BlamesEngineAlone
<1>2. QED
  BY <1>1, BlameHolds, PTL

\* A step of the pipeline moves the locals of one actor only.
LEMMA CloserAlone ==
  ASSUME TypeOK, NEW c \in Closers, [Next]_vars
  PROVE  \/ End(c) \/ Close(c) \/ Announce(c) \/ CloserStops(c)
         \/ CloserEndingRaises(c) \/ StoreRaises(c)
         \/ UNCHANGED <<pc[c], user[c], known[c], picked[c], after[c], seen[c]>>
<1> USE ActorKinds DEF TypeOK, Goto, locals
<1>1. ASSUME NEW t \in Targets, StartStep(t) \/ Engine(t)
      PROVE  UNCHANGED <<pc, locals>>
  BY <1>1 DEF StartStep, Engine, ClaimRow, ClaimFails, EndStep
<1>2. ASSUME NEW a \in Actors, a # c, End(a)
      PROVE  UNCHANGED <<pc[c], user[c], known[c], picked[c], after[c], seen[c]>>
  BY <1>2 DEF End, ReadRecorded, StoreOutcome, FailRows, PickRunning,
     WriteCancelled, WalkRead, WalkRefusals, WalkCancelled, RemoveRecord
<1>3. ASSUME Own \/ EngineRaises \/ OwnerStops
      PROVE  UNCHANGED <<pc[c], user[c], known[c], picked[c], after[c], seen[c]>>
  BY <1>3 DEF Own, StartEngine, RecordEngine, ProbeCancel, JudgeFailure,
     EngineRaises, OwnerStops
<1>4. ASSUME NEW d \in Closers, d # c, Close(d) \/ Announce(d) \/ CloserStops(d)
      PROVE  UNCHANGED <<pc[c], user[c], known[c], picked[c], after[c], seen[c]>>
  BY <1>4 DEF Close, TakeLock, CancelLook, KillEngine, AskOwner, JudgeDead,
     CloseRead, ReleaseLock, Announce, CloserStops, Forget
<1>5. ASSUME EngineEnds \/ UNCHANGED vars
      PROVE  UNCHANGED <<pc, locals>>
  BY <1>5 DEF EngineEnds, vars
<1>6. ASSUME EndingRaises, ~CloserEndingRaises(c), ~StoreRaises(c)
      PROVE  UNCHANGED <<pc[c], user[c], known[c], picked[c], after[c], seen[c]>>
  BY <1>6 DEF EndingRaises, OwnerEndingRaises, CloserEndingRaises, StoreRaises
<1>7. QED
  BY <1>1, <1>2, <1>3, <1>4, <1>5, <1>6 DEF Next

\* Where an ending that raised goes on.
LEMMA CloserRaises ==
  ASSUME PlacesInv, NEW c \in Closers, CloserEndingRaises(c) \/ StoreRaises(c)
  PROVE  /\ pc'[c] \in {"unlock", "ask", "walk"}
         /\ pc'[c] # "unlock" => pc[c] \in {"store", "write"} /\ after[c] = pc'[c]
         /\ UNCHANGED <<user, seen, picked, after>>
         /\ c \in cut' /\ Alive(c)
<1> USE ActorKinds DEF PlacesInv, TypeOK, Goto, locals, Alive
<1>1. CASE CloserEndingRaises(c)
  BY <1>1 DEF CloserEndingRaises
<1>2. CASE StoreRaises(c)
  BY <1>2 DEF StoreRaises, CloserPlaced
<1>3. QED
  BY <1>1, <1>2

LEMMA OwnerRaises ==
  ASSUME PlacesInv, OwnerEndingRaises \/ StoreRaises(Owner)
  PROVE  /\ pc'[Owner] \in {"judge", "store", "remove", "ended"}
         /\ pc'[Owner] = "judge" => pc[Owner] = "flip" \/ Judging
         /\ pc'[Owner] = "store" => after'[Owner] # "judge"
         /\ Owner \in cut' /\ Alive(Owner) /\ pc[Owner] # "launch"
<1> USE ActorKinds DEF PlacesInv, TypeOK, Goto, Alive
<1>1. CASE OwnerEndingRaises
  BY <1>1 DEF OwnerEndingRaises
<1>2. CASE StoreRaises(Owner)
  BY <1>2 DEF StoreRaises, OwnerPlaced, Judging
<1>3. QED
  BY <1>1, <1>2

LEMMA OwnerAlone ==
  ASSUME TypeOK, [Next]_vars
  PROVE  \/ End(Owner) \/ Own \/ EngineRaises \/ OwnerStops
         \/ OwnerEndingRaises \/ StoreRaises(Owner)
         \/ UNCHANGED <<pc[Owner], user[Owner], known[Owner], after[Owner]>>
<1> USE ActorKinds DEF TypeOK, Goto, locals
<1>1. ASSUME NEW t \in Targets, StartStep(t) \/ Engine(t)
      PROVE  UNCHANGED <<pc, locals>>
  BY <1>1 DEF StartStep, Engine, ClaimRow, ClaimFails, EndStep
<1>2. ASSUME NEW a \in Actors, a # Owner, End(a)
      PROVE  UNCHANGED <<pc[Owner], user[Owner], known[Owner], after[Owner]>>
  BY <1>2 DEF End, ReadRecorded, StoreOutcome, FailRows, PickRunning,
     WriteCancelled, WalkRead, WalkRefusals, WalkCancelled, RemoveRecord
<1>3. ASSUME NEW c \in Closers, Close(c) \/ Announce(c) \/ CloserStops(c)
      PROVE  UNCHANGED <<pc[Owner], user[Owner], known[Owner], after[Owner]>>
  BY <1>3 DEF Close, TakeLock, CancelLook, KillEngine, AskOwner, JudgeDead,
     CloseRead, ReleaseLock, Announce, CloserStops, Forget
<1>4. ASSUME EngineEnds \/ UNCHANGED vars
      PROVE  UNCHANGED <<pc, locals>>
  BY <1>4 DEF EngineEnds, vars
<1>5. ASSUME EndingRaises, ~OwnerEndingRaises, ~StoreRaises(Owner)
      PROVE  UNCHANGED <<pc[Owner], user[Owner], known[Owner], after[Owner]>>
  BY <1>5 DEF EndingRaises, CloserEndingRaises, StoreRaises
<1>6. QED
  BY <1>1, <1>2, <1>3, <1>4, <1>5 DEF Next

\* The cancel flag stays, the record goes by one step only, the engine starts
\* by one and is killed by one.
LEMMA RecordMoves ==
  ASSUME TypeOK, [Next]_vars
  PROVE  /\ record.cancel => record'.cancel
         /\ record'.there => record.there
         /\ record.there /\ ~record'.there => \E a \in Actors : RemoveRecord(a)
         /\ record'.engine # record.engine => RecordEngine
<1> USE ActorKinds DEF TypeOK, Goto, Records
<1>1. ASSUME NEW t \in Targets, StartStep(t) \/ Engine(t)
      PROVE  record' = record
  BY <1>1 DEF StartStep, Engine, ClaimRow, ClaimFails, EndStep
<1>2. ASSUME NEW a \in Actors, End(a), ~RemoveRecord(a)
      PROVE  record' = record
  BY <1>2 DEF End, ReadRecorded, StoreOutcome, FailRows, PickRunning,
     WriteCancelled, WalkRead, WalkRefusals, WalkCancelled
<1>3. ASSUME NEW a \in Actors, RemoveRecord(a)
      PROVE  record' = [record EXCEPT !.there = FALSE]
  BY <1>3 DEF RemoveRecord
<1>4. ASSUME Own \/ EngineRaises \/ OwnerStops, ~RecordEngine
      PROVE  record' = record
  BY <1>4 DEF Own, StartEngine, ProbeCancel, JudgeFailure, EngineRaises,
     OwnerStops
<1>5. RecordEngine => record' = [record EXCEPT !.engine = record.there]
  BY DEF RecordEngine
<1>6. ASSUME NEW c \in Closers, Close(c) \/ CloserStops(c), ~CancelLook(c)
      PROVE  record' = record
  BY <1>6 DEF Close, TakeLock, KillEngine, AskOwner, JudgeDead, CloseRead,
     ReleaseLock, CloserStops
<1>7. ASSUME NEW c \in Closers, CancelLook(c) \/ Announce(c)
      PROVE  record' = [record EXCEPT !.cancel = @ \/ record.there]
  BY <1>7 DEF CancelLook, Announce
<1>8. ASSUME EngineEnds \/ UNCHANGED vars
      PROVE  record' = record
  BY <1>8 DEF EngineEnds, vars
<1>9. CASE record' = record
  BY <1>9
<1>10. EndingRaises => record' = record
  BY RaiseQuiet
<1>11. QED
  BY <1>1, <1>2, <1>3, <1>4, <1>5, <1>6, <1>7, <1>8, <1>9, <1>10 DEF Next

LEMMA EngineMoves ==
  ASSUME TypeOK, [Next]_vars
  PROVE  /\ engine' = "running" => engine = "running" \/ StartEngine
         /\ engine # "none" => engine' # "none"
         /\ killed' # killed => \E c \in Closers : KillEngine(c)
<1> USE DEF TypeOK, world
<1>1. ASSUME NEW t \in Targets, StartStep(t) \/ Engine(t)
      PROVE  UNCHANGED <<engine, killed>>
  BY <1>1 DEF StartStep, Engine, ClaimRow, ClaimFails, EndStep
<1>2. ASSUME NEW a \in Actors, End(a)
      PROVE  UNCHANGED <<engine, killed>>
  BY <1>2 DEF End, ReadRecorded, StoreOutcome, FailRows, PickRunning,
     WriteCancelled, WalkRead, WalkRefusals, WalkCancelled, RemoveRecord
<1>3. CASE Own \/ EngineRaises \/ OwnerStops
  BY <1>3 DEF Own, StartEngine, RecordEngine, ProbeCancel, JudgeFailure,
     EngineRaises, OwnerStops
<1>4. ASSUME NEW c \in Closers, Close(c) \/ Announce(c) \/ CloserStops(c),
             ~KillEngine(c)
      PROVE  UNCHANGED <<engine, killed>>
  BY <1>4 DEF Close, TakeLock, CancelLook, AskOwner, JudgeDead, CloseRead,
     ReleaseLock, Announce, CloserStops
<1>5. ASSUME NEW c \in Closers, KillEngine(c)
      PROVE  engine' = "bad" \/ UNCHANGED <<engine, killed>>
  BY <1>5 DEF KillEngine
<1>6. CASE EngineEnds \/ UNCHANGED vars
  BY <1>6 DEF EngineEnds, vars
<1>7. EndingRaises => UNCHANGED <<engine, killed>>
  BY RaiseQuiet
<1>8. QED
  BY <1>1, <1>2, <1>3, <1>4, <1>5, <1>6, <1>7 DEF Next

\* The dead stay dead.
LEMMA DeadStay ==
  ASSUME PlacesInv, [Next]_vars, NEW a \in Actors, Alive(a)'
  PROVE  Alive(a)
<1> USE ActorKinds DEF PlacesInv, TypeOK, Goto, Alive
<1>1. CASE a = Owner
  BY <1>1, OwnerAlone DEF End, ReadRecorded, StoreOutcome, FailRows,
     PickRunning, WriteCancelled, WalkRead, WalkRefusals, WalkCancelled,
     RemoveRecord, Own, StartEngine, RecordEngine, ProbeCancel, JudgeFailure,
     EngineRaises, OwnerStops, OwnerEndingRaises, StoreRaises
<1>2. CASE a \in Closers
  BY <1>2, CloserAlone DEF End, ReadRecorded, StoreOutcome, FailRows,
     PickRunning, WriteCancelled, WalkRead, WalkRefusals, WalkCancelled,
     RemoveRecord, Close, TakeLock, CancelLook, KillEngine, AskOwner,
     JudgeDead, CloseRead, ReleaseLock, Announce, CloserStops,
     CloserEndingRaises, StoreRaises
<1>3. QED
  BY <1>1, <1>2

\* An engine that can be killed could be before, or starts now.
LEMMA KillableBefore ==
  ASSUME PlacesInv, [Next]_vars, Killable'
  PROVE  Killable \/ (StartEngine /\ pc[Owner] = "launch")
<1>1. engine = "running" \/ (StartEngine /\ pc[Owner] = "launch")
  BY EngineMoves DEF PlacesInv, Killable, StartEngine, Goto
<1>2. record.there
  BY RecordMoves DEF PlacesInv, Killable
<1>3. record.engine \/ Alive(Owner)
  BY RecordMoves, DeadStay, ActorKinds
     DEF PlacesInv, Killable, RecordEngine, Goto, Alive
<1>4. QED
  BY <1>1, <1>2, <1>3 DEF Killable

\* A verdict needs an engine nobody can kill; a cancel that finds the owner
\* dead closes out for the user.
LEMMA ClosesNext ==
  ASSUME PlacesInv, ClosesForUser, [Next]_vars
  PROVE  ClosesForUser'
<1> SUFFICES ASSUME Killable', NEW c \in Closers, Closing(c)'
             PROVE  user'[c] /\ pc'[c] # "close"
  BY DEF ClosesForUser
<1> USE ActorKinds DEF PlacesInv, TypeOK, Goto, Closing
<1>1. CASE StartEngine /\ pc[Owner] = "launch"
  BY <1>1 DEF StartEngine, OwnerPlaced, CloserPlaced, Alive, locals
<1>2. CASE Killable
  <2>1. Closing(c) => user[c] /\ pc[c] # "close"
    BY <1>2 DEF ClosesForUser
  <2>2. CASE End(c)
    <3>1. ~RemoveRecord(c)
      BY DEF RemoveRecord, Killable, Records
    <3>2. user' = user
      BY <2>2 DEF End, ReadRecorded, StoreOutcome, FailRows, PickRunning,
         WriteCancelled, WalkRead, WalkRefusals, WalkCancelled, RemoveRecord,
         locals
    <3>3. Closing(c) /\ pc'[c] # "close"
      BY <2>2, <3>1 DEF End, ReadRecorded, StoreOutcome, FailRows,
         PickRunning, WriteCancelled, WalkRead, WalkRefusals, WalkCancelled,
         CloserPlaced, locals
    <3>4. QED
      BY <2>1, <3>2, <3>3
  <2>3. CASE TakeLock(c)
    BY <2>1, <2>3 DEF TakeLock, locals
  <2>4. CASE CancelLook(c) \/ KillEngine(c) \/ ReleaseLock(c)
    BY <2>4 DEF CancelLook, KillEngine, ReleaseLock
  <2>5. CASE AskOwner(c)
    BY <2>5 DEF AskOwner
  <2>6. CASE JudgeDead(c)
    BY <1>2, <2>6 DEF JudgeDead, Killable
  <2>7. CASE CloseRead(c)
    BY <2>1, <2>7 DEF CloseRead
  <2>8. CASE Announce(c) \/ CloserStops(c)
    BY <2>8 DEF Announce, CloserStops
  <2>9. CASE UNCHANGED <<pc[c], user[c], after[c]>>
    BY <2>1, <2>9
  <2>10. CASE CloserEndingRaises(c) \/ StoreRaises(c)
    BY <2>1, <2>10, CloserRaises
  <2>11. QED
    BY <2>2, <2>3, <2>4, <2>5, <2>6, <2>7, <2>8, <2>9, <2>10, CloserAlone
       DEF Close
<1>3. QED
  BY <1>1, <1>2, KillableBefore

\* What a cancel saw stays true while it is about to kill: it has the lock,
\* and the owner does not walk beside its engine.
LEMMA LooksNext ==
  ASSUME PlacesInv, LooksTrue, [Next]_vars
  PROVE  LooksTrue'
<1> SUFFICES ASSUME NEW c \in Closers, pc'[c] = "kill", seen'[c].there
             PROVE  /\ record'.cancel
                    /\ seen'[c].engine /\ engine' = "running"
                         => record'.there /\ record'.engine
  BY DEF LooksTrue
<1> USE ActorKinds DEF PlacesInv, TypeOK, Goto
<1>1. CASE CancelLook(c)
  BY <1>1 DEF CancelLook, Records
<1>2. CASE ~CancelLook(c)
  <2>1. pc[c] = "kill" /\ seen'[c] = seen[c]
    <3>1. CASE ReadRecorded(c) \/ StoreOutcome(c) \/ FailRows(c)
               \/ PickRunning(c) \/ WriteCancelled(c)
      BY <3>1 DEF ReadRecorded, StoreOutcome, FailRows, PickRunning,
         WriteCancelled, CloserPlaced
    <3>2. CASE WalkRead(c) \/ WalkRefusals(c) \/ WalkCancelled(c)
               \/ RemoveRecord(c)
      BY <3>2 DEF WalkRead, WalkRefusals, WalkCancelled, RemoveRecord
    <3>3. CASE Close(c) \/ Announce(c) \/ CloserStops(c)
      BY <1>2, <3>3 DEF Close, TakeLock, KillEngine, AskOwner, JudgeDead,
         CloseRead, ReleaseLock, Announce, CloserStops
    <3>4. CASE CloserEndingRaises(c) \/ StoreRaises(c)
      BY <3>4, CloserRaises
    <3>5. QED
      BY <3>1, <3>2, <3>3, <3>4, CloserAlone DEF End
  <2>2. record.cancel /\ record'.cancel
    BY <2>1, RecordMoves DEF LooksTrue
  <2>3. ASSUME seen'[c].engine, engine' = "running"
        PROVE  record'.there /\ record'.engine
    <3>1. engine = "running"
      BY <2>1, <2>3, EngineMoves DEF StartEngine, OwnerPlaced
    <3>2. record.there /\ record.engine
      BY <2>1, <2>3, <3>1 DEF LooksTrue
    <3>3. ASSUME NEW a \in Actors, RemoveRecord(a)
          PROVE  FALSE
      BY <2>1, <3>1, <3>3 DEF RemoveRecord, OwnerPlaced, CloserPlaced, Outside
    <3>4. record'.there
      BY <3>2, <3>3, RecordMoves
    <3>5. RecordEngine => record'.engine
      BY <3>2 DEF RecordEngine, Records
    <3>6. QED
      BY <3>2, <3>4, <3>5, RecordMoves
  <2>4. QED
    BY <2>2, <2>3
<1>3. QED
  BY <1>1, <1>2

\* The killed engine was one a cancel could kill.
LEMMA KillsKillable ==
  ASSUME PlacesInv, LooksTrue, [Next]_vars, killed', ~killed
  PROVE  \E c \in Closers : /\ KillEngine(c)
                            /\ seen[c].there /\ seen[c].engine
                            /\ engine = "running" /\ Killable
<1>1. PICK c \in Closers : KillEngine(c)
  BY EngineMoves DEF PlacesInv
<1>2. seen[c].there /\ seen[c].engine /\ engine = "running" /\ pc[c] = "kill"
  BY <1>1 DEF KillEngine, Goto
<1>3. QED
  BY <1>1, <1>2 DEF LooksTrue, Killable

\* A row becomes cancelled for another reason than the user in a walk only.
LEMMA CancelledBy ==
  ASSUME TypeOK, [Next]_vars, NEW t \in Targets,
         row'[t] = "cancelled", reason'[t] # "user"
  PROVE  \/ row[t] = "cancelled" /\ reason'[t] = reason[t]
         \/ \E a \in Actors : /\ WalkCancelled(a) /\ ~user[a]
                              /\ t \notin known[a].present
<1> USE ActorKinds DEF TypeOK, index
<1>1. ASSUME NEW u \in Targets, StartStep(u) \/ Engine(u)
      PROVE  row[t] = "cancelled" /\ reason'[t] = reason[t]
  BY <1>1 DEF StartStep, Engine, ClaimRow, ClaimFails, EndStep, InsertRows
<1>2. ASSUME NEW a \in Actors, End(a), ~WalkCancelled(a)
      PROVE  row[t] = "cancelled" /\ reason'[t] = reason[t]
  <2>1. CASE ReadRecorded(a) \/ StoreOutcome(a) \/ PickRunning(a) \/ WalkRead(a)
             \/ RemoveRecord(a)
    BY <2>1 DEF ReadRecorded, StoreOutcome, PickRunning, WalkRead, RemoveRecord
  <2>2. CASE FailRows(a) \/ WriteCancelled(a)
    BY <2>2 DEF FailRows, WriteCancelled
  <2>3. CASE WalkRefusals(a)
    BY <2>3 DEF WalkRefusals, InsertRows
  <2>4. QED
    BY <1>2, <2>1, <2>2, <2>3 DEF End
<1>3. ASSUME NEW a \in Actors, WalkCancelled(a)
      PROVE  \/ row[t] = "cancelled" /\ reason'[t] = reason[t]
             \/ ~user[a] /\ t \notin known[a].present
  BY <1>3 DEF WalkCancelled, InsertRows, Why
<1>4. ASSUME Own \/ EngineRaises \/ OwnerStops \/ EngineEnds \/ UNCHANGED vars
      PROVE  UNCHANGED <<row, reason>>
  BY <1>4 DEF Own, StartEngine, RecordEngine, ProbeCancel, JudgeFailure,
     EngineRaises, OwnerStops, EngineEnds, vars
<1>5. ASSUME NEW c \in Closers, Close(c) \/ Announce(c) \/ CloserStops(c)
      PROVE  UNCHANGED <<row, reason>>
  BY <1>5 DEF Close, TakeLock, CancelLook, KillEngine, AskOwner, JudgeDead,
     CloseRead, ReleaseLock, Announce, CloserStops
<1>6. EndingRaises => UNCHANGED <<row, reason>>
  BY RaiseQuiet
<1>7. QED
  BY <1>1, <1>2, <1>3, <1>4, <1>5, <1>6 DEF Next

\* Whoever walks while an engine can be killed, or after the kill, does so for
\* the user or knows every target.
LEMMA CancelledNext ==
  ASSUME PlacesInv, KillInv, [Next]_vars
  PROVE  CancelledForUser'
<1> SUFFICES ASSUME Owner \notin cut',
                    (Killable \/ killed \/ pc[Owner] = "launch")',
                    NEW t \in Targets, row'[t] = "cancelled",
                    reason'[t] # "user"
             PROVE  FALSE
  BY DEF CancelledForUser, With
<1> USE ActorKinds DEF PlacesInv, Goto
<1>1. Owner \notin cut /\ (Killable \/ killed \/ pc[Owner] = "launch")
  <2>1. Killable' => Killable \/ pc[Owner] = "launch"
    BY KillableBefore
  <2>2. killed' => killed \/ Killable
    BY KillsKillable DEF KillInv
  <2>3. pc'[Owner] = "launch" => pc[Owner] = "launch"
    <3>1. ASSUME End(Owner)
          PROVE  pc'[Owner] # "launch"
      BY <3>1 DEF End, ReadRecorded, StoreOutcome, FailRows, PickRunning,
         WriteCancelled, WalkRead, WalkRefusals, WalkCancelled, RemoveRecord,
         OwnerPlaced, TypeOK
    <3>2. ASSUME Own \/ EngineRaises \/ OwnerStops
          PROVE  pc'[Owner] # "launch"
      BY <3>2 DEF Own, StartEngine, RecordEngine, ProbeCancel, JudgeFailure,
         EngineRaises, OwnerStops, TypeOK
    <3>3. QED
      BY <3>1, <3>2, OwnerAlone, OwnerRaises
  <2>4. QED
    BY <2>1, <2>2, <2>3, CutKept
<1>2. ~(row[t] = "cancelled" /\ reason'[t] = reason[t])
  BY <1>1 DEF KillInv, CancelledForUser, With
<1>3. PICK a \in Actors : /\ WalkCancelled(a) /\ ~user[a]
                          /\ t \notin known[a].present
  BY <1>2, CancelledBy
<1>4. pc[a] = "cancelled"
  BY <1>3 DEF WalkCancelled
<1>5. CASE killed
  BY <1>1, <1>3, <1>4, <1>5 DEF KillInv, WalksForUser, Ends
<1>6. CASE Killable
  <2>1. a # Owner
    BY <1>4, <1>6 DEF Killable, OwnerPlaced
  <2>2. QED
    BY <1>3, <1>4, <1>6, <2>1 DEF KillInv, ClosesForUser, Closing
<1>7. CASE pc[Owner] = "launch"
  <2>1. a # Owner /\ Closing(a) /\ record.there /\ Alive(Owner)
    BY <1>4, <1>7 DEF Closing, OwnerPlaced, Alive
  <2>2. QED
    BY <2>1 DEF CloserPlaced
<1>8. QED
  BY <1>1, <1>5, <1>6, <1>7

\* A living owner after the kill: it has heard of the cancel.
LEMMA OwnerWalksForUser ==
  ASSUME PlacesInv, WalksForUser, killed, [Next]_vars
  PROVE  /\ pc'[Owner] # "flip" /\ ~Judging'
         /\ Ends(Owner)' /\ Owner \notin cut' =>
              \/ user'[Owner]
              \/ ~record'.there /\ (pc'[Owner] \in {"refusals", "cancelled"}
                                      => known'[Owner].present = Targets)
<1> USE ActorKinds DEF PlacesInv, TypeOK, Goto
<1>1. /\ Over /\ engine # "none" /\ record.cancel
      /\ pc[Owner] # "flip" /\ ~Judging
      /\ Ends(Owner) /\ Owner \notin cut' =>
           \/ user[Owner]
           \/ ~record.there /\ (pc[Owner] \in {"refusals", "cancelled"}
                                  => known[Owner].present = Targets)
  BY CutKept DEF WalksForUser
<1>2. ~record.there /\ Owner \notin cut' => Present = Targets
  BY <1>1, CutKept DEF RowsFirst, RecordGoesLast
<1>3. CASE ReadRecorded(Owner) \/ StoreOutcome(Owner)
  <2>1. pc'[Owner] # "flip" /\ ~Judging' /\ (Ends(Owner)' => Ends(Owner))
    BY <1>1, <1>3 DEF ReadRecorded, StoreOutcome, OwnerPlaced, Judging, Ends,
       locals
  <2>2. ~(pc'[Owner] \in {"refusals", "cancelled"}) /\ UNCHANGED <<user, record>>
    BY <1>3 DEF ReadRecorded, StoreOutcome, OwnerPlaced, locals
  <2>3. QED
    BY <1>1, <2>1, <2>2
<1>4. ASSUME FailRows(Owner) \/ PickRunning(Owner) \/ WriteCancelled(Owner)
      PROVE  FALSE
  BY <1>1, <1>4 DEF FailRows, PickRunning, WriteCancelled, OwnerPlaced
<1>5. CASE WalkRead(Owner)
  BY <1>1, <1>2, <1>5 DEF WalkRead, Judging, Ends
<1>6. CASE WalkRefusals(Owner)
  <2>1. PICK T : RefusalStep(Owner, T)
    BY <1>6, RefusalsWritten
  <2>2. known'[Owner].present = Targets
          \/ ~(known[Owner].present = Targets)
    BY <2>1 DEF RefusalStep
  <2>3. QED
    BY <1>1, <2>1, <2>2 DEF RefusalStep, Judging, Ends
<1>7. CASE WalkCancelled(Owner) \/ RemoveRecord(Owner)
  BY <1>7 DEF WalkCancelled, RemoveRecord, Judging, Ends
<1>8. CASE ProbeCancel
  <2>1. CancelRequested
    BY <1>1, <1>8 DEF ProbeCancel, OwnerPlaced, CancelRequested
  <2>2. QED
    BY <1>8, <2>1 DEF ProbeCancel, Judging, Ends
<1>9. CASE StartEngine \/ RecordEngine \/ EngineRaises \/ OwnerStops
  BY <1>1, <1>9 DEF StartEngine, RecordEngine, EngineRaises, OwnerStops, Judging,
     Ends, Over
<1>10. ASSUME JudgeFailure
       PROVE  FALSE
  BY <1>1, <1>10 DEF JudgeFailure, Judging
<1>11. CASE UNCHANGED <<pc[Owner], user[Owner], known[Owner], after[Owner]>>
  <2>1. ~record.there => ~record'.there
    BY RecordMoves
  <2>2. QED
    BY <1>1, <1>11, <2>1 DEF Judging, Ends
<1>12. CASE OwnerEndingRaises \/ StoreRaises(Owner)
  BY <1>1, <1>12, OwnerRaises DEF Judging
<1>13. QED
  BY <1>3, <1>4, <1>5, <1>6, <1>7, <1>8, <1>9, <1>10, <1>11, <1>12, OwnerAlone
     DEF End, Own

\* A closer after the kill: the record it reads is flagged, or gone.
LEMMA CloserWalksForUser ==
  ASSUME PlacesInv, WalksForUser, killed, [Next]_vars, NEW c \in Closers,
         Ends(c)', Owner \notin cut'
  PROVE  \/ user'[c]
         \/ ~record'.there /\ (pc'[c] \in {"refusals", "cancelled"}
                                 => known'[c].present = Targets)
<1> USE ActorKinds DEF PlacesInv, TypeOK, Goto
<1>1. /\ engine # "none" /\ record.cancel
      /\ Ends(c) =>
           \/ user[c]
           \/ ~record.there /\ (pc[c] \in {"refusals", "cancelled"}
                                  => known[c].present = Targets)
  BY CutKept DEF WalksForUser
<1>2. ~record.there => Present = Targets
  BY <1>1, CutKept DEF RowsFirst, RecordGoesLast
<1>3. ~record.there => ~record'.there
  BY RecordMoves
<1>4. CASE ReadRecorded(c) \/ StoreOutcome(c) \/ FailRows(c) \/ PickRunning(c)
           \/ WriteCancelled(c)
  <2>1. Ends(c)
    BY <1>4 DEF ReadRecorded, StoreOutcome, FailRows, PickRunning,
       WriteCancelled, CloserPlaced, Ends, locals
  <2>2. ~(pc'[c] \in {"refusals", "cancelled"}) /\ UNCHANGED <<user, record>>
    BY <1>4 DEF ReadRecorded, StoreOutcome, FailRows, PickRunning,
       WriteCancelled, CloserPlaced, locals
  <2>3. QED
    BY <1>1, <2>1, <2>2
<1>5. CASE WalkRead(c)
  BY <1>1, <1>2, <1>5 DEF WalkRead, Ends
<1>6. CASE WalkRefusals(c)
  <2>1. PICK T : RefusalStep(c, T)
    BY <1>6, RefusalsWritten
  <2>2. known'[c].present = Targets \/ ~(known[c].present = Targets)
    BY <2>1 DEF RefusalStep
  <2>3. QED
    BY <1>1, <2>1, <2>2 DEF RefusalStep, Ends
<1>7. ASSUME WalkCancelled(c) \/ RemoveRecord(c)
      PROVE  FALSE
  BY <1>7 DEF WalkCancelled, RemoveRecord, Ends
<1>8. CASE CloseRead(c)
  BY <1>1, <1>8 DEF CloseRead, CancelRequested, Ends
<1>9. ASSUME Close(c) \/ Announce(c) \/ CloserStops(c), ~CloseRead(c)
      PROVE  FALSE
  BY <1>9 DEF Close, TakeLock, CancelLook, KillEngine, AskOwner, JudgeDead,
     ReleaseLock, Announce, CloserStops, Ends, Forget
<1>10. CASE UNCHANGED <<pc[c], user[c], known[c], picked[c], after[c], seen[c]>>
  BY <1>1, <1>3, <1>10 DEF Ends
<1>11. CASE CloserEndingRaises(c) \/ StoreRaises(c)
  <2>1. UNCHANGED <<record, user>>
    BY <1>11, RaiseQuiet DEF EndingRaises
  <2>2. Ends(c) /\ pc'[c] \notin {"refusals", "cancelled"}
    BY <1>11, CloserRaises DEF Ends
  <2>3. QED
    BY <1>1, <2>1, <2>2
<1>12. QED
  BY <1>4, <1>5, <1>6, <1>7, <1>8, <1>9, <1>10, <1>11, CloserAlone DEF End

\* The cancel that kills has flagged the record, and nobody walks beside it.
LEMMA WalksNext ==
  ASSUME PlacesInv, KillInv, [Next]_vars
  PROVE  WalksForUser'
<1> SUFFICES ASSUME killed'
             PROVE  WalksForUser'
  BY DEF WalksForUser
<1> USE ActorKinds DEF PlacesInv
<1>1. CASE killed
  <2>1. WalksForUser /\ Over /\ engine # "none" /\ record.cancel
    BY <1>1 DEF KillInv, WalksForUser
  <2>2. Over' /\ engine' # "none" /\ record'.cancel
    BY <2>1, OverStays, EngineMoves, RecordMoves DEF OverKept
  <2>3. QED
    BY <1>1, <2>1, <2>2, OwnerWalksForUser, CloserWalksForUser DEF WalksForUser
<1>2. CASE ~killed
  <2>1. PICK c \in Closers : /\ KillEngine(c)
                             /\ seen[c].there /\ seen[c].engine
                             /\ engine = "running" /\ Killable
    BY <1>2, KillsKillable DEF KillInv
  <2>2. /\ engine' = "bad" /\ record' = record
        /\ pc' = [pc EXCEPT ![c] = "pick"] /\ after' = [after EXCEPT ![c] = "ask"]
        /\ pc[c] = "kill"
    BY <2>1 DEF KillEngine, Goto
  <2>3. /\ pc[Owner] \in {"recordEngine", "wait", "dead"}
        /\ pc'[Owner] = pc[Owner]
    BY <2>1, <2>2 DEF OwnerPlaced, TypeOK
  <2>4. record'.cancel
    BY <2>1, <2>2 DEF KillInv, LooksTrue
  <2>5. \A d \in Closers \ {c} : pc'[d] \in Outside
    BY <2>2 DEF CloserPlaced, Outside, TypeOK
  <2>6. pc'[c] = "pick" /\ after'[c] = "ask"
    BY <2>2 DEF TypeOK
  <2>7. \A a \in Actors : ~Ends(a)'
    BY <2>3, <2>5, <2>6 DEF Ends, Outside
  <2>8. QED
    BY <2>2, <2>3, <2>4, <2>7 DEF WalksForUser, Over, Judging
<1>3. QED
  BY <1>1, <1>2

\* The cancel that killed picks the running rows and writes each of them.
LEMMA RowsLeftNext ==
  ASSUME PlacesInv, KillInv, [Next]_vars
  PROVE  RowsLeft'
<1> DEFINE Holds(c) == /\ after[c] = "ask"
                       /\ \/ pc[c] = "pick"
                          \/ pc[c] = "cancel" /\ With("running") \subseteq picked[c]
<1> SUFFICES ASSUME killed', \A c \in Cancels : Alive(c)' /\ c \notin cut'
             PROVE  \/ With("running")' = {}
                    \/ \E c \in Cancels : Holds(c)'
  BY DEF RowsLeft
<1> USE ActorKinds DEF PlacesInv, TypeOK, Goto
<1>1. CASE ~killed
  <2>1. PICK c \in Closers : KillEngine(c)
    BY <1>1, KillsKillable DEF KillInv
  <2>2. pc[c] = "kill" /\ pc'[c] = "pick" /\ after'[c] = "ask"
    BY <2>1 DEF KillEngine
  <2>3. c \in Cancels
    BY <2>2 DEF CloserPlaced, Cancelling, Closing
  <2>4. QED
    BY <2>2, <2>3
<1>2. CASE killed
  <2>1. \A c \in Cancels : Alive(c) /\ c \notin cut
    BY DeadStay, CutKept
  <2>2. With("running")' \subseteq With("running")
    BY <1>2, OverStays DEF OverKept, KillInv, WalksForUser
  <2>3. CASE With("running") = {}
    BY <2>2, <2>3
  <2>4. CASE \E c \in Cancels : Holds(c)
    <3>1. PICK c \in Cancels : Holds(c)
      BY <2>4
    <3>2. CASE PickRunning(c)
      BY <3>1, <3>2 DEF PickRunning, With, index
    <3>3. CASE WriteCancelled(c)
      BY <3>1, <3>3 DEF WriteCancelled, With
    <3>4. ASSUME End(c), ~PickRunning(c), ~WriteCancelled(c)
          PROVE  FALSE
      BY <3>1, <3>4 DEF End, ReadRecorded, StoreOutcome, FailRows, WalkRead,
         WalkRefusals, WalkCancelled, RemoveRecord
    <3>5. ASSUME Close(c) \/ Announce(c) \/ CloserStops(c)
          PROVE  FALSE
      BY <3>1, <3>5 DEF Close, TakeLock, CancelLook, KillEngine, AskOwner,
         JudgeDead, CloseRead, ReleaseLock, Announce, CloserStops, Alive
    <3>6. CASE UNCHANGED <<pc[c], user[c], known[c], picked[c], after[c], seen[c]>>
      BY <2>2, <3>1, <3>6
    <3>7. ~CloserEndingRaises(c) /\ ~StoreRaises(c)
      BY CloserRaises
    <3>8. QED
      BY <3>2, <3>3, <3>4, <3>5, <3>6, <3>7, CloserAlone
  <2>5. QED
    BY <1>2, <2>1, <2>3, <2>4 DEF KillInv, RowsLeft
<1>3. QED
  BY <1>1, <1>2

LEMMA KillHolds == Spec => []KillInv
<1>1. Init => KillInv
  BY ActorKinds DEF Init, KillInv, LooksTrue, ClosesForUser, CancelledForUser,
     WalksForUser, RowsLeft, Killable, With, NoReason
<1>2. PlacesInv /\ KillInv /\ [Next]_vars => KillInv'
  BY LooksNext, ClosesNext, CancelledNext, WalksNext, RowsLeftNext DEF KillInv
<1>3. QED
  BY <1>1, <1>2, PlacesInvariant, PTL DEF Spec

\* A cancel that killed the engine is the reason of every target that did not
\* run, whatever goes wrong.
THEOREM KilledForUser == Spec => []KilledReadsUser
<1>1. KillInv => KilledReadsUser
  BY DEF KillInv, CancelledForUser, KilledReadsUser
<1>2. QED
  BY <1>1, KillHolds, PTL

\* After the kill no running row fails while its cancel lives, whatever else
\* goes wrong.
THEOREM RowsWaitForCancel == Spec => KillFailsNothing
<1>1. ASSUME PlacesInv, KillInv, Next, killed,
             \A c \in Cancels : Alive(c) /\ c \notin cut,
             NEW t \in With("running"), row'[t] = "failed"
      PROVE  FALSE
  <2> USE ActorKinds DEF PlacesInv, Goto, With
  <2>1. WalksForUser /\ RowsLeft /\ t \in Targets /\ row[t] = "running"
    BY <1>1 DEF KillInv
  <2>2. PICK c \in Cancels : pc[c] \in {"pick", "cancel"}
    BY <1>1, <2>1 DEF RowsLeft
  <2>3. ~StepsLive
    BY <1>1, <2>1 DEF WalksForUser, Over
  <2>4. ASSUME NEW u \in Targets, StartStep(u) \/ Engine(u)
        PROVE  FALSE
    BY <1>1, <2>1, <2>3, <2>4 DEF StartStep, Engine, ClaimRow, ClaimFails,
       EndStep, InsertRows, StepsLive, index
  <2>5. ASSUME NEW a \in Actors, FailRows(a)
        PROVE  FALSE
    <3>1. pc[a] = "flip" /\ a # Owner
      BY <1>1, <2>1, <2>5 DEF FailRows, WalksForUser
    <3>2. lock = a /\ lock = c
      BY <1>1, <2>2, <3>1 DEF CloserPlaced, Outside
    <3>3. QED
      BY <2>2, <3>1, <3>2
  <2>6. ASSUME NEW a \in Actors, WalkRefusals(a) \/ WalkCancelled(a)
        PROVE  FALSE
    <3>1. row'[t] = row[t]
      BY <2>1, <2>6 DEF WalkRefusals, WalkCancelled, InsertRows, Present, index
    <3>2. QED
      BY <1>1, <2>1, <3>1
  <2>7. ASSUME NEW a \in Actors,
               \/ ReadRecorded(a) \/ StoreOutcome(a) \/ PickRunning(a)
               \/ WriteCancelled(a) \/ WalkRead(a) \/ RemoveRecord(a)
        PROVE  FALSE
    BY <1>1, <2>1, <2>7 DEF ReadRecorded, StoreOutcome, PickRunning,
       WriteCancelled, WalkRead, RemoveRecord, index
  <2>8. ASSUME Own \/ EngineRaises \/ OwnerStops \/ EngineEnds
        PROVE  FALSE
    BY <1>1, <2>1, <2>8 DEF Own, StartEngine, RecordEngine, ProbeCancel,
       JudgeFailure, EngineRaises, OwnerStops, EngineEnds, index
  <2>9. ASSUME NEW d \in Closers, Close(d) \/ Announce(d) \/ CloserStops(d)
        PROVE  FALSE
    BY <1>1, <2>1, <2>9 DEF Close, TakeLock, CancelLook, KillEngine, AskOwner,
       JudgeDead, CloseRead, ReleaseLock, Announce, CloserStops, index
  <2>10. ~EndingRaises
    BY <1>1, <2>1, RaiseQuiet DEF index
  <2>11. QED
    BY <1>1, <2>4, <2>5, <2>6, <2>7, <2>8, <2>9, <2>10 DEF Next, End
<1>2. PlacesInv /\ KillInv /\ [Next]_vars =>
        [killed /\ (\A c \in Cancels : Alive(c) /\ c \notin cut) =>
           \A t \in With("running") : row'[t] # "failed"]_vars
  BY <1>1
<1>3. QED
  BY <1>2, PlacesInvariant, KillHolds, PTL DEF Spec, KillFailsNothing

-----------------------------------------------------------------------------
(* The ends of a pipeline implement SettledOnce: a claim that runs is a    *)
(* Begin, a cancel's rows are an Overturn, a record that goes an Unregister*)
(* and what else writes rows settles them.                                 *)

\* An engine that could not be started leaves no row, and nobody writes one
\* afterwards: at the start, ...
LEMMA NeverInit == Init => NeverStarted
  BY ActorKinds DEF Init, NeverStarted, NewRecord, Finished, Present, With,
     NoReason, Alive

\* ... through the engine's steps, ...
LEMMA EngineNever ==
  ASSUME PlacesInv, NeverStarted, NEW t \in Targets,
         StartStep(t) \/ Engine(t) \/ EngineEnds
  PROVE  NeverStarted'
<1> USE ActorKinds DEF PlacesInv, TypeOK, index, world, locals, Closing, Finished, Alive
<1>1. engine = "running" \/ EndStep(t)
  BY DEF StartStep, Engine, ClaimRow, ClaimFails, EngineEnds, StepsLive
<1>2. engine = "running" => (~record.there => Present = Targets \/ Owner \in cut)
  BY DEF RowsFirst, RecordGoesLast
<1>3. CASE StartStep(t) \/ ClaimFails(t) \/ EngineEnds
  BY <1>1, <1>2, <1>3 DEF StartStep, ClaimFails, EngineEnds, NeverStarted, Present, With
<1>4. ASSUME NEW st \in {"completed", "running"}, ClaimRow(t, st)
      PROVE  NeverStarted'
  <2>1. engine = "running" /\ Present' = Present \cup {t}
    BY <1>4 DEF ClaimRow, StepsLive, InsertRows, Present, With
  <2>2. Present = Targets => Present' = Targets
    BY <2>1 DEF Present
  <2>3. QED
    BY <1>2, <1>4, <2>1, <2>2 DEF ClaimRow, NeverStarted
<1>5. CASE EndStep(t)
  <2>1. Present' = Present
    BY <1>5 DEF EndStep, Present, With
  <2>2. QED
    BY <1>5, <2>1 DEF EndStep, NeverStarted
<1>6. QED
  BY <1>3, <1>4, <1>5 DEF Engine

\* ... the endings', ...
LEMMA EndNever ==
  ASSUME PlacesInv, NeverStarted, NEW a \in Actors, End(a)
  PROVE  NeverStarted'
<1> USE ActorKinds DEF PlacesInv, TypeOK, index, world, locals, Closing, Finished, Alive, Goto
<1>1. CASE ReadRecorded(a) \/ PickRunning(a) \/ WalkRead(a)
  BY <1>1 DEF ReadRecorded, PickRunning, WalkRead, NeverStarted, Present, With,
     OwnerPlaced, CloserPlaced
<1>2. CASE StoreOutcome(a)
  BY <1>2 DEF StoreOutcome, NeverStarted, Present, With, OwnerPlaced, CloserPlaced
<1>3. CASE FailRows(a) \/ WriteCancelled(a)
  <2>1. Present' = Present
    BY <1>3 DEF FailRows, WriteCancelled, RowsFirst, Present, With
  <2>2. QED
    BY <1>3, <2>1 DEF FailRows, WriteCancelled, NeverStarted, OwnerPlaced, CloserPlaced
<1>4. CASE WalkRefusals(a) \/ WalkCancelled(a)
  <2>1. /\ Present \subseteq Present' /\ Present' \subseteq Targets
        /\ WalkCancelled(a) => Present' = Targets
    BY <1>4 DEF WalkRefusals, WalkCancelled, InsertRows, RowsFirst, Present, With
  <2>2. Present = Targets => Present' = Targets
    BY <2>1
  <2>3. ~record.there => Present = Targets \/ (Owner \in cut /\ engine # "none")
    BY <1>4 DEF WalkRefusals, WalkCancelled, NeverStarted, OwnerPlaced
  <2>4. a # Owner /\ record.there => ~Alive(Owner)
    BY <1>4 DEF WalkRefusals, WalkCancelled, CloserPlaced
  <2>5. ~(engine = "none" /\ Alive(Owner))
    BY <1>4, <2>3, <2>4, PipelineAssumption
       DEF WalkRefusals, WalkCancelled, NeverStarted
  <2>6. pc'[a] \in {"refusals", "cancelled", "store", "remove"}
    BY <1>4 DEF WalkRefusals, WalkCancelled
  <2>7. pc'[a] \in {"refusals", "cancelled"} \/ a = Owner \/ Present' = Targets
    BY <1>4, <2>1 DEF WalkRefusals, WalkCancelled
  <2>8. \A c \in Closers : c # a => UNCHANGED <<pc[c], after[c]>>
    BY <1>4 DEF WalkRefusals, WalkCancelled
  <2>9. \A c \in Closers : Finished(c)' => Present' = Targets
    BY <2>2, <2>6, <2>7, <2>8 DEF NeverStarted
  <2>10. /\ UNCHANGED <<engine, cut, record>>
         /\ Alive(Owner)' => Alive(Owner)
    BY <1>4 DEF WalkRefusals, WalkCancelled
  <2>11. QED
    BY <2>2, <2>3, <2>5, <2>9, <2>10 DEF NeverStarted
<1>5. CASE RemoveRecord(a)
  <2>1. Present' = Present /\ ~record'.there
    BY <1>5 DEF RemoveRecord, Present, With, Records
  <2>2. \/ Present = Targets \/ Owner \in cut
        \/ a = Owner /\ record.there /\ Present = {}
    BY <1>5 DEF RemoveRecord, NeverStarted, RowsFirst, OwnerPlaced
  <2>3. a = Owner /\ record.there => \A c \in Closers : ~Closing(c)
    BY <1>5 DEF RemoveRecord, CloserPlaced
  <2>4. QED
    BY <1>5, <2>1, <2>2, <2>3 DEF RemoveRecord, NeverStarted
<1>6. QED
  BY <1>1, <1>2, <1>3, <1>4, <1>5 DEF End

\* ... the owner's ...
LEMMA OwnNever ==
  ASSUME PlacesInv, NeverStarted, Own \/ EngineRaises \/ OwnerStops
  PROVE  NeverStarted'
  BY ActorKinds
     DEF PlacesInv, TypeOK, index, world, locals, Closing, Finished, Alive, Goto,
         Own, StartEngine, RecordEngine, ProbeCancel, JudgeFailure, EngineRaises,
         OwnerStops, NeverStarted, Present, With, OwnerPlaced, Records

\* ... and the closers'.
LEMMA CloseNever ==
  ASSUME PlacesInv, NeverStarted, NEW c \in Closers,
         Close(c) \/ Announce(c) \/ CloserStops(c)
  PROVE  NeverStarted'
<1> USE ActorKinds DEF PlacesInv, TypeOK, index, world, locals, Closing, Finished, Alive, Goto
<1>1. CASE Announce(c) \/ CancelLook(c)
  <2>1. /\ record'.there = record.there /\ Present' = Present
        /\ UNCHANGED <<engine, after, cut>>
    BY <1>1 DEF Announce, CancelLook, Records, Present, With
  <2>2. PICK l \in {"lock", "unlock", "kill"} : pc' = [pc EXCEPT ![c] = l]
    BY <1>1 DEF Announce, CancelLook
  <2>3. QED
    BY <2>1, <2>2 DEF NeverStarted
<1>2. CASE TakeLock(c) \/ ReleaseLock(c) \/ CloserStops(c)
  <2>1. /\ Present' = Present /\ UNCHANGED <<record, engine, cut>>
        /\ after' = [after EXCEPT ![c] = after'[c]]
    BY <1>2 DEF TakeLock, ReleaseLock, CloserStops, Forget, Present, With
  <2>2. PICK l \in {"look", "closeRead", "done", "watch", "dead"} :
          pc' = [pc EXCEPT ![c] = l]
    BY <1>2 DEF TakeLock, ReleaseLock, CloserStops
  <2>3. QED
    BY <2>1, <2>2 DEF NeverStarted
<1>3. CASE KillEngine(c)
  BY <1>3 DEF KillEngine, NeverStarted, Present, With
<1>4. CASE AskOwner(c)
  <2>1. Present' = Present /\ UNCHANGED <<record, engine, after, cut>>
    BY <1>4 DEF AskOwner, Present, With
  <2>2. PICK l \in {"unlock", "closeRead"} : pc' = [pc EXCEPT ![c] = l]
    BY <1>4 DEF AskOwner
  <2>3. QED
    BY <2>1, <2>2 DEF NeverStarted
<1>5. CASE JudgeDead(c)
  BY <1>5 DEF JudgeDead, NeverStarted, Nothing, Present, With
<1>6. CASE CloseRead(c)
  BY <1>6 DEF CloseRead, NeverStarted, Nothing, Present, With
<1>7. QED
  BY <1>1, <1>2, <1>3, <1>4, <1>5, <1>6 DEF Close

LEMMA RaiseNever ==
  ASSUME PlacesInv, NeverStarted, EndingRaises
  PROVE  NeverStarted'
<1> USE ActorKinds DEF PlacesInv, TypeOK, index, world, Closing, Finished, Alive, Goto
<1>1. Present' = Present /\ UNCHANGED <<record, engine>> /\ cut \subseteq cut'
  BY DEF EndingRaises, OwnerEndingRaises, CloserEndingRaises, StoreRaises, Present,
     With
<1>2. CASE OwnerEndingRaises
  BY <1>1, <1>2 DEF OwnerEndingRaises, NeverStarted
<1>3. ASSUME NEW c \in Closers, CloserEndingRaises(c)
      PROVE  NeverStarted'
  BY <1>1, <1>3 DEF CloserEndingRaises, locals, NeverStarted
<1>4. ASSUME NEW c \in Closers, StoreRaises(c)
      PROVE  NeverStarted'
  <2>1. after[c] \in {"ask", "walk", "unlock"}
    BY <1>4 DEF StoreRaises, CloserPlaced
  <2>2. after[c] = "walk" => Closing(c) /\ pc[c] # "closeRead"
    BY <1>4 DEF StoreRaises
  <2>3. UNCHANGED after /\ pc' = [pc EXCEPT ![c] = after[c]]
    BY <1>4 DEF StoreRaises
  <2>4. QED
    BY <1>1, <2>1, <2>2, <2>3 DEF NeverStarted
<1>5. CASE StoreRaises(Owner)
  BY <1>1, <1>5 DEF StoreRaises, OwnerPlaced, NeverStarted
<1>6. QED
  BY <1>2, <1>3, <1>4, <1>5 DEF EndingRaises

\* An engine that could not be started leaves no row, whatever goes wrong.
LEMMA NeverHolds == Spec => []NeverStarted
<1>1. PlacesInv /\ NeverStarted /\ [Next]_vars => NeverStarted'
  <2> SUFFICES ASSUME PlacesInv, NeverStarted, [Next]_vars
               PROVE  NeverStarted'
    OBVIOUS
  <2>1. PICK t \in Targets : TRUE
    BY PipelineAssumption
  <2>2. CASE UNCHANGED vars
    BY <2>2 DEF vars, index, world, locals, NeverStarted, Finished, Closing, Alive,
       Present, With
  <2>3. CASE Next
    BY <2>1, <2>3, EngineNever, EndNever, OwnNever, CloseNever, RaiseNever DEF Next
  <2>4. QED
    BY <2>2, <2>3
<1>2. QED
  BY <1>1, NeverInit, PlacesInvariant, PTL DEF Spec

\* A step that leaves the record and writes outcomes where a row runs, or where
\* none is while the record is there or after its owner's ending raised.
LEMMA WritesSettle ==
  ASSUME EndInv, EndInv', UNCHANGED <<record.there, cut>>, NEW T \in SUBSET Targets,
         \A t \in T : /\ \/ row[t] = "running"
                         \/ (record.there \/ Owner \in cut) /\ row[t] = "none"
                      /\ row'[t] \in {"completed", "failed", "cancelled"},
         \A t \in Targets \ T : row'[t] = row[t]
  PROVE  Settles!Next
<1> USE DEF EndInv, PlacesInv, OneRowEach
<1>1. /\ RowCount = [t \in Targets |-> IF row[t] = "none" THEN 0 ELSE 1]
      /\ RowCount' = [t \in Targets |-> IF row'[t] = "none" THEN 0 ELSE 1]
  BY DEF RowCount
<1>2. row' \in [Targets -> {"completed", "failed", "cancelled", "running", "none"}]
  BY DEF TypeOK, Status
<1>3. Settles!Settle(T)
  BY <1>1, <1>2 DEF Settles!Settle, Settles!Outcomes, TypeOK
<1>4. QED
  BY <1>3 DEF Settles!Next

\* The engine's steps: ...
LEMMA EngineSettles ==
  ASSUME EndInv, EndInv', NEW t \in Targets, StartStep(t) \/ Engine(t) \/ EngineEnds
  PROVE  Settles!Next
<1> USE DEF EndInv, PlacesInv, TypeOK, index, world, locals
<1>1. CASE StartStep(t) \/ ClaimFails(t) \/ EngineEnds
  <2>1. UNCHANGED <<record, row, cut>>
    BY <1>1 DEF StartStep, ClaimFails, EngineEnds
  <2>2. {} \in SUBSET Targets
    OBVIOUS
  <2>3. QED
    BY <2>1, <2>2, WritesSettle
<1>2. ASSUME NEW st \in {"completed", "running"}, ClaimRow(t, st)
      PROVE  Settles!Next
  <2>1. t \notin Present /\ record.there
    BY <1>2, WhileRunning DEF ClaimRow, StepsLive
  <2>2. row[t] = "none" /\ UNCHANGED <<record, cut>>
    BY <1>2, <2>1 DEF ClaimRow, Present, With
  <2>3. row' = [row EXCEPT ![t] = st]
    BY <1>2, <2>1 DEF ClaimRow, InsertRows
  <2>4. CASE st = "completed"
    <3> DEFINE T == {t}
    <3>1. /\ T \in SUBSET Targets
          /\ \A u \in T : /\ record.there /\ row[u] = "none"
                          /\ row'[u] \in {"completed", "failed", "cancelled"}
          /\ \A u \in Targets \ T : row'[u] = row[u]
      BY <2>1, <2>2, <2>3, <2>4
    <3> HIDE DEF T
    <3>2. QED
      BY <2>2, <3>1, WritesSettle
  <2>5. CASE st = "running"
    <3>1. /\ RowCount = [u \in Targets |-> IF row[u] = "none" THEN 0 ELSE 1]
          /\ RowCount' = [u \in Targets |-> IF row'[u] = "none" THEN 0 ELSE 1]
      BY DEF RowCount, OneRowEach
    <3>2. Settles!Begin(t)
      BY <2>1, <2>2, <2>3, <2>5, <3>1 DEF Settles!Begin
    <3>3. QED
      BY <3>2 DEF Settles!Next
  <2>6. QED
    BY <2>4, <2>5
<1>3. CASE EndStep(t)
  <2>1. /\ UNCHANGED <<record, cut>>
        /\ row' = row \/ (row[t] = "running" /\ row' = [row EXCEPT ![t] = "completed"])
                     \/ (row[t] = "running" /\ row' = [row EXCEPT ![t] = "failed"])
    BY <1>3 DEF EndStep
  <2>2. {} \in SUBSET Targets
    OBVIOUS
  <2>3. CASE row' = row
    BY <2>1, <2>2, <2>3, WritesSettle
  <2>4. CASE row' # row
    <3> DEFINE T == {t}
    <3>1. /\ T \in SUBSET Targets
          /\ \A u \in T : /\ row[u] = "running"
                          /\ row'[u] \in {"completed", "failed", "cancelled"}
          /\ \A u \in Targets \ T : row'[u] = row[u]
      BY <2>1, <2>4
    <3> HIDE DEF T
    <3>2. QED
      BY <2>1, <2>2, <3>1, WritesSettle
  <2>5. QED
    BY <2>3, <2>4
<1>4. QED
  BY <1>1, <1>2, <1>3 DEF Engine

\* A walk writes rows where none is, while the record is there or after its
\* owner's ending raised.
LEMMA WalkSettles ==
  ASSUME EndInv, EndInv', NeverStarted, NEW a \in Actors, WalkRefusals(a) \/ WalkCancelled(a)
  PROVE  Settles!Next
<1> USE ActorKinds DEF EndInv, PlacesInv, TypeOK, index, world, locals, Goto
<1>1. known[a].present = Present
  BY DEF RowsKnown, WalkRefusals, WalkCancelled
<1>2. ~record.there => Present = Targets \/ Owner \in cut
  BY DEF WalkRefusals, WalkCancelled, NeverStarted, OwnerPlaced, Alive, Closing
<1>3. UNCHANGED <<record, cut>>
  BY DEF WalkRefusals, WalkCancelled
<1>4. CASE WalkRefusals(a)
  <2>1. PICK T \in SUBSET Targets : RefusalStep(a, T)
    BY <1>4, RefusalsWritten
  <2>2. T \subseteq Targets \ Present
    BY <1>1, <2>1 DEF RefusalStep
  <2>3. /\ \A t \in T : /\ record.there \/ Owner \in cut
                       /\ row[t] = "none" /\ row'[t] = "failed"
        /\ \A t \in Targets \ T : row'[t] = row[t]
    BY <1>2, <2>1, <2>2 DEF RefusalStep, InsertRows, Present, With
  <2>4. QED
    BY <1>3, <2>1, <2>2, <2>3, WritesSettle
<1>5. CASE WalkCancelled(a)
  <2>1. Targets \ Present \in SUBSET Targets
    OBVIOUS
  <2>2. \A t \in Targets : row'[t] = IF t \in Targets \ Present THEN "cancelled" ELSE row[t]
    BY <1>1, <1>5 DEF WalkCancelled, InsertRows
  <2>3. \A t \in Targets \ Present : /\ record.there \/ Owner \in cut
                                    /\ row[t] = "none"
    BY <1>2 DEF Present, With
  <2>4. QED
    BY <1>3, <2>1, <2>2, <2>3, WritesSettle
<1>6. QED
  BY <1>4, <1>5

\* ... the endings': ...
LEMMA EndSettles ==
  ASSUME EndInv, EndInv', NeverStarted, NEW a \in Actors, End(a)
  PROVE  [Settles!Next]_<<record.there, Owner \in cut, RowCount, row>>
<1> USE ActorKinds DEF EndInv, PlacesInv, TypeOK, index, world, locals, Goto
<1>1. CASE ReadRecorded(a) \/ StoreOutcome(a) \/ PickRunning(a) \/ WalkRead(a)
  <2>1. UNCHANGED <<record, row, second, cut>>
    BY <1>1 DEF ReadRecorded, StoreOutcome, PickRunning, WalkRead
  <2>2. QED
    BY <2>1 DEF RowCount
<1>2. CASE FailRows(a)
  <2>1. With("running") \in SUBSET Targets /\ UNCHANGED <<record, cut>>
    BY <1>2 DEF FailRows, With
  <2>2. \A t \in Targets : row'[t] = IF t \in With("running") THEN "failed" ELSE row[t]
    BY <1>2 DEF FailRows, With
  <2>3. \A t \in With("running") : row[t] = "running"
    BY DEF With
  <2>4. QED
    BY <2>1, <2>2, <2>3, WritesSettle
<1>3. CASE WriteCancelled(a)
  <2>1. picked[a] \in SUBSET Targets /\ \A t \in picked[a] : row[t] # "none"
    BY DEF RowsFirst, Present, With
  <2>2. row' = [t \in Targets |-> IF t \in picked[a] THEN "cancelled" ELSE row[t]]
    BY <1>3 DEF WriteCancelled
  <2>3. /\ \A t \in picked[a] : RowCount[t] = 1
        /\ UNCHANGED <<record, RowCount, cut>>
    BY <1>3, <2>1, <2>2 DEF WriteCancelled, RowCount, OneRowEach
  <2>4. Settles!Overturn(picked[a])
    BY <2>2, <2>3 DEF Settles!Overturn
  <2>5. QED
    BY <2>1, <2>4 DEF Settles!Next
<1>4. CASE WalkRefusals(a) \/ WalkCancelled(a)
  BY <1>4, WalkSettles
<1>5. CASE RemoveRecord(a)
  <2>1. UNCHANGED <<row, second, cut>> /\ record'.there = FALSE
    BY <1>5 DEF RemoveRecord, Records
  <2>2. UNCHANGED RowCount
    BY <2>1 DEF RowCount
  <2>3. CASE record.there
    <3>1. Present = Targets \/ Present = {} \/ Owner \in cut
      BY <1>5, <2>3 DEF RemoveRecord, NeverStarted, RowsFirst, OwnerPlaced, Alive, Finished
    <3>2. Owner \in cut \/ \E n \in {0, 1} : \A t \in Targets : RowCount[t] = n
      BY <3>1 DEF Present, With, RowCount, OneRowEach
    <3>3. Settles!Unregister
      BY <2>1, <2>2, <2>3, <3>2 DEF Settles!Unregister
    <3>4. QED
      BY <3>3 DEF Settles!Next
  <2>4. CASE ~record.there
    BY <2>1, <2>2, <2>4 DEF Records
  <2>5. QED
    BY <2>3, <2>4
<1>6. QED
  BY <1>1, <1>2, <1>3, <1>4, <1>5 DEF End

\* ... and everybody else's, who write no row and remove no record.
LEMMA OthersSettle ==
  ASSUME EndInv,
         \/ Own \/ EngineRaises \/ OwnerStops
         \/ \E c \in Closers : Close(c) \/ Announce(c) \/ CloserStops(c)
  PROVE  UNCHANGED <<record.there, Owner \in cut, RowCount, row>>
<1> USE DEF EndInv, PlacesInv, TypeOK, Records, index, world, locals, RowCount
<1>1. CASE Own \/ EngineRaises \/ OwnerStops
  BY <1>1 DEF Own, StartEngine, RecordEngine, ProbeCancel, JudgeFailure, EngineRaises,
     OwnerStops
<1>2. ASSUME NEW c \in Closers, Close(c) \/ Announce(c) \/ CloserStops(c)
      PROVE  UNCHANGED <<record.there, Owner \in cut, RowCount, row>>
  BY <1>2 DEF Close, TakeLock, CancelLook, KillEngine, AskOwner, JudgeDead, CloseRead,
     ReleaseLock, Announce, CloserStops
<1>3. QED
  BY <1>1, <1>2

\* The ends of a pipeline implement SettledOnce, whether its engine starts or
\* not, whoever cancels it, closes it out or dies and whatever raises in an
\* ending, of owners whose engine, if it runs, is in the record when they die.
THEOREM EndImplementsSettledOnce ==
  ASSUME "unrecorded" \notin Disturbances
  PROVE  Spec => SettlesOnce
<1>1. Init => Settles!Init
  BY DEF Init, Settles!Init, NewRecord, RowCount, NoReason
<1>2. ASSUME EndInv, EndInv', NeverStarted, [Next]_vars
      PROVE  [Settles!Next]_<<record.there, Owner \in cut, RowCount, row>>
  <2>1. PICK t \in Targets : TRUE
    BY PipelineAssumption
  <2>2. CASE UNCHANGED vars
    BY <2>2 DEF vars, index, RowCount
  <2>3. CASE EndingRaises
    <3>1. UNCHANGED <<record, row, second>> /\ cut \subseteq cut'
      BY <2>3, RaiseQuiet DEF EndInv, PlacesInv, index, EndingRaises,
         OwnerEndingRaises, CloserEndingRaises, StoreRaises
    <3>2. CASE Owner \in cut'
      <4>1. Settles!GiveUp
        BY <3>1, <3>2 DEF Settles!GiveUp, RowCount
      <4>2. QED
        BY <4>1 DEF Settles!Next
    <3>3. CASE Owner \notin cut'
      BY <3>1, <3>3 DEF RowCount
    <3>4. QED
      BY <3>2, <3>3
  <2>4. CASE Next /\ ~EndingRaises
    BY <1>2, <2>1, <2>4, EngineSettles, EndSettles, OthersSettle DEF Next
  <2>5. QED
    BY <1>2, <2>2, <2>3, <2>4
<1>3. QED
  BY <1>1, <1>2, EndInvariant, NeverHolds, PTL DEF Spec, SettlesOnce, Settles!Spec

==============================================================================
