------------------------- MODULE SampleViewsProofs -------------------------
(***************************************************************************)
(* Proofs about SampleViews, for any members, pipelines and steps: ViewInv *)
(* is inductive, and it gives the three properties of a shared view.       *)
(***************************************************************************)
EXTENDS SampleViews, TLAPS

LEMMA ViewInit == Init => ViewInv
  BY ViewAssumption
     DEF Init, ViewInv, TypeOK, Bytes, Stamps, Places, UsersHold, RemoverAlone,
         Rebuilt, NobodysGone, Gone, Using, Building, Free

\* A step that moves only itself, in a view that stays as it is.
LEMMA ChecksKeep ==
  ASSUME ViewInv, NEW s \in Steps,
         \/ Hold(s) \/ Compare(s) \/ Hash(s) \/ Restamp(s)
         \/ Refuse(s) \/ WriteStamp(s) \/ TakeRecord(s) \/ EndStep(s)
  PROVE  ViewInv'
<1> USE ViewAssumption
    DEF ViewInv, TypeOK, Bytes, Stamps, Places, UsersHold, RemoverAlone,
        Rebuilt, NobodysGone, Gone, Using, Building, Goto, Missing, Registered, project,
        failure, Outdated
<1>1. CASE Hold(s)
  BY <1>1 DEF Hold
<1>2. CASE Compare(s)
  BY <1>2 DEF Compare
<1>3. CASE Hash(s)
  BY <1>3 DEF Hash
<1>4. CASE Restamp(s)
  BY <1>4 DEF Restamp
<1>5. CASE Refuse(s)
  BY <1>5 DEF Refuse
<1>6. CASE WriteStamp(s)
  BY <1>6 DEF WriteStamp
<1>7. CASE TakeRecord(s)
  BY <1>7 DEF TakeRecord
<1>8. CASE EndStep(s)
  BY <1>8 DEF EndStep
<1>9. QED
  BY <1>1, <1>2, <1>3, <1>4, <1>5, <1>6, <1>7, <1>8

LEMMA RebuildKeeps ==
  ASSUME ViewInv, NEW s \in Steps,
         DropStamp(s) \/ \E m \in Members : Place(s, m)
  PROVE  ViewInv'
<1> USE ViewAssumption
    DEF ViewInv, TypeOK, Bytes, Stamps, Places, UsersHold, RemoverAlone,
        Rebuilt, NobodysGone, Gone, Using, Building, Goto, Missing, Registered, project,
        failure, Outdated
<1>1. CASE DropStamp(s)
  BY <1>1 DEF DropStamp
<1>2. ASSUME NEW m \in Members, Place(s, m)
      PROVE  ViewInv'
  BY <1>2 DEF Place, Touched
<1>3. QED
  BY <1>1, <1>2

LEMMA RemovalKeeps ==
  ASSUME ViewInv, Remove \/ \E p \in Pipelines : End(p)
  PROVE  ViewInv'
<1> USE ViewAssumption
    DEF ViewInv, TypeOK, Bytes, Stamps, Places, UsersHold, RemoverAlone,
        Rebuilt, NobodysGone, Gone, Using, Building, Missing, Registered, project,
        failure, Outdated,
        users, Free, Prune
\* Its own steps are over, and theirs who hold it too are not looked at.
<1>1. ASSUME NEW p \in Pipelines, KeepForOther(p)
      PROVE  ViewInv'
  <2>1. \A s \in Steps : Using(s) => PipelineOf[s] # p
    BY <1>1 DEF KeepForOther, Ending, StepsOf
  <2>2. held' = {} => held = {}
    BY <1>1 DEF KeepForOther, Others
  <2>3. TypeOK' /\ RemoverAlone' /\ Rebuilt'
    BY <1>1 DEF KeepForOther, Ending
  <2>4. UsersHold'
    BY <1>1, <2>1 DEF KeepForOther
  <2>5. NobodysGone'
    BY <1>1, <2>2 DEF KeepForOther
  <2>6. QED
    BY <2>3, <2>4, <2>5
\* Its own steps are over, and there are no others.
<1>2. ASSUME NEW p \in Pipelines, BeginRemoval(p)
      PROVE  ViewInv'
  <2>1. held = {p}
    BY <1>2 DEF BeginRemoval, Others
  <2>2. \A s \in Steps : ~Using(s)
    BY <1>2, <2>1 DEF BeginRemoval, Ending, StepsOf
  <2>3. TypeOK' /\ UsersHold' /\ Rebuilt' /\ NobodysGone'
    BY <1>2 DEF BeginRemoval
  <2>4. RemoverAlone'
    BY <1>2, <2>1, <2>2 DEF BeginRemoval
  <2>5. QED
    BY <2>3, <2>4
<1>3. CASE PruneView
  BY <1>3 DEF PruneView
<1>4. ASSUME NEW m \in Members, RemoveMember(m)
      PROVE  ViewInv'
  BY <1>4 DEF RemoveMember, Touched
<1>5. CASE Commit
  BY <1>5 DEF Commit
<1>6. CASE RemoverDies
  BY <1>6 DEF RemoverDies
\* Nobody of the pipeline uses the view, nor will: its record may go.
<1>7. ASSUME NEW p \in Pipelines, RemovalFails(p)
      PROVE  ViewInv'
  <2>1. \A s \in Steps : PipelineOf[s] = p => ~Using(s)
    BY <1>7 DEF RemovalFails, Ending, StepsOf
  <2>2. QED
    BY <1>7, <2>1 DEF RemovalFails
<1>8. ASSUME NEW p \in Pipelines, Release(p)
      PROVE  ViewInv'
  <2>1. \A s \in Steps : PipelineOf[s] = p => ~Using(s)
    BY <1>8 DEF Release
  <2>2. TypeOK' /\ UsersHold' /\ RemoverAlone' /\ Rebuilt'
    BY <1>8, <2>1 DEF Release
  <2>3. NobodysGone'
    BY <1>8 DEF Release
  <2>4. QED
    BY <2>2, <2>3
<1>9. QED
  BY <1>1, <1>2, <1>3, <1>4, <1>5, <1>6, <1>7, <1>8 DEF Remove, End

LEMMA EditKeeps ==
  ASSUME ViewInv, NEW m \in Members, Edit(m)
  PROVE  ViewInv'
<1> USE ViewAssumption
    DEF ViewInv, TypeOK, Bytes, Stamps, Places, UsersHold, RemoverAlone,
        Rebuilt, NobodysGone, Gone, Using, Building, Missing, Registered, project,
        failure, Outdated
<1> DEFINE overtaken == {u \in Steps : at[u] \in {"restamp", "reading"}}
<1>1. /\ file' \in [Members -> Bytes] /\ stamp' = Outdated
      /\ file[m] # "none"
      /\ record' \in [Steps -> Stamps \ {"none"}]
      /\ \A u \in Steps : record'[u] # "fresh" \/ file'[m] = "none"
    BY DEF Edit, Touched
<1>2. \A u \in Steps : ~Building(u)
    BY DEF Edit
<1>3. /\ spoilt' = spoilt \cup overtaken
      /\ UNCHANGED <<held, at, todo, remover, ended, failure, project>>
    BY DEF Edit
<1>4. TypeOK' /\ UsersHold'
  BY <1>1, <1>3
<1>5. RemoverAlone'
  BY <1>1, <1>3
<1>6. Rebuilt'
  BY <1>1, <1>2, <1>3 DEF Edit, Touched
<1>7. NobodysGone'
  BY <1>1, <1>3
<1>8. QED
  BY <1>4, <1>5, <1>6, <1>7

LEMMA ViewNext == ViewInv /\ [Next]_vars => ViewInv'
<1> SUFFICES ASSUME ViewInv, [Next]_vars
             PROVE  ViewInv'
  OBVIOUS
<1>1. CASE UNCHANGED vars
  BY <1>1 DEF vars, users, project, failure, ViewInv, TypeOK, UsersHold, RemoverAlone,
     Rebuilt, NobodysGone, Gone, Using, Building, Missing, Registered
<1>2. CASE Next
  BY <1>2, ChecksKeep, RebuildKeeps, RemovalKeeps, EditKeeps DEF Next, Use
<1>3. QED
  BY <1>1, <1>2

\* The view is kept for whoever uses it, removed by one that found no other
\* holder, and gone when nobody holds it: the inductive invariant.
THEOREM ViewInvariant == Spec => []ViewInv
<1>1. QED
  BY ViewInit, ViewNext, PTL DEF Spec

---------------------------------------------------------------------------
(* The stamp vouches for the bytes, and whoever was let through reads      *)
(* them.                                                                   *)

Vouched == StampTrue /\ ReadsRegistered

LEMMA VouchedNext == ViewInv /\ Vouched /\ [Next]_vars => Vouched'
<1> SUFFICES ASSUME ViewInv, Vouched, [Next]_vars
             PROVE  Vouched'
  OBVIOUS
<1> USE DEF ViewInv, TypeOK, Vouched, StampTrue, ReadsRegistered, Registered,
            project, users
\* A check that lets a step through found a true stamp, or bytes it hashed.
<1>1. ASSUME NEW s \in Steps, Use(s)
      PROVE  Vouched'
  <2> USE DEF Goto, Rebuilt, Building
  <2>1. CASE Hold(s) \/ Refuse(s) \/ EndStep(s) \/ TakeRecord(s) \/ Hash(s)
    BY <2>1 DEF Hold, Refuse, EndStep, TakeRecord, Hash
  <2>2. CASE Compare(s)
    BY <2>2 DEF Compare
  <2>3. CASE Restamp(s) \/ WriteStamp(s) \/ DropStamp(s)
    BY <2>3 DEF Restamp, WriteStamp, DropStamp, Stamps
  <2>4. ASSUME NEW m \in Members, Place(s, m)
        PROVE  Vouched'
    BY <2>4 DEF Place, Touched, Outdated, Stamps
  <2>5. QED
    BY <1>1, <2>1, <2>2, <2>3, <2>4 DEF Use
\* A removal finds nobody using the view.
<1>2. CASE Remove
  BY <1>2 DEF Remove, PruneView, Commit, RemoverDies, RemoveMember, Touched,
     Outdated, RemoverAlone, Using, Stamps
<1>3. ASSUME NEW p \in Pipelines, End(p)
      PROVE  Vouched'
  BY <1>3 DEF End, KeepForOther, BeginRemoval, RemovalFails, Release
\* An edit is seen by the change times, or spoils what was let through.
<1>4. ASSUME NEW m \in Members, Edit(m)
      PROVE  Vouched'
  BY <1>4 DEF Edit, Touched, Outdated, Stamps
<1>5. CASE UNCHANGED vars
  BY <1>5 DEF vars
<1>6. QED
  BY <1>1, <1>2, <1>3, <1>4, <1>5 DEF Next

LEMMA ViewsVouched == Spec => []Vouched
<1>1. Init => Vouched
  BY DEF Init, Vouched, StampTrue, ReadsRegistered, Registered
<1>2. QED
  BY <1>1, VouchedNext, ViewInvariant, PTL DEF Spec

\* A stamp that matches the files vouches for the registered bytes, whoever
\* rebuilt, edited or removed the view before.
THEOREM StampsTrue == Spec => []StampTrue
<1>1. Vouched => StampTrue
  BY DEF Vouched
<1>2. QED
  BY <1>1, ViewsVouched, PTL

\* A step that was let through reads the registered bytes to its end, unless
\* somebody edits them after its check.
THEOREM ReadersServed == Spec => []ReadsRegistered
<1>1. Vouched => ReadsRegistered
  BY DEF Vouched
<1>2. QED
  BY <1>1, ViewsVouched, PTL

\* When the pipelines that used a view have ended, its files, its stamp and its
\* in-use records are gone.
THEOREM ViewsRemoved == Spec => []LastEndRemoves
<1>1. ViewInv => LastEndRemoves
  BY DEF ViewInv, TypeOK, UsersHold, NobodysGone, Gone, LastEndRemoves
<1>2. QED
  BY <1>1, ViewInvariant, PTL
=============================================================================
