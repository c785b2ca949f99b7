-------------------------- MODULE CodeCopiesProofs --------------------------
(***************************************************************************)
(* Proofs about CodeCopies, for any claims, readers and trees, whatever    *)
(* disturbs them: a run executes a copy its claim holds, and prune takes   *)
(* none of those.                                                          *)
(***************************************************************************)
EXTENDS CodeCopies, TLAPS

LEMMA UserKinds ==
  /\ Claims \subseteq Users /\ Readers \subseteq Users
  /\ \A u \in Users : u \in Claims \/ u \in Readers
  /\ \A u \in Users : u \notin Readers => u \in Claims
  /\ \A c \in Claims : c \notin Readers
  BY CopyAssumption DEF Users

LEMMA CopyInit == Init => CopyInv
<1> SUFFICES ASSUME Init
             PROVE  CopyInv
  OBVIOUS
<1> USE UserKinds, CopyAssumption DEF Init
<1>1. TypeOK
  BY DEF TypeOK, Phases, Labels, TreeOrNone, RenameAttempts, ResolveAttempts
<1>2. Placed
  BY DEF Placed, InResolver, ResolveAttempts
<1>3. HeldCode /\ RemovesUnheld /\ EndedClaimsHoldNothing
  BY DEF HeldCode, RemovesUnheld, EndedClaimsHoldNothing
<1>4. QED
  BY <1>1, <1>2, <1>3 DEF CopyInv

\* The resolver writes no record and no row.
LEMMA ResolverSteps ==
  ASSUME CopyInv, NEW u \in Users, Resolve(u) \/ Crash(u)
  PROVE  CopyInv'
<1> USE UserKinds, CopyAssumption
    DEF CopyInv, TypeOK, Placed, HeldCode, RemovesUnheld, HeldByOther, Live,
        EndedClaimsHoldNothing, Goto, InResolver, disk, user
<1>1. CASE StartRead(u)
  <2>1. TypeOK'
    BY <1>1 DEF StartRead, Labels
  <2>2. Placed'
    BY <1>1 DEF StartRead
  <2>3. HeldCode' /\ RemovesUnheld' /\ EndedClaimsHoldNothing'
    BY <1>1 DEF StartRead
  <2>4. QED
    BY <2>1, <2>2, <2>3
<1>2. CASE Pick(u)
  <2>1. TypeOK'
    BY <1>2 DEF Pick, Labels, TreeOrNone, RenameAttempts
  <2>2. Placed'
    BY <1>2 DEF Pick, RenameAttempts
  <2>3. HeldCode' /\ RemovesUnheld' /\ EndedClaimsHoldNothing'
    BY <1>2 DEF Pick
  <2>4. QED
    BY <2>1, <2>2, <2>3
<1>3. CASE CheckCopy(u)
  <2>1. TypeOK'
    BY <1>3 DEF CheckCopy, Labels
  <2>2. Placed'
    BY <1>3 DEF CheckCopy
  <2>3. HeldCode' /\ RemovesUnheld' /\ EndedClaimsHoldNothing'
    BY <1>3 DEF CheckCopy
  <2>4. QED
    BY <2>1, <2>2, <2>3
<1>4. CASE RenameIntoPlace(u)
  <2>1. TypeOK'
    BY <1>4 DEF RenameIntoPlace, Labels
  <2>2. Placed'
    BY <1>4 DEF RenameIntoPlace
  <2>3. HeldCode' /\ RemovesUnheld' /\ EndedClaimsHoldNothing'
    BY <1>4 DEF RenameIntoPlace
  <2>4. QED
    BY <2>1, <2>2, <2>3
<1>5. CASE JudgeCopy(u)
  <2>1. TypeOK'
    BY <1>5 DEF JudgeCopy, Labels
  <2>2. Placed'
    BY <1>5 DEF JudgeCopy
  <2>3. HeldCode' /\ RemovesUnheld' /\ EndedClaimsHoldNothing'
    BY <1>5 DEF JudgeCopy
  <2>4. QED
    BY <2>1, <2>2, <2>3
<1>6. CASE RemoveDamaged(u)
  <2>1. PICK l \in {"rename", "idle", "raised", "refuse"} :
          /\ pc[u] = "remove" /\ pc' = [pc EXCEPT ![u] = l]
          /\ l = "rename" => removals'[u] < RenameAttempts
          /\ removals'[u] \in 0..RenameAttempts
          /\ u \in Claims => l # "idle"
    BY <1>6 DEF RemoveDamaged, RenameAttempts, Phases
  <2>2. TypeOK'
    BY <1>6, <2>1 DEF RemoveDamaged, Labels
  <2>3. Placed'
    BY <1>6, <2>1 DEF RemoveDamaged
  <2>4. HeldCode' /\ RemovesUnheld' /\ EndedClaimsHoldNothing'
    BY <1>6, <2>1 DEF RemoveDamaged
  <2>5. QED
    BY <2>2, <2>3, <2>4
<1>7. CASE RefuseTree(u)
  <2>1. TypeOK'
    BY <1>7 DEF RefuseTree, Labels, Phases
  <2>2. Placed'
    BY <1>7 DEF RefuseTree, Phases
  <2>3. HeldCode' /\ RemovesUnheld' /\ EndedClaimsHoldNothing'
    BY <1>7 DEF RefuseTree, Phases
  <2>4. QED
    BY <2>1, <2>2, <2>3
<1>8. CASE StampCopy(u)
  <2>1. TypeOK'
    BY <1>8 DEF StampCopy, Labels
  <2>2. Placed'
    BY <1>8 DEF StampCopy
  <2>3. HeldCode' /\ RemovesUnheld' /\ EndedClaimsHoldNothing'
    BY <1>8 DEF StampCopy
  <2>4. QED
    BY <2>1, <2>2, <2>3
<1>9. CASE EndRead(u)
  <2>1. TypeOK'
    BY <1>9 DEF EndRead, Labels
  <2>2. Placed'
    BY <1>9 DEF EndRead
  <2>3. HeldCode' /\ RemovesUnheld' /\ EndedClaimsHoldNothing'
    BY <1>9 DEF EndRead
  <2>4. QED
    BY <2>1, <2>2, <2>3
<1>10. CASE Crash(u)
  <2>1. TypeOK'
    BY <1>10 DEF Crash, Labels
  <2>2. Placed'
    BY <1>10 DEF Crash
  <2>3. HeldCode' /\ RemovesUnheld' /\ EndedClaimsHoldNothing'
    BY <1>10 DEF Crash
  <2>4. QED
    BY <2>1, <2>2, <2>3
<1>11. QED
  BY <1>1, <1>2, <1>3, <1>4, <1>5, <1>6, <1>7, <1>8, <1>9, <1>10 DEF Resolve

LEMMA ClaimSteps ==
  ASSUME CopyInv, NEW c \in Claims, Claim(c) \/ EndRow(c)
  PROVE  CopyInv'
<1> USE UserKinds, CopyAssumption
    DEF CopyInv, TypeOK, Placed, HeldCode, RemovesUnheld, HeldByOther, Live,
        EndedClaimsHoldNothing, Goto, InResolver, disk, user, Unlocked,
        Release
<1>1. CASE ReadEntry(c)
  <2>1. TypeOK'
    BY <1>1 DEF ReadEntry, Labels, TreeOrNone
  <2>2. Placed'
    BY <1>1 DEF ReadEntry
  <2>3. HeldCode' /\ RemovesUnheld' /\ EndedClaimsHoldNothing'
    BY <1>1 DEF ReadEntry
  <2>4. QED
    BY <2>1, <2>2, <2>3
<1>2. CASE Hold(c)
  <2>1. TypeOK'
    BY <1>2 DEF Hold, Labels
  <2>2. Placed'
    BY <1>2 DEF Hold
  <2>3. HeldCode' /\ RemovesUnheld' /\ EndedClaimsHoldNothing'
    BY <1>2 DEF Hold
  <2>4. QED
    BY <2>1, <2>2, <2>3
<1>3. CASE UseHeld(c)
  <2>1. TypeOK'
    BY <1>3 DEF UseHeld, Labels, Phases, TreeOrNone
  <2>2. Placed'
    BY <1>3 DEF UseHeld
  <2>3. HeldCode' /\ RemovesUnheld' /\ EndedClaimsHoldNothing'
    BY <1>3 DEF UseHeld
  <2>4. QED
    BY <2>1, <2>2, <2>3
<1>4. CASE HoldAgain(c)
  <2>1. TypeOK'
    BY <1>4 DEF HoldAgain, Labels, ResolveAttempts
  <2>2. Placed'
    BY <1>4 DEF HoldAgain
  <2>3. HeldCode' /\ RemovesUnheld' /\ EndedClaimsHoldNothing'
    BY <1>4 DEF HoldAgain
  <2>4. QED
    BY <2>1, <2>2, <2>3
<1>5. CASE ClaimNew(c)
  <2>1. TypeOK'
    BY <1>5 DEF ClaimNew, Labels, Phases
  <2>2. Placed'
    BY <1>5 DEF ClaimNew
  <2>3. HeldCode' /\ RemovesUnheld' /\ EndedClaimsHoldNothing'
    BY <1>5 DEF ClaimNew
  <2>4. QED
    BY <2>1, <2>2, <2>3
<1>6. CASE ClaimHit(c)
  <2>1. TypeOK'
    BY <1>6 DEF ClaimHit, Labels
  <2>2. Placed'
    BY <1>6 DEF ClaimHit
  <2>3. HeldCode' /\ RemovesUnheld' /\ EndedClaimsHoldNothing'
    BY <1>6 DEF ClaimHit
  <2>4. QED
    BY <2>1, <2>2, <2>3
<1>7. CASE FailClaim(c)
  <2>1. TypeOK'
    BY <1>7 DEF FailClaim, Labels
  <2>2. Placed'
    BY <1>7 DEF FailClaim
  <2>3. HeldCode' /\ RemovesUnheld' /\ EndedClaimsHoldNothing'
    BY <1>7 DEF FailClaim
  <2>4. QED
    BY <2>1, <2>2, <2>3
<1>8. CASE Refuse(c)
  <2>1. TypeOK'
    BY <1>8 DEF Refuse, Labels
  <2>2. Placed'
    BY <1>8 DEF Refuse
  <2>3. HeldCode' /\ RemovesUnheld' /\ EndedClaimsHoldNothing'
    BY <1>8 DEF Refuse
  <2>4. QED
    BY <2>1, <2>2, <2>3
<1>9. CASE Launch(c)
  <2>1. TypeOK'
    BY <1>9 DEF Launch, Labels
  <2>2. Placed'
    BY <1>9 DEF Launch
  <2>3. HeldCode' /\ RemovesUnheld' /\ EndedClaimsHoldNothing'
    BY <1>9 DEF Launch
  <2>4. QED
    BY <2>1, <2>2, <2>3
<1>10. CASE EndRun(c)
  <2>1. TypeOK'
    BY <1>10 DEF EndRun, Labels
  <2>2. Placed'
    BY <1>10 DEF EndRun
  <2>3. HeldCode' /\ RemovesUnheld' /\ EndedClaimsHoldNothing'
    BY <1>10 DEF EndRun
  <2>4. QED
    BY <2>1, <2>2, <2>3
<1>11. CASE RecordRun(c)
  <2>1. TypeOK'
    BY <1>11 DEF RecordRun, Labels
  <2>2. Placed'
    BY <1>11 DEF RecordRun
  <2>3. HeldCode' /\ RemovesUnheld' /\ EndedClaimsHoldNothing'
    BY <1>11 DEF RecordRun
  <2>4. QED
    BY <2>1, <2>2, <2>3
<1>12. CASE RecordFails(c)
  <2>1. TypeOK'
    BY <1>12 DEF RecordFails, Labels
  <2>2. Placed'
    BY <1>12 DEF RecordFails
  <2>3. HeldCode' /\ RemovesUnheld' /\ EndedClaimsHoldNothing'
    BY <1>12 DEF RecordFails
  <2>4. QED
    BY <2>1, <2>2, <2>3
<1>13. CASE EndRow(c)
  <2>1. TypeOK'
    BY <1>13 DEF EndRow
  <2>2. Placed'
    BY <1>13 DEF EndRow
  <2>3. HeldCode' /\ RemovesUnheld' /\ EndedClaimsHoldNothing'
    BY <1>13 DEF EndRow
  <2>4. QED
    BY <2>1, <2>2, <2>3
<1>14. QED
  BY <1>1, <1>2, <1>3, <1>4, <1>5, <1>6, <1>7, <1>8, <1>9, <1>10, <1>11,
     <1>12, <1>13 DEF Claim

LEMMA PruneSteps ==
  ASSUME CopyInv, Prune \/ Register
  PROVE  CopyInv'
<1> USE UserKinds, CopyAssumption
    DEF CopyInv, TypeOK, Placed, HeldCode, RemovesUnheld, HeldByOther, Live,
        EndedClaimsHoldNothing, disk, user
<1>1. CASE ReleaseFinished
  BY <1>1 DEF ReleaseFinished
<1>2. CASE ListCopies
  BY <1>2 DEF ListCopies
<1>3. ASSUME NEW t \in Trees, BeginRemoval(t)
      PROVE  CopyInv'
  BY <1>3 DEF BeginRemoval, TreeOrNone
<1>4. ASSUME NEW t \in Trees, SkipHeld(t)
      PROVE  CopyInv'
  BY <1>4 DEF SkipHeld
<1>5. CASE RemoveSome
  BY <1>5 DEF RemoveSome
<1>6. CASE EndRemoval
  BY <1>6 DEF EndRemoval, TreeOrNone
<1>7. CASE UnlinkStamps
  BY <1>7 DEF UnlinkStamps
<1>8. CASE PruneDies
  BY <1>8 DEF PruneDies, TreeOrNone
<1>9. CASE Register
  BY <1>9 DEF Register
<1>10. QED
  BY <1>1, <1>2, <1>3, <1>4, <1>5, <1>6, <1>7, <1>8, <1>9 DEF Prune

LEMMA CopyNext == CopyInv /\ [Next]_vars => CopyInv'
<1> SUFFICES ASSUME CopyInv, [Next]_vars
             PROVE  CopyInv'
  OBVIOUS
<1>1. CASE Next
  BY <1>1, ResolverSteps, ClaimSteps, PruneSteps DEF Next
<1>2. CASE UNCHANGED vars
  BY <1>2 DEF vars, disk, user, CopyInv, TypeOK, Placed, HeldCode,
              RemovesUnheld, HeldByOther, Live, EndedClaimsHoldNothing
<1>3. QED
  BY <1>1, <1>2

\* The inductive invariant holds, for any claims, readers and trees and
\* whatever disturbs them.
THEOREM CopyInvariant == Spec => []CopyInv
  BY CopyInit, CopyNext, PTL DEF Spec

\* A run executes a copy recorded under its own claim.
THEOREM RunsHold == Spec => []RunsHeldTree
<1>1. CopyInv => RunsHeldTree
  BY DEF CopyInv, Placed, HeldCode, RunsHeldTree, Running
<1>2. QED
  BY <1>1, CopyInvariant, PTL

\* A claim that ended through its own code holds no copy.
THEOREM EndedHoldNothing == Spec => []EndedClaimsHoldNothing
<1>1. CopyInv => EndedClaimsHoldNothing
  BY DEF CopyInv
<1>2. QED
  BY <1>1, CopyInvariant, PTL

\* No prune takes the copy a run executes.
THEOREM PruneSparesRuns == Spec => PruneSparesRunning
<1>1. ASSUME CopyInv, Next, NEW c \in Claims, Running(c),
             copy[code[c]] = "whole", copy'[code[c]] # "whole"
      PROVE  \E u \in Users : RemoveDamaged(u) /\ target[u] = code[c]
  <2>1. <<c, code[c]>> \in held /\ Live(c) /\ code[c] \in Trees
    BY <1>1 DEF CopyInv, TypeOK, Placed, HeldCode, Running, Live
  <2>2. HeldByOther(code[c])
    BY <2>1 DEF HeldByOther
  <2>3. prune.at = "removing" => prune.tree # code[c]
    BY <1>1, <2>2 DEF CopyInv, RemovesUnheld
  <2>4. copy' # copy
    BY <1>1
  <2>5. \/ \E u \in Users : RenameIntoPlace(u) \/ RemoveDamaged(u)
        \/ RemoveSome \/ EndRemoval
    BY <1>1, <2>4 DEF Next, Resolve, Claim, Prune, StartRead, Pick, CheckCopy,
       JudgeCopy, RefuseTree, StampCopy, EndRead, Crash, ReadEntry, Hold,
       UseHeld, HoldAgain, ClaimNew, ClaimHit, FailClaim, Refuse, Launch,
       EndRun, RecordRun, RecordFails, EndRow, Register, ReleaseFinished,
       ListCopies, BeginRemoval, SkipHeld, UnlinkStamps, PruneDies, disk
  <2>6. ASSUME NEW u \in Users, RenameIntoPlace(u)
        PROVE  FALSE
    BY <1>1, <2>1, <2>6 DEF RenameIntoPlace, CopyInv, TypeOK
  <2>7. ASSUME NEW u \in Users, RemoveDamaged(u)
        PROVE  target[u] = code[c]
    BY <1>1, <2>1, <2>7 DEF RemoveDamaged, CopyInv, TypeOK
  <2>8. ASSUME RemoveSome \/ EndRemoval
        PROVE  FALSE
    BY <1>1, <2>1, <2>3, <2>8 DEF RemoveSome, EndRemoval, CopyInv, TypeOK
  <2>9. QED
    BY <2>5, <2>6, <2>7, <2>8
<1>2. CopyInv /\ [Next]_vars
        => [\A c \in Claims :
             Running(c) /\ copy[code[c]] = "whole" /\ copy'[code[c]] # "whole"
               => \E u \in Users : RemoveDamaged(u) /\ target[u] = code[c]]_vars
  BY <1>1
<1>3. QED
  BY <1>2, CopyInvariant, PTL DEF Spec, PruneSparesRunning
---------------------------------------------------------------------------
(* What the in-use records are for: among any claims and prunes, with no   *)
(* reader and nothing else that disturbs them, a run has its whole copy    *)
(* from its launch to its end.                                             *)

Calm == Readers = {} /\ Disturbances = {}

LEMMA CalmInit == Calm /\ Init => CalmInv
<1> SUFFICES ASSUME Calm, Init
             PROVE  CalmInv
  OBVIOUS
<1>1. CopyInv
  BY CopyInit
<1>2. QED
  BY <1>1, UserKinds DEF Calm, Init, CalmInv, InResolver

\* A held copy is not under removal: it is there whole, or not there.
LEMMA HeldNotDamaged ==
  ASSUME CalmInv, NEW c \in Claims, <<c, entry>> \in held, Live(c)
  PROVE  /\ copy[entry] # "damaged"
         /\ prune.at = "removing" => prune.tree # entry
  BY DEF CalmInv, CopyInv, RemovesUnheld, HeldByOther, TypeOK

LEMMA CalmResolver ==
  ASSUME Calm, CalmInv, CopyInv', NEW c \in Claims, Resolve(c) \/ Crash(c)
  PROVE  CalmInv'
<1> USE UserKinds, HeldNotDamaged
    DEF CalmInv, CopyInv, TypeOK, Placed, Live, Goto, InResolver, disk, user,
        Calm
<1>1. CASE StartRead(c)
  BY <1>1 DEF StartRead
<1>2. CASE Pick(c)
  BY <1>2 DEF Pick
<1>3. CASE CheckCopy(c)
  BY <1>3 DEF CheckCopy
<1>4. CASE RenameIntoPlace(c)
  BY <1>4 DEF RenameIntoPlace
<1>5. CASE JudgeCopy(c)
  BY <1>5 DEF JudgeCopy
<1>6. CASE RemoveDamaged(c)
  BY <1>6 DEF RemoveDamaged
<1>7. CASE RefuseTree(c)
  BY <1>7 DEF RefuseTree, Phases
<1>8. CASE StampCopy(c)
  BY <1>8 DEF StampCopy
<1>9. CASE EndRead(c)
  BY <1>9 DEF EndRead
<1>10. CASE Crash(c)
  BY <1>10 DEF Crash
<1>11. QED
  BY <1>1, <1>2, <1>3, <1>4, <1>5, <1>6, <1>7, <1>8, <1>9, <1>10 DEF Resolve

LEMMA CalmClaim ==
  ASSUME Calm, CalmInv, CopyInv', NEW c \in Claims, Claim(c) \/ EndRow(c)
  PROVE  CalmInv'
<1> USE UserKinds
    DEF CalmInv, CopyInv, TypeOK, Placed, HeldCode, Live, Goto, InResolver,
        disk, user, Calm, Release
<1>1. CASE ReadEntry(c)
  BY <1>1 DEF ReadEntry
<1>2. CASE Hold(c)
  BY <1>2 DEF Hold
<1>3. CASE UseHeld(c)
  BY <1>3 DEF UseHeld
<1>4. CASE HoldAgain(c)
  BY <1>4 DEF HoldAgain
<1>5. CASE ClaimNew(c)
  BY <1>5 DEF ClaimNew
<1>6. CASE ClaimHit(c)
  BY <1>6 DEF ClaimHit
<1>7. CASE FailClaim(c)
  BY <1>7 DEF FailClaim
<1>8. CASE Refuse(c)
  BY <1>8 DEF Refuse
<1>9. CASE Launch(c)
  BY <1>9 DEF Launch
<1>10. CASE EndRun(c)
  BY <1>10 DEF EndRun
<1>11. CASE RecordRun(c)
  BY <1>11 DEF RecordRun
<1>12. CASE RecordFails(c)
  BY <1>12 DEF RecordFails
<1>13. CASE EndRow(c)
  BY <1>13 DEF EndRow
<1>14. QED
  BY <1>1, <1>2, <1>3, <1>4, <1>5, <1>6, <1>7, <1>8, <1>9, <1>10, <1>11,
     <1>12, <1>13 DEF Claim

LEMMA CalmPrune ==
  ASSUME Calm, CalmInv, CopyInv', Prune \/ Register
  PROVE  CalmInv'
<1> USE UserKinds, HeldNotDamaged
    DEF CalmInv, CopyInv, TypeOK, Placed, Live, InResolver, disk, user, Calm
<1>1. CASE ReleaseFinished
  BY <1>1 DEF ReleaseFinished
<1>2. CASE ListCopies
  BY <1>2 DEF ListCopies
<1>3. ASSUME NEW t \in Trees, BeginRemoval(t)
      PROVE  CalmInv'
  BY <1>3 DEF BeginRemoval
<1>4. ASSUME NEW t \in Trees, SkipHeld(t)
      PROVE  CalmInv'
  BY <1>4 DEF SkipHeld
<1>5. CASE RemoveSome
  BY <1>5 DEF RemoveSome
<1>6. CASE EndRemoval
  BY <1>6 DEF EndRemoval
<1>7. CASE UnlinkStamps
  BY <1>7 DEF UnlinkStamps
<1>8. CASE PruneDies
  BY <1>8 DEF PruneDies
<1>9. CASE Register
  BY <1>9 DEF Register
<1>10. QED
  BY <1>1, <1>2, <1>3, <1>4, <1>5, <1>6, <1>7, <1>8, <1>9 DEF Prune

LEMMA CalmNext == Calm /\ CalmInv /\ [Next]_vars => CalmInv'
<1> SUFFICES ASSUME Calm, CalmInv, [Next]_vars
             PROVE  CalmInv'
  OBVIOUS
<1>1. CopyInv'
  BY CopyNext DEF CalmInv
<1>2. CASE Next
  BY <1>1, <1>2, CalmResolver, CalmClaim, CalmPrune DEF Next, Calm, Users
<1>3. CASE UNCHANGED vars
  BY <1>1, <1>3 DEF vars, disk, user, CalmInv, Live
<1>4. QED
  BY <1>2, <1>3

\* Among claims and prunes alone, a run has its whole copy from its launch to
\* its end.
THEOREM RunsKeep == Calm => (Spec => []RunsKeepCopy)
<1> SUFFICES ASSUME Calm
             PROVE  Spec => []RunsKeepCopy
  OBVIOUS
<1>1. Init => CalmInv
  BY CalmInit
<1>2. CalmInv /\ [Next]_vars => CalmInv'
  BY CalmNext
<1>3. CalmInv => RunsKeepCopy
  BY DEF CalmInv, CopyInv, Placed, RunsKeepCopy, Running
<1>4. QED
  BY <1>1, <1>2, <1>3, PTL DEF Spec
=============================================================================
