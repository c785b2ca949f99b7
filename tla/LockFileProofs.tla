--------------------------- MODULE LockFileProofs ---------------------------
(***************************************************************************)
(* Proofs about LockFile, for any number of callers: as long as no process *)
(* has stopped inside a takeover one holds the lock, and the file names it.*)
(***************************************************************************)
EXTENDS LockFile, TLAPS

\* What the files of this lock are.
LEMMA FileFacts ==
  /\ NoFile \in Files /\ ~NoFile.there
  /\ \A p \in Makers : /\ File(p) \in Files
                        /\ [File(p) EXCEPT !.named = TRUE] \in Files
                        /\ File(p).there /\ File(p).maker = p
                        /\ ~File(p).named /\ ~File(p).old
  /\ Procs \subseteq Makers /\ Gone \in Makers
  BY DEF NoFile, File, Files, Makers

LEMMA LockInit == Init /\ ~torn => LockInv
<1> SUFFICES ASSUME Init, ~torn
             PROVE  LockInv
  OBVIOUS
<1>1. TypeOK
  <2>1. guard.there \in BOOLEAN
    BY FileFacts DEF Init, Files
  <2>2. QED
    BY <2>1, FileFacts DEF Init, TypeOK, Labels
<1>2. QED
  BY <1>1 DEF Init, LockInv, GuardsTaker, LockKept, TakenIsGone,
              NobodyClaims, NoFile, Taking

\* The steps of a holder.
LEMMA HolderSteps ==
  ASSUME LockInv, NEW p \in Procs,
         Want(p) \/ Create(p) \/ Name(p) \/ Release(p) \/ Judge(p)
  PROVE  LockInv'
<1> USE LockAssumption
    DEF LockInv, TypeOK, GuardsTaker, LockKept, TakenIsGone, NobodyClaims,
        Taking, Goto, files
<1>1. CASE Want(p)
  BY <1>1 DEF Want, Labels
<1>2. CASE Create(p)
  <2>1. CASE lock.there
    BY <1>2, <2>1 DEF Create, Labels
  <2>2. CASE ~lock.there
    <3>1. /\ pc[p] = "create" /\ pc' = [pc EXCEPT ![p] = "name"]
          /\ lock' = File(p) /\ UNCHANGED <<guard, claimed, torn>>
      BY <1>2, <2>2 DEF Create
    <3>2. TypeOK'
      BY <3>1, FileFacts DEF Labels
    <3>3. \A q \in Procs : pc[q] \notin {"name", "held", "unlinkLock"}
      BY <2>2
    <3>4. \A q \in Procs : pc'[q] = IF q = p THEN "name" ELSE pc[q]
      BY <3>1
    <3>5. GuardsTaker'
      BY <3>1, <3>4
    <3>6. LockKept'
      BY <3>1, <3>3, <3>4, FileFacts
    <3>7. TakenIsGone' /\ NobodyClaims'
      BY <3>3, <3>4
    <3>8. QED
      BY <3>2, <3>5, <3>6, <3>7
  <2>3. QED
    BY <2>1, <2>2
<1>3. CASE Name(p)
  BY <1>3 DEF Name, Labels, Files
<1>4. CASE Release(p)
  BY <1>4 DEF Release, Labels, NoFile, Files, Makers
<1>5. CASE Judge(p)
  BY <1>5 DEF Judge, Labels
<1>6. QED
  BY <1>1, <1>2, <1>3, <1>4, <1>5

\* A gone holder's lock is not that of a process making or holding one.
LEMMA GoneIsNobodys ==
  ASSUME LockInv, HolderGone
  PROVE  lock.there /\ \A q \in Procs : pc[q] \notin {"name", "held"}
  BY LockAssumption DEF LockInv, TypeOK, LockKept, HolderGone, Alive

\* The steps of a waiter inside its takeover.
LEMMA TakerSteps ==
  ASSUME LockInv, NEW p \in Procs,
         CreateGuard(p) \/ Decide(p) \/ UnlinkLock(p) \/ UnlinkGuard(p)
  PROVE  LockInv'
<1>1. CASE Decide(p)
  BY <1>1, GoneIsNobodys
     DEF Decide, LockInv, TypeOK, GuardsTaker, LockKept, TakenIsGone,
         NobodyClaims, Taking, Goto, files, Labels
<1> USE LockAssumption
    DEF LockInv, TypeOK, GuardsTaker, LockKept, TakenIsGone, NobodyClaims,
        Taking, Goto, files
<1>2. CASE CreateGuard(p)
  <2>1. CASE guard.there
    BY <1>2, <2>1 DEF CreateGuard, Labels
  <2>2. CASE ~guard.there
    <3>1. /\ pc[p] = "takeGuard" /\ pc' = [pc EXCEPT ![p] = "decide"]
          /\ guard' = File(p) /\ UNCHANGED <<lock, claimed, torn>>
      BY <1>2, <2>2 DEF CreateGuard
    <3>2. TypeOK'
      BY <3>1, FileFacts DEF Labels
    <3>3. \A q \in Procs : pc[q] \notin Taking
      BY <2>2
    <3>4. \A q \in Procs : pc'[q] = IF q = p THEN "decide" ELSE pc[q]
      BY <3>1
    <3>5. GuardsTaker'
      BY <3>1, <3>3, <3>4, FileFacts
    <3>6. LockKept'
      BY <3>1, <3>4
    <3>7. TakenIsGone' /\ NobodyClaims'
      BY <3>1, <3>4
    <3>8. QED
      BY <3>2, <3>5, <3>6, <3>7
  <2>3. QED
    BY <2>1, <2>2
<1>3. CASE UnlinkLock(p)
  BY <1>3 DEF UnlinkLock, Labels, NoFile, Files, Makers
<1>4. CASE UnlinkGuard(p)
  BY <1>4 DEF UnlinkGuard, Labels, NoFile, Files, Makers
<1>5. QED
  BY <1>1, <1>2, <1>3, <1>4

\* No takeover file is stale, so none is claimed.
LEMMA GuardSteps ==
  ASSUME LockInv, NEW p \in Procs,
         \/ JudgeGuard(p) \/ ClaimGuard(p) \/ Rejudge(p)
         \/ PutBack(p) \/ Drop(p)
  PROVE  LockInv'
  BY DEF LockInv, TypeOK, GuardsTaker, LockKept, TakenIsGone, NobodyClaims,
         Taking, Goto, files, Labels, JudgeGuard, ClaimGuard, Rejudge,
         PutBack, Drop

LEMMA ClockSteps ==
  ASSUME LockInv, ~torn',
         AgeLock \/ AgeGuard \/ \E p \in Procs : Crash(p)
  PROVE  LockInv'
<1> USE LockAssumption
    DEF LockInv, TypeOK, GuardsTaker, LockKept, TakenIsGone, NobodyClaims,
        Taking, files
<1>1. CASE AgeLock
  BY <1>1 DEF AgeLock, Files
<1>2. CASE AgeGuard
  BY <1>2 DEF AgeGuard, Files
<1>3. CASE \E p \in Procs : Crash(p)
  <2>1. PICK p \in Procs : Crash(p)
    BY <1>3
  <2>2. pc[p] \notin Taking
    BY <2>1, Zenon DEF Crash
  <2>3. pc' = [pc EXCEPT ![p] = "dead"] /\ UNCHANGED files
    BY <2>1 DEF Crash
  <2>4. torn' \in BOOLEAN
    BY <2>1, Zenon DEF Crash
  <2>5. QED
    BY <2>2, <2>3, <2>4 DEF Labels
<1>4. QED
  BY <1>1, <1>2, <1>3

LEMMA LockNext == LockInv /\ [Next]_vars /\ ~torn' => LockInv'
<1> SUFFICES ASSUME LockInv, [Next]_vars, ~torn'
             PROVE  LockInv'
  OBVIOUS
<1>1. CASE Next
  BY <1>1, HolderSteps, TakerSteps, GuardSteps, ClockSteps DEF Next, Step
<1>2. CASE UNCHANGED vars
  BY <1>2 DEF vars, files, LockInv, TypeOK, GuardsTaker, LockKept,
              TakenIsGone, NobodyClaims
<1>3. QED
  BY <1>1, <1>2

\* What stopped inside a takeover stays so.
LEMMA TornStays == torn /\ [Next]_vars => torn'
<1> SUFFICES ASSUME torn, [Next]_vars
             PROVE  torn'
  OBVIOUS
<1>1. CASE \E p \in Procs : Crash(p)
  BY <1>1 DEF Crash
<1>2. CASE UNCHANGED torn
  BY <1>2
<1>3. \A p \in Procs : Want(p) \/ Step(p) => UNCHANGED torn
  BY DEF Want, Step, Create, Name, Release, Judge, CreateGuard, Decide,
         UnlinkLock, UnlinkGuard, JudgeGuard, ClaimGuard, Rejudge, PutBack,
         Drop, Goto
<1>4. QED
  BY <1>1, <1>2, <1>3 DEF Next, AgeLock, AgeGuard, vars

\* LockInv holds until a process stops inside a takeover.
THEOREM LockInvariant == Spec => [](~torn => LockInv)
<1>1. Init => (~torn => LockInv)
  BY LockInit
<1>2. (~torn => LockInv) /\ [Next]_vars => (~torn => LockInv)'
  BY LockNext, TornStays
<1>3. QED
  BY <1>1, <1>2, PTL DEF Spec

\* One holder at a time, as long as no process has stopped inside a takeover.
THEOREM OneHolder == Spec => []MutualExclusion
<1>1. (~torn => LockInv) => MutualExclusion
  BY DEF LockInv, LockKept, MutualExclusion
<1>2. QED
  BY <1>1, LockInvariant, PTL

\* As long as that is so, a held lock's file is there and names its holder.
THEOREM HoldersNamed == Spec => []HolderNamed
<1>1. (~torn => LockInv) => HolderNamed
  BY DEF LockInv, LockKept, HolderNamed
<1>2. QED
  BY <1>1, LockInvariant, PTL
=============================================================================
