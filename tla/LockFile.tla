------------------------------ MODULE LockFile ------------------------------
(***************************************************************************)
(* `hold_lock_file` of wfc.execution.pipeline_record: one holder at a      *)
(* time, by the existence of a file that names its holder.  A waiter takes *)
(* over a lock whose holder is gone; a takeover file (the guard) is to let *)
(* one waiter at a time decide that and remove the lock.  A takeover file  *)
(* whose waiter stopped inside it is claimed by a rename and removed.      *)
(*                                                                         *)
(* A file is what a reader can tell of it: who made it, whether it names   *)
(* its holder yet, whether it is older than _UNNAMED_LOCK_STALE_SECONDS.   *)
(***************************************************************************)

CONSTANTS
  Procs,   \* the processes that want the lock, one caller each
  Gone     \* a process that ran before and stopped

ASSUME LockAssumption == Gone \notin Procs

VARIABLES
  pc,       \* where a process is in hold_lock_file
  lock,     \* the lock file
  guard,    \* the takeover file
  claimed,  \* the takeover file a process renamed to a name of its own
  \* history, read by properties only
  torn      \* some process has stopped inside a takeover

files == <<lock, guard, claimed>>
vars  == <<pc, files, torn>>

Makers == Procs \cup {Gone}
NoFile == [maker |-> Gone, named |-> FALSE, old |-> FALSE, there |-> FALSE]
File(p) == [maker |-> p, named |-> FALSE, old |-> FALSE, there |-> TRUE]
Files  == [maker : Makers, named : BOOLEAN, old : BOOLEAN, there : BOOLEAN]
Labels == {"idle", "create", "name", "held", "judge", "takeGuard",
           "staleGuard", "rename", "rejudge", "putBack", "drop",
           "decide", "unlinkLock", "unlinkGuard", "dead"}

\* Inside a takeover: the process has made the guard and not yet removed it.
Taking == {"decide", "unlinkLock", "unlinkGuard"}

\* The files, their makers and the labels are what they can be.
TypeOK ==
  /\ pc \in [Procs -> Labels]
  /\ lock \in Files
  /\ guard \in Files
  /\ claimed \in [Procs -> Files]
  /\ torn \in BOOLEAN

Alive(m) == m \in Procs /\ pc[m] # "dead"

\* A slip: a lock that names no holder yet counts as one whose holder is gone.
HolderGoneUnnamed == lock.there /\ (lock.named => ~Alive(lock.maker))

\* `_lock_holder_gone`: the named process is gone, or no holder is named and
\* the file is old; a file already gone is not a lock whose holder is gone.
HolderGone ==
  /\ lock.there
  /\ IF lock.named THEN ~Alive(lock.maker) ELSE lock.old

\* A step a caller takes itself.
Goto(p, from, to) ==
  /\ pc[p] = from
  /\ pc' = [pc EXCEPT ![p] = to]
  /\ UNCHANGED torn

-----------------------------------------------------------------------------
(* Bugs the code might have had, each an action below with one slip in it. *)

\* The takeover does not decide again inside the guard.
DecideOutside(p) == Goto(p, "decide", "unlinkLock") /\ UNCHANGED files

\* A takeover file never counts as stale.
JudgeGuardNever(p) == Goto(p, "staleGuard", "create") /\ UNCHANGED files

-----------------------------------------------------------------------------
(* hold_lock_file.                                                         *)

\* An earlier holder may have stopped holding the lock, before or after it
\* named itself, and an earlier waiter inside its takeover.
Init ==
  /\ pc = [p \in Procs |-> "idle"]
  /\ lock \in {NoFile, File(Gone), [File(Gone) EXCEPT !.named = TRUE]}
  /\ guard \in {NoFile, File(Gone)}
  /\ claimed = [p \in Procs |-> NoFile]
  /\ torn = guard.there

Want(p) == Goto(p, "idle", "create") /\ UNCHANGED files

\* The exclusive create; a file that exists is judged.
Create(p) ==
  /\ \/ ~lock.there /\ Goto(p, "create", "name") /\ lock' = File(p)
     \/ lock.there /\ Goto(p, "create", "judge") /\ UNCHANGED lock
  /\ UNCHANGED <<guard, claimed>>

\* The payload goes to the file this process made, if it is still there.
Name(p) ==
  /\ Goto(p, "name", "held")
  /\ lock' = IF lock.there /\ lock.maker = p
             THEN [lock EXCEPT !.named = TRUE, !.old = FALSE] ELSE lock
  /\ UNCHANGED <<guard, claimed>>

\* Leaving the block removes the lock file, whoever made it.
Release(p) ==
  /\ Goto(p, "held", "idle")
  /\ lock' = NoFile
  /\ UNCHANGED <<guard, claimed>>

\* A holder that lives is waited on, one poll at a time.
Judge(p) ==
  /\ \/ HolderGone /\ Goto(p, "judge", "takeGuard")
     \/ ~HolderGone /\ Goto(p, "judge", "create")
  /\ UNCHANGED files

-----------------------------------------------------------------------------
(* _take_over_stale_lock.                                                  *)

CreateGuard(p) ==
  /\ \/ ~guard.there /\ Goto(p, "takeGuard", "decide") /\ guard' = File(p)
     \/ guard.there /\ Goto(p, "takeGuard", "staleGuard") /\ UNCHANGED guard
  /\ UNCHANGED <<lock, claimed>>

\* The decision is made again inside the guard.
Decide(p) ==
  /\ \/ HolderGone /\ Goto(p, "decide", "unlinkLock")
     \/ ~HolderGone /\ Goto(p, "decide", "unlinkGuard")
  /\ UNCHANGED files

UnlinkLock(p) ==
  /\ Goto(p, "unlinkLock", "unlinkGuard")
  /\ lock' = NoFile
  /\ UNCHANGED <<guard, claimed>>

UnlinkGuard(p) ==
  /\ Goto(p, "unlinkGuard", "create")
  /\ guard' = NoFile
  /\ UNCHANGED <<lock, claimed>>

-----------------------------------------------------------------------------
(* _remove_stale_guard.                                                    *)

JudgeGuard(p) ==
  /\ \/ guard.there /\ guard.old /\ Goto(p, "staleGuard", "rename")
     \/ ~(guard.there /\ guard.old) /\ Goto(p, "staleGuard", "create")
  /\ UNCHANGED files

\* The rename takes whatever file has the name by now.
ClaimGuard(p) ==
  /\ \/ /\ guard.there /\ Goto(p, "rename", "rejudge")
        /\ claimed' = [claimed EXCEPT ![p] = guard]
        /\ guard' = NoFile
     \/ /\ ~guard.there /\ Goto(p, "rename", "create")
        /\ UNCHANGED <<guard, claimed>>
  /\ UNCHANGED lock

Rejudge(p) ==
  /\ \/ claimed[p].old /\ Goto(p, "rejudge", "drop")
     \/ ~claimed[p].old /\ Goto(p, "rejudge", "putBack")
  /\ UNCHANGED files

\* A fresh file is put back, unless a newer one holds the name.
PutBack(p) ==
  /\ Goto(p, "putBack", "drop")
  /\ guard' = IF guard.there THEN guard ELSE claimed[p]
  /\ UNCHANGED <<lock, claimed>>

Drop(p) ==
  /\ Goto(p, "drop", "create")
  /\ claimed' = [claimed EXCEPT ![p] = NoFile]
  /\ UNCHANGED <<lock, guard>>

-----------------------------------------------------------------------------
(* Stopped processes and the clock.                                        *)

Crash(p) ==
  /\ pc[p] \notin {"idle", "dead"}
  /\ pc' = [pc EXCEPT ![p] = "dead"]
  /\ torn' = (torn \/ pc[p] \in Taking)
  /\ UNCHANGED files

\* A process that lives names its lock and leaves its takeover within
\* _UNNAMED_LOCK_STALE_SECONDS, so an unnamed lock or a takeover file gets
\* old only when its maker has stopped or is no longer at it.
AgeLock ==
  /\ lock.there /\ ~lock.named /\ ~lock.old
  /\ ~(lock.maker \in Procs /\ pc[lock.maker] = "name")
  /\ lock' = [lock EXCEPT !.old = TRUE]
  /\ UNCHANGED <<pc, guard, claimed, torn>>

AgeGuard ==
  /\ guard.there /\ ~guard.old
  /\ ~(guard.maker \in Procs /\ pc[guard.maker] \in Taking)
  /\ guard' = [guard EXCEPT !.old = TRUE]
  /\ UNCHANGED <<pc, lock, claimed, torn>>

\* A caller's own steps once it wants the lock.
Step(p) ==
  \/ Create(p) \/ Name(p) \/ Release(p) \/ Judge(p)
  \/ CreateGuard(p) \/ Decide(p) \/ UnlinkLock(p) \/ UnlinkGuard(p)
  \/ JudgeGuard(p) \/ ClaimGuard(p) \/ Rejudge(p) \/ PutBack(p) \/ Drop(p)

Next ==
  \/ \E p \in Procs : Want(p) \/ Step(p) \/ Crash(p)
  \/ AgeLock \/ AgeGuard

Spec == Init /\ [][Next]_vars

\* Every caller is scheduled while it lives and leaves its block, and time
\* passes.  Wanting the lock and stopping need not happen.
FairSpec ==
  /\ Spec
  /\ \A p \in Procs : WF_vars(Step(p))
  /\ WF_vars(AgeLock) /\ WF_vars(AgeGuard)

-----------------------------------------------------------------------------
(* Properties.                                                             *)

\* One holder at a time, as long as no process has stopped inside a takeover:
\* two waiters that find a dead holder's lock never both take it, and none
\* removes the lock of one that has just entered.
MutualExclusion ==
  ~torn => \A p, q \in Procs : pc[p] = "held" /\ pc[q] = "held" => p = q

\* As long as that is so, the lock file is there while a process holds the lock
\* and names it, so its release removes its own file and a waiter sees that its
\* holder lives.
HolderNamed ==
  ~torn => \A p \in Procs :
             pc[p] = "held" => lock.there /\ lock.named /\ lock.maker = p

\* The lock is not lost: while somebody waits, somebody comes to hold it or
\* every caller has left or stopped, whatever stopped processes left behind.
SomebodyEnters ==
  (\E p \in Procs : pc[p] \notin {"idle", "dead"})
    ~> \/ \E p \in Procs : pc[p] = "held"
       \/ \A p \in Procs : pc[p] \in {"idle", "dead"}

-----------------------------------------------------------------------------
(* What MutualExclusion rests on: inductive as long as no process stops    *)
(* inside a takeover.                                                      *)

\* The guard is that of the one waiter inside the takeover, and not old.
GuardsTaker ==
  /\ guard.there => /\ guard.maker \in Procs
                    /\ pc[guard.maker] \in Taking
                    /\ ~guard.old
  /\ \A p \in Procs : pc[p] \in Taking => guard.there /\ guard.maker = p

\* A process that made the lock and lives has it.
LockKept ==
  \A p \in Procs :
    /\ pc[p] \in {"name", "held"} => lock.there /\ lock.maker = p /\ ~lock.old
    /\ pc[p] = "held" => lock.named
    /\ pc[p] = "name" => ~lock.named

\* The lock a taker removes is nobody's.
TakenIsGone ==
  \A p \in Procs :
    pc[p] = "unlinkLock" =>
      lock.there /\ \A q \in Procs : pc[q] \notin {"name", "held"}

NobodyClaims ==
  \A p \in Procs : pc[p] \notin {"rename", "rejudge", "putBack", "drop"}

\* The conjuncts above.  No run checks it: LockFileProofs proves it, and from
\* it what the run checks.
LockInv ==
  /\ TypeOK
  /\ GuardsTaker
  /\ LockKept
  /\ TakenIsGone
  /\ NobodyClaims
=============================================================================
