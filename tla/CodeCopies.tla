----------------------------- MODULE CodeCopies -----------------------------
(***************************************************************************)
(* The shared code copies of wfc: a method version's registered tree is    *)
(* extracted once under .wfc/runs/code/<tree>/, and every claim of the     *)
(* version runs it there.  A claim records the copy it uses (an in-use     *)
(* record) before it looks at it; prune removes a copy inside one write    *)
(* transaction that finds no live record.  Readers (listing, the canvas,   *)
(* the status of a step) extract a copy too, and record nothing.           *)
(*                                                                         *)
(* One version (content identity) of one method: its newest list entry     *)
(* names a tree, and a registration may add an entry of the same identity  *)
(* with another tree (line endings fingerprint alike).                     *)
(***************************************************************************)
EXTENDS Integers, FiniteSets

CONSTANTS
  Claims,       \* the claims, one `run_claim` call each
  Readers,      \* callers of the resolver that hold no record
  Trees,        \* tree hashes of the version's entries
  NoTree,       \* no tree
  Disturbances  \* what else happens: "register", "rowEnds", "pruneDies"

ASSUME CopyAssumption ==
  /\ Claims \cap Readers = {}
  /\ Trees # {} /\ NoTree \notin Trees
  /\ Disturbances \subseteq {"register", "rowEnds", "pruneDies"}

VARIABLES
  entry,     \* the tree of the newest list entry
  copy,      \* a tree's copy on disk
  stamp,     \* the trees whose copy has a stamp
  held,      \* the in-use records: <<claim, tree>>
  row,       \* the run row a claim's records are bound to
  pc,        \* where a user is in the claim or in the resolver
  phase,     \* which call of the resolver it is in
  target,    \* the tree it resolves
  removals,  \* how often it removed a damaged copy in this call
  resolves,  \* resolutions of resolve_held_code so far
  code,      \* the tree whose script a claim is to run
  prune      \* the prune: where it is, and the trees it listed

disk == <<copy, stamp>>
user == <<phase, target, removals, resolves, code>>
vars == <<entry, disk, held, row, pc, user, prune>>

Users == Claims \cup Readers
TreeOrNone == Trees \cup {NoTree}
Phases == {"read", "resolve", "verify", "dispatch"}
InResolver == {"check", "rename", "judge", "remove", "stamp", "resolved"}
Labels == {"idle", "hold", "pick", "claim", "run", "record", "refuse",
           "done", "raised", "dead"} \cup InResolver
ResolveAttempts == 3
RenameAttempts == 2

\* Every variable keeps its type; the attempts stop at their limits.
TypeOK ==
  /\ entry \in Trees
  /\ copy \in [Trees -> {"absent", "damaged", "whole"}]
  /\ stamp \subseteq Trees
  /\ held \subseteq Claims \X Trees
  /\ row \in [Claims -> {"none", "running", "ended"}]
  /\ pc \in [Users -> Labels]
  /\ phase \in [Users -> Phases]
  /\ target \in [Users -> TreeOrNone]
  /\ removals \in [Users -> 0..RenameAttempts]
  /\ resolves \in [Claims -> 0..ResolveAttempts]
  /\ code \in [Claims -> TreeOrNone]
  /\ prune \in [at : {"idle", "list", "loop", "removing"},
                tree : TreeOrNone,
                copies : SUBSET Trees,
                stamps : SUBSET Trees]

\* `_held_clause`: a record bound to no run, or to a running one.
Live(c) == row[c] # "ended"
HeldByOther(t) == \E c \in Claims : <<c, t>> \in held /\ Live(c)

\* The removal of a copy runs while its transaction has the write lock.
Unlocked == prune.at # "removing"

Goto(u, from, to) == pc[u] = from /\ pc' = [pc EXCEPT ![u] = to]
Release(c) == held' = {h \in held : h[1] # c}

-----------------------------------------------------------------------------
(* Bugs the code might have had, each an operator below with one slip.     *)

\* A resolved tree is used without asking whether its record was written.
UseUnheld(c) ==
  /\ phase[c] = "resolve" /\ Goto(c, "resolved", "pick")
  /\ code' = [code EXCEPT ![c] = target[c]]
  /\ phase' = [phase EXCEPT ![c] = "verify"]
  /\ UNCHANGED <<entry, disk, held, row, target, removals, resolves, prune>>

\* The removal relies on the copies listed before its transaction.
BeginRemovalListed(t) ==
  /\ prune.at = "loop" /\ t \in prune.copies
  /\ prune' = [prune EXCEPT !.at = "removing", !.tree = t,
                            !.copies = @ \ {t}]
  /\ stamp' = stamp \ {t}
  /\ UNCHANGED <<entry, copy, held, row, pc, user>>

\* A hit keeps the records of its claim.
ClaimHitKeeps(c) ==
  /\ Unlocked
  /\ Goto(c, "claim", "done")
  /\ UNCHANGED <<entry, disk, held, row, user, prune>>

-----------------------------------------------------------------------------
(* The claim: resolve_held_code.                                           *)

\* A prune that died inside a removal may have left a damaged copy.
Init ==
  /\ entry \in Trees
  /\ copy \in [Trees -> {"absent", "whole"} \cup
                        IF "pruneDies" \in Disturbances
                        THEN {"damaged"} ELSE {}]
  /\ stamp \in SUBSET Trees
  /\ held = {}
  /\ row = [c \in Claims |-> "none"]
  /\ pc = [u \in Users |-> "idle"]
  /\ phase = [u \in Users |-> IF u \in Claims THEN "resolve" ELSE "read"]
  /\ target = [u \in Users |-> NoTree]
  /\ removals = [u \in Users |-> 0]
  /\ resolves = [c \in Claims |-> 0]
  /\ code = [c \in Claims |-> NoTree]
  /\ prune = [at |-> "idle", tree |-> NoTree, copies |-> {}, stamps |-> {}]

\* `version_entry`: the entry is read before anything is extracted.
ReadEntry(c) ==
  /\ Goto(c, "idle", "hold")
  /\ target' = [target EXCEPT ![c] = entry]
  /\ UNCHANGED <<entry, disk, held, row, phase, removals, resolves, code,
                 prune>>

\* `hold_code_copy`, in a transaction of its own.
Hold(c) ==
  /\ Unlocked
  /\ Goto(c, "hold", "pick")
  /\ held' = held \cup {<<c, target[c]>>}
  /\ UNCHANGED <<entry, disk, row, user, prune>>

\* A resolution of a tree the claim holds is the code it runs.
UseHeld(c) ==
  /\ phase[c] = "resolve" /\ <<c, target[c]>> \in held
  /\ Goto(c, "resolved", "pick")
  /\ code' = [code EXCEPT ![c] = target[c]]
  /\ phase' = [phase EXCEPT ![c] = "verify"]
  /\ UNCHANGED <<entry, disk, held, row, target, removals, resolves, prune>>

\* One it does not hold is recorded and resolved again, a bounded number of
\* times.
HoldAgain(c) ==
  /\ phase[c] = "resolve" /\ <<c, target[c]>> \notin held
  /\ resolves' = [resolves EXCEPT ![c] = @ + 1]
  /\ \/ resolves[c] + 1 < ResolveAttempts /\ Goto(c, "resolved", "hold")
     \/ resolves[c] + 1 = ResolveAttempts /\ Goto(c, "resolved", "refuse")
  /\ UNCHANGED <<entry, disk, held, row, phase, target, removals, code, prune>>

-----------------------------------------------------------------------------
(* The resolver: resolve_method_code and extract_version_copy.             *)

StartRead(u) ==
  /\ u \in Readers /\ Goto(u, "idle", "pick")
  /\ UNCHANGED <<entry, disk, held, row, user, prune>>

Pick(u) ==
  /\ Goto(u, "pick", "check")
  /\ target' = [target EXCEPT ![u] = entry]
  /\ removals' = [removals EXCEPT ![u] = 0]
  /\ UNCHANGED <<entry, disk, held, row, phase, resolves, code, prune>>

\* A stamped copy that holds is reused; any other is extracted into a
\* temporary sibling.
CheckCopy(u) ==
  /\ \/ /\ Goto(u, "check", "resolved")
        /\ target[u] \in stamp /\ copy[target[u]] = "whole"
     \/ /\ Goto(u, "check", "rename")
        /\ ~(target[u] \in stamp /\ copy[target[u]] = "whole")
  /\ UNCHANGED <<entry, disk, held, row, user, prune>>

\* The extracted sibling is renamed into place, which fails on a copy there.
RenameIntoPlace(u) ==
  /\ \/ /\ Goto(u, "rename", "stamp") /\ copy[target[u]] = "absent"
        /\ copy' = [copy EXCEPT ![target[u]] = "whole"]
     \/ /\ Goto(u, "rename", "judge") /\ copy[target[u]] # "absent"
        /\ UNCHANGED copy
  /\ UNCHANGED <<entry, stamp, held, row, user, prune>>

\* A copy another extractor put there is used as it stands.
JudgeCopy(u) ==
  /\ \/ Goto(u, "judge", "stamp") /\ copy[target[u]] = "whole"
     \/ Goto(u, "judge", "remove") /\ copy[target[u]] # "whole"
  /\ UNCHANGED <<entry, disk, held, row, user, prune>>

\* What is there is removed, and the rename is tried once more.  A second
\* failure raises: a claim is refused, a dispatched one leaves its row.
RemoveDamaged(u) ==
  /\ pc[u] = "remove"
  /\ copy' = [copy EXCEPT ![target[u]] = "absent"]
  /\ removals' = [removals EXCEPT ![u] = @ + 1]
  /\ \/ removals[u] + 1 < RenameAttempts /\ Goto(u, "remove", "rename")
     \/ /\ removals[u] + 1 = RenameAttempts
        /\ Goto(u, "remove", CASE phase[u] = "read" -> "idle"
                               [] phase[u] = "dispatch" -> "raised"
                               [] phase[u] \in {"resolve", "verify"} ->
                                    "refuse")
  /\ UNCHANGED <<entry, stamp, held, row, phase, target, resolves, code,
                 prune>>

\* git no longer holds the tree, or the list cannot be read.
RefuseTree(u) ==
  /\ pc[u] = "pick" \/ (pc[u] = "rename" /\ removals[u] = 0)
  /\ pc' = [pc EXCEPT ![u] = CASE phase[u] = "read" -> "idle"
                               [] phase[u] = "dispatch" -> "record"
                               [] phase[u] \in {"resolve", "verify"} ->
                                    "refuse"]
  /\ UNCHANGED <<entry, disk, held, row, user, prune>>

StampCopy(u) ==
  /\ Goto(u, "stamp", "resolved")
  /\ stamp' = stamp \cup {target[u]}
  /\ UNCHANGED <<entry, copy, held, row, user, prune>>

\* A reader has what it asked for; the verify rule compares fingerprints,
\* which every entry of the identity shares.
EndRead(u) ==
  /\ \/ phase[u] = "read" /\ Goto(u, "resolved", "idle")
     \/ phase[u] = "verify" /\ Goto(u, "resolved", "claim")
  /\ UNCHANGED <<entry, disk, held, row, user, prune>>

-----------------------------------------------------------------------------
(* The claim transaction, the dispatch and the record phase.               *)

\* A miss: the running row, and the claim's records bound to it.
ClaimNew(c) ==
  /\ Unlocked
  /\ Goto(c, "claim", "pick")
  /\ row' = [row EXCEPT ![c] = "running"]
  /\ phase' = [phase EXCEPT ![c] = "dispatch"]
  /\ UNCHANGED <<entry, disk, held, target, removals, resolves, code, prune>>

\* A hit runs no code.
ClaimHit(c) ==
  /\ Unlocked
  /\ Goto(c, "claim", "done")
  /\ Release(c)
  /\ UNCHANGED <<entry, disk, row, user, prune>>

\* The claim raises before its row is written, or after: the run-archive
\* directory cannot be made, or the document cannot be read again.
FailClaim(c) ==
  /\ \/ Goto(c, "claim", "refuse")
     \/ phase[c] = "dispatch" /\ Goto(c, "pick", "refuse")
  /\ UNCHANGED <<entry, disk, held, row, user, prune>>

Refuse(c) ==
  /\ Unlocked
  /\ Goto(c, "refuse", "done")
  /\ Release(c)
  /\ UNCHANGED <<entry, disk, row, user, prune>>

\* Dispatch resolves once more and launches the claimed script, or none.
Launch(c) ==
  /\ phase[c] = "dispatch"
  /\ \/ target[c] = code[c] /\ Goto(c, "resolved", "run")
     \/ target[c] # code[c] /\ Goto(c, "resolved", "record")
  /\ UNCHANGED <<entry, disk, held, row, user, prune>>

EndRun(c) ==
  /\ Goto(c, "run", "record")
  /\ UNCHANGED <<entry, disk, held, row, user, prune>>

\* The flip (if the row still runs) and the release of the run's records, in
\* one transaction.
RecordRun(c) ==
  /\ Unlocked
  /\ Goto(c, "record", "done")
  /\ row' = [row EXCEPT ![c] = "ended"]
  /\ Release(c)
  /\ UNCHANGED <<entry, disk, user, prune>>

\* An error of a failed run's transaction is swallowed, a completed run's is
\* raised; neither writes anything.
RecordFails(c) ==
  /\ Goto(c, "record", "raised")
  /\ UNCHANGED <<entry, disk, held, row, user, prune>>

-----------------------------------------------------------------------------
(* prune_code_copies.                                                      *)

\* `release_finished_runs`.
ReleaseFinished ==
  /\ prune.at = "idle"
  /\ held' = {h \in held : Live(h[1])}
  /\ prune' = [prune EXCEPT !.at = "list"]
  /\ UNCHANGED <<entry, disk, row, pc, user>>

ListCopies ==
  /\ prune.at = "list"
  /\ LET free == {t \in Trees : ~HeldByOther(t)}
     IN  prune' = [prune EXCEPT
           !.at = "loop",
           !.copies = {t \in free : copy[t] # "absent"},
           !.stamps = {t \in free : t \in stamp /\ copy[t] = "absent"}]
  /\ UNCHANGED <<entry, disk, held, row, pc, user>>

\* `remove_if_unheld`: under the write lock a copy nobody live holds goes,
\* its stamp first.
BeginRemoval(t) ==
  /\ prune.at = "loop" /\ t \in prune.copies
  /\ ~HeldByOther(t)
  /\ prune' = [prune EXCEPT !.at = "removing", !.tree = t,
                            !.copies = @ \ {t}]
  /\ stamp' = stamp \ {t}
  /\ UNCHANGED <<entry, copy, held, row, pc, user>>

SkipHeld(t) ==
  /\ prune.at = "loop" /\ t \in prune.copies
  /\ HeldByOther(t)
  /\ prune' = [prune EXCEPT !.copies = @ \ {t}]
  /\ UNCHANGED <<entry, disk, held, row, pc, user>>

RemoveSome ==
  /\ prune.at = "removing" /\ copy[prune.tree] = "whole"
  /\ copy' = [copy EXCEPT ![prune.tree] = "damaged"]
  /\ UNCHANGED <<entry, stamp, held, row, pc, user, prune>>

\* What an extractor put there meanwhile is another directory, and stays.
EndRemoval ==
  /\ prune.at = "removing"
  /\ prune' = [prune EXCEPT !.at = "loop", !.tree = NoTree]
  /\ copy' = [copy EXCEPT ![prune.tree] =
                IF @ = "whole" THEN "whole" ELSE "absent"]
  /\ UNCHANGED <<entry, stamp, held, row, pc, user>>

UnlinkStamps ==
  /\ prune.at = "loop" /\ prune.copies = {}
  /\ stamp' = stamp \ prune.stamps
  /\ prune' = [prune EXCEPT !.at = "idle", !.stamps = {}]
  /\ UNCHANGED <<entry, copy, held, row, pc, user>>

-----------------------------------------------------------------------------
(* What else happens.                                                      *)

\* A claim's process is killed: its records stay.  A reader just stops.
Crash(u) ==
  /\ pc[u] \notin {"idle", "done", "raised", "dead"}
  /\ pc' = [pc EXCEPT ![u] = IF u \in Readers THEN "idle" ELSE "dead"]
  /\ UNCHANGED <<entry, disk, held, row, user, prune>>

\* A registration adds an entry of the same identity.
Register ==
  /\ "register" \in Disturbances
  /\ entry' \in Trees \ {entry}
  /\ UNCHANGED <<disk, held, row, pc, user, prune>>

\* A run's row ends from outside: its pipeline failed or was cancelled, or
\* its claim was taken over.
EndRow(c) ==
  /\ "rowEnds" \in Disturbances
  /\ Unlocked
  /\ row[c] = "running"
  /\ row' = [row EXCEPT ![c] = "ended"]
  /\ UNCHANGED <<entry, disk, held, pc, user, prune>>

\* The prune's process is killed inside a removal; its transaction is gone.
PruneDies ==
  /\ "pruneDies" \in Disturbances
  /\ prune.at = "removing"
  /\ prune' = [at |-> "idle", tree |-> NoTree, copies |-> {}, stamps |-> {}]
  /\ UNCHANGED <<entry, disk, held, row, pc, user>>

Resolve(u) ==
  \/ StartRead(u) \/ Pick(u) \/ CheckCopy(u) \/ RenameIntoPlace(u)
  \/ JudgeCopy(u) \/ RemoveDamaged(u) \/ RefuseTree(u) \/ StampCopy(u)
  \/ EndRead(u)

Claim(c) ==
  \/ ReadEntry(c) \/ Hold(c) \/ UseHeld(c) \/ HoldAgain(c)
  \/ ClaimNew(c) \/ ClaimHit(c) \/ FailClaim(c) \/ Refuse(c)
  \/ Launch(c) \/ EndRun(c) \/ RecordRun(c) \/ RecordFails(c)

Prune ==
  \/ ReleaseFinished \/ ListCopies
  \/ \E t \in Trees : BeginRemoval(t) \/ SkipHeld(t)
  \/ RemoveSome \/ EndRemoval \/ UnlinkStamps \/ PruneDies

Next ==
  \/ \E u \in Users : Resolve(u) \/ Crash(u)
  \/ \E c \in Claims : Claim(c) \/ EndRow(c)
  \/ Prune \/ Register

Spec == Init /\ [][Next]_vars

-----------------------------------------------------------------------------
(* The inductive invariant.                                                *)

\* What a label knows of its user; a bounded attempt has one left.
Placed ==
  /\ \A u \in Users :
       /\ pc[u] \in InResolver \cup {"hold"} => target[u] \in Trees
       /\ pc[u] \in {"check", "rename", "judge", "remove"} =>
            removals[u] < RenameAttempts
  /\ \A c \in Claims :
       /\ phase[c] # "read"
       /\ phase[c] \in {"resolve", "verify"} => row[c] = "none"
       /\ pc[c] \in {"idle", "hold"} => phase[c] = "resolve"
       /\ pc[c] = "claim" => phase[c] = "verify"
       /\ pc[c] \in {"run", "record"} => phase[c] = "dispatch"
       /\ phase[c] = "resolve"
            /\ pc[c] \in InResolver \cup {"idle", "hold", "pick"}
            => resolves[c] < ResolveAttempts
  /\ \A r \in Readers : phase[r] = "read"
  /\ prune.at = "removing" => prune.tree \in Trees

\* From its resolution on a claim has its record, until it ends or its run
\* does.
HeldCode ==
  \A c \in Claims :
    phase[c] \in {"verify", "dispatch"} /\ pc[c] # "done" =>
      row[c] = "ended" \/ <<c, code[c]>> \in held

-----------------------------------------------------------------------------
(* Properties.                                                             *)

Running(c) == pc[c] = "run" /\ row[c] = "running"

\* While prune removes a copy, file by file, nobody live holds it: a claim
\* that held it before kept it, and one that comes later waits for the
\* removal and extracts it again.
RemovesUnheld == prune.at = "removing" => ~HeldByOther(prune.tree)

\* A run executes a copy recorded under its own claim, through every
\* re-registration between the claim's first look and its launch, so no later
\* prune may take it.
RunsHeldTree == \A c \in Claims : Running(c) => <<c, code[c]>> \in held

\* A copy a run executes leaves the disk by no prune: only an extractor that
\* judged it damaged removes it.
PruneSparesRunning ==
  [][\A c \in Claims :
       Running(c) /\ copy[code[c]] = "whole" /\ copy'[code[c]] # "whole"
         => \E u \in Users : RemoveDamaged(u) /\ target[u] = code[c]]_vars

\* A claim that ended through its own code (a hit, a refusal, a record) has
\* no record left to keep a copy from prune.
EndedClaimsHoldNothing ==
  \A c \in Claims : pc[c] = "done" => \A t \in Trees : <<c, t>> \notin held

\* The inductive invariant of the copies, its conjuncts above.
CopyInv ==
  /\ TypeOK
  /\ Placed
  /\ HeldCode
  /\ RemovesUnheld
  /\ EndedClaimsHoldNothing

\* A run has its whole copy from its launch to its end.
RunsKeepCopy == \A c \in Claims : Running(c) => copy[code[c]] = "whole"

\* Among claims and prunes alone RunsKeepCopy holds, by this: a copy is
\* damaged only while prune removes it, a claim in the resolver holds its
\* tree, so what it finds there is whole, and none gets to remove it.
CalmInv ==
  /\ CopyInv
  /\ \A t \in Trees :
       copy[t] = "damaged" => prune.at = "removing" /\ prune.tree = t
  /\ \A c \in Claims :
       /\ pc[c] \in InResolver \cup {"pick", "claim", "run"} =>
            <<c, entry>> \in held /\ Live(c)
       /\ pc[c] \in InResolver \cup {"hold"} => target[c] = entry
       /\ phase[c] \in {"verify", "dispatch"} => code[c] = entry
       /\ \/ pc[c] \in {"judge", "stamp", "resolved", "claim", "run"}
          \/ pc[c] = "pick" /\ phase[c] # "resolve"
          => copy[entry] = "whole"
       /\ pc[c] # "remove"
=============================================================================
