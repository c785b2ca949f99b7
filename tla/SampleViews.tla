---------------------------- MODULE SampleViews ----------------------------
(***************************************************************************)
(* A registered sample as the steps of pipelines read it: a directory of   *)
(* views of cache objects under .wfc/workspace/samples/<name>/, which all  *)
(* pipelines of the project share.  A step checks it before it reads: a    *)
(* stamp of stat fields vouches for it, else it is hashed, else it is      *)
(* rebuilt file by file, and stamped.  An in-use record of the pipeline    *)
(* keeps the view; the pipeline that ends last removes it, inside the      *)
(* write transaction that finds no other record.  A removal that fails     *)
(* leaves what it could not remove, and the records go all the same.       *)
(*                                                                         *)
(* The cache entry is taken to be whole or out of reach; OutputStore has   *)
(* what happens to it.  Restores outside a pipeline (`wfc restore-sample`, *)
(* `wfc verify --repair`) record no holder and are left out.               *)
(***************************************************************************)
EXTENDS FiniteSets

CONSTANTS
  Members,    \* the files of the sample
  Pipelines,
  Steps,      \* steps that read it
  PipelineOf  \* the pipeline of a step

Prune == "prune"
Free == "free"

ASSUME ViewAssumption ==
  /\ PipelineOf \in [Steps -> Pipelines]
  /\ {Prune, Free} \cap Pipelines = {}

VARIABLES
  file,    \* the view's files
  stamp,   \* its stamp: there or not, and whether its record is of the files now
  held,    \* pipelines with an in-use record of it
  at,      \* where a user is
  todo,    \* members a user has still to place
  record,  \* whether the stat record a user took is of the files now
  spoilt,  \* users whose check an edit overtook, or was hidden from
  remover, \* who is inside remove_if_unheld's transaction
  releasing, \* pipelines whose removal failed, before release_pipeline
  left,    \* history: a removal failed, and none has worked since
  ended,   \* pipelines that ended
  trusting,  \* [integrity] inputs is "stat-then-hash"
  hardlinked \* views are hardlinks: one that is right is left as it is

users == <<at, todo, record, spoilt>>
project == <<trusting, hardlinked>>
failure == <<releasing, left>>
vars == <<file, stamp, held, users, remover, ended, failure, project>>

Bytes == {"none", "right", "wrong"}
\* "fresh" and "equal" match the files now; "equal" although they were edited:
\* the edit carries the change time the record holds.
Stamps == {"none", "stale", "fresh", "equal"}
Places == {"idle", "check", "hash", "restamp", "drop", "place", "write", "reading",
           "done"}

\* The variables' types.
TypeOK ==
  /\ file \in [Members -> Bytes] /\ stamp \in Stamps
  /\ held \subseteq Pipelines /\ ended \subseteq Pipelines
  /\ at \in [Steps -> Places]
  /\ todo \in [Steps -> SUBSET Members]
  /\ record \in [Steps -> Stamps \ {"none"}]
  /\ spoilt \subseteq Steps
  /\ remover \in Pipelines \cup {Prune, Free}
  /\ releasing \subseteq Pipelines /\ left \in BOOLEAN
  /\ trusting \in BOOLEAN /\ hardlinked \in BOOLEAN

\* What an earlier project life leaves: nothing, a stamped view, or the part of
\* one that a killed restore or removal left, without a stamp.
Init ==
  /\ \/ file \in [Members -> {"none", "right", "wrong"}] /\ stamp = "none"
     \/ file = [m \in Members |-> "right"] /\ stamp = "fresh"
  /\ held = {} /\ ended = {}
  /\ at = [u \in Steps |-> "idle"]
  /\ todo = [u \in Steps |-> {}]
  /\ record = [u \in Steps |-> "stale"]
  /\ spoilt = {}
  /\ remover = Free
  /\ releasing = {} /\ left = FALSE
  /\ trusting \in BOOLEAN /\ hardlinked \in BOOLEAN

Missing == \A m \in Members : file[m] = "none"
Registered == \A m \in Members : file[m] = "right"

\* A file that is written, placed or removed moves its change time, so no stamp
\* matches it any more: a stamp is put in place when the clock is past its record.
\* A record that is no stamp yet matches all the same where the clock has not
\* stepped since it was taken.
Outdated == IF stamp \in {"fresh", "equal"} THEN "stale" ELSE stamp
Touched(unseen) ==
  /\ stamp' = Outdated
  /\ record' = [u \in Steps |-> IF u \in unseen THEN record[u] ELSE "stale"]

Goto(u, from, to) == at[u] = from /\ at' = [at EXCEPT ![u] = to]

---------------------------------------------------------------------------
(* A step checks the view, and may rebuild it                              *)

\* A bug the checks must catch: a step that finds the view whole holds nothing.
HoldMissing(s) ==
  /\ remover = Free /\ PipelineOf[s] \notin ended \cup releasing
  /\ Goto(s, "idle", "check")
  /\ held' = IF Missing THEN held \cup {PipelineOf[s]} ELSE held
  /\ UNCHANGED <<file, stamp, todo, record, spoilt, remover, ended, failure, project>>

\* hold_for_pipeline, a write transaction, before anything is looked at.
Hold(s) ==
  /\ remover = Free /\ PipelineOf[s] \notin ended \cup releasing
  /\ Goto(s, "idle", "check")
  /\ held' = held \cup {PipelineOf[s]}
  /\ UNCHANGED <<file, stamp, todo, record, spoilt, remover, ended, failure, project>>

\* check_entry: the record of the files is taken, then compared with the stamp.
Compare(u) ==
  /\ Goto(u, "check", IF Missing THEN "drop"
                      ELSE IF trusting /\ stamp \in {"fresh", "equal"}
                           THEN "reading" ELSE "hash")
  /\ record' = [record EXCEPT ![u] = "fresh"]
  /\ spoilt' = IF trusting /\ stamp = "equal" THEN spoilt \cup {u} ELSE spoilt
  /\ UNCHANGED <<file, stamp, held, todo, remover, ended, failure, project>>

\* The bytes are hashed; what is not what was registered is restored.
Hash(u) ==
  /\ Goto(u, "hash", IF Registered THEN "restamp" ELSE "drop")
  /\ UNCHANGED <<file, stamp, held, todo, record, spoilt, remover, ended, failure, project>>

\* A bug the checks must catch: the record is taken when the stamp is written.
RestampNow(u) ==
  /\ Goto(u, "restamp", "reading")
  /\ stamp' = "fresh"
  /\ UNCHANGED <<file, held, todo, record, spoilt, remover, ended, failure, project>>

\* The stamp gets the record taken before the bytes were read.
Restamp(u) ==
  /\ Goto(u, "restamp", "reading")
  /\ stamp' = record[u]
  /\ UNCHANGED <<file, held, todo, record, spoilt, remover, ended, failure, project>>

\* restore_verified drops the stamp first.
DropStamp(u) ==
  /\ Goto(u, "drop", "place")
  /\ stamp' = "none"
  /\ todo' = [todo EXCEPT ![u] = Members]
  /\ UNCHANGED <<file, held, record, spoilt, remover, ended, failure, project>>

\* The entry is out of reach, or changed and never pushed.
Refuse(u) ==
  /\ todo[u] = Members /\ Goto(u, "place", "done")
  /\ todo' = [todo EXCEPT ![u] = {}]
  /\ UNCHANGED <<file, stamp, held, record, spoilt, remover, ended, failure, project>>

\* make_view: built beside and renamed over; a hardlink of the object is left.
Place(u, m) ==
  /\ at[u] = "place" /\ m \in todo[u]
  /\ todo' = [todo EXCEPT ![u] = @ \ {m}]
  /\ IF hardlinked /\ file[m] = "right" THEN UNCHANGED <<stamp, record>>
     ELSE \E unseen \in SUBSET Steps : Touched(unseen)
  /\ file' = [file EXCEPT ![m] = "right"]
  /\ UNCHANGED <<held, at, spoilt, remover, ended, failure, project>>

\* Its record is taken when all members are placed, and written as the stamp.
TakeRecord(u) ==
  /\ todo[u] = {} /\ Goto(u, "place", "write")
  /\ record' = [record EXCEPT ![u] = "fresh"]
  /\ UNCHANGED <<file, stamp, held, todo, spoilt, remover, ended, failure, project>>

WriteStamp(u) ==
  /\ Goto(u, "write", "reading")
  /\ stamp' = record[u]
  /\ UNCHANGED <<file, held, todo, record, spoilt, remover, ended, failure, project>>

\* The step ends.
EndStep(u) ==
  /\ Goto(u, "reading", "done")
  /\ UNCHANGED <<file, stamp, held, todo, record, spoilt, remover, ended, failure, project>>

Use(u) == \/ Hold(u) \/ Compare(u) \/ Hash(u) \/ Restamp(u)
          \/ DropStamp(u) \/ Refuse(u) \/ TakeRecord(u) \/ WriteStamp(u) \/ EndStep(u)
          \/ \E m \in Members : Place(u, m)

---------------------------------------------------------------------------
(* The removal: remove_if_unheld's write transaction around                *)
(* remove_restored_view.  No record is written while it is open.           *)

StepsOf(p) == {s \in Steps : PipelineOf[s] = p}
Ending(p) == /\ remover = Free /\ p \notin ended \cup releasing
             /\ \A s \in StepsOf(p) : at[s] \in {"idle", "done"}

\* A bug the checks must catch: the other pipelines' records are not looked at.
OthersUnread(p) == {}

\* The other live holders.
Others(p) == held \ {p}

\* end_pipeline_samples: the pipeline's own record goes; another holder keeps
\* the view.
KeepForOther(p) ==
  /\ Ending(p) /\ (p \in held => Others(p) # {})
  /\ held' = held \ {p} /\ ended' = ended \cup {p}
  /\ UNCHANGED <<file, stamp, users, remover, failure, project>>

BeginRemoval(p) ==
  /\ Ending(p) /\ p \in held /\ Others(p) = {}
  /\ stamp' = "none"
  /\ remover' = p
  /\ UNCHANGED <<file, held, users, ended, failure, project>>

\* An OSError on the way, at the stamp or at a file: the transaction is rolled
\* back and the view left as it is by then, for the next pipeline to check ...
RemovalFails(p) ==
  /\ remover = p \/ (Ending(p) /\ p \in held /\ Others(p) = {})
  /\ remover' = Free
  /\ releasing' = releasing \cup {p} /\ left' = TRUE
  /\ UNCHANGED <<file, stamp, held, users, ended, project>>

\* ... and release_pipeline takes the pipeline's record in a transaction of its own.
Release(p) ==
  /\ remover = Free /\ p \in releasing
  /\ releasing' = releasing \ {p}
  /\ held' = held \ {p} /\ ended' = ended \cup {p}
  /\ UNCHANGED <<file, stamp, users, remover, left, project>>

\* prune removes the views of the entries it deletes, when nobody holds them.
PruneView ==
  /\ remover = Free /\ held = {}
  /\ stamp' = "none"
  /\ remover' = Prune
  /\ UNCHANGED <<file, held, users, ended, failure, project>>

RemoveMember(m) ==
  /\ remover # Free /\ file[m] # "none"
  /\ file' = [file EXCEPT ![m] = "none"]
  /\ Touched({})
  /\ UNCHANGED <<held, at, todo, spoilt, remover, ended, failure, project>>

\* A bug the checks must catch: the removal leaves the pipeline's own record.
CommitHolding ==
  /\ remover # Free /\ Missing
  /\ ended' = ended \cup ({remover} \cap Pipelines)
  /\ remover' = Free /\ left' = FALSE
  /\ UNCHANGED <<file, stamp, held, users, releasing, project>>

Commit ==
  /\ remover # Free /\ Missing
  /\ held' = held \ {remover}
  /\ ended' = ended \cup ({remover} \cap Pipelines)
  /\ remover' = Free /\ left' = FALSE
  /\ UNCHANGED <<file, stamp, users, releasing, project>>

\* The remover dies, or a prune's removal fails; the transaction is rolled back:
\* the record is there for the recovery that ends the pipeline again.
RemoverDies ==
  /\ \/ remover # Free /\ remover' = Free /\ UNCHANGED releasing
     \/ \E p \in releasing : releasing' = releasing \ {p} /\ UNCHANGED remover
  /\ UNCHANGED <<file, stamp, held, users, ended, left, project>>

Remove == PruneView \/ Commit \/ RemoverDies \/ \E m \in Members : RemoveMember(m)
End(p) == KeepForOther(p) \/ BeginRemoval(p) \/ RemovalFails(p) \/ Release(p)

---------------------------------------------------------------------------
(* A user edits a file of the view, or deletes it; not one under           *)
(* construction, which is read-only in a directory its builder has open.   *)

Building(u) == at[u] \in {"place", "write"}

Edit(m) ==
  /\ file[m] # "none" /\ \A u \in Steps : ~Building(u)
  /\ \/ file' = [file EXCEPT ![m] = "none"] /\ Touched({})
     \/ /\ file' = [file EXCEPT ![m] = "wrong"]
        /\ \E unseen \in SUBSET Steps :
             record' = [u \in Steps |-> IF u \in unseen /\ record[u] # "stale"
                                        THEN "equal" ELSE "stale"]
        /\ stamp' = Outdated
  /\ spoilt' = spoilt \cup {u \in Steps : at[u] \in {"restamp", "reading"}}
  /\ UNCHANGED <<held, at, todo, remover, ended, failure, project>>

Next ==
  \/ \E u \in Steps : Use(u)
  \/ \E p \in Pipelines : End(p)
  \/ Remove
  \/ \E m \in Members : Edit(m)

Spec == Init /\ [][Next]_vars

---------------------------------------------------------------------------
(* Properties                                                              *)

\* A step that was let through reads the registered bytes, all of them, to its
\* end, whoever else checks, rebuilds, ends, fails to remove or prunes, unless
\* somebody edits them after its check, or edited them within the clock step of
\* the stamp's record.
ReadsRegistered ==
  \A s \in Steps : at[s] = "reading" /\ s \notin spoilt => Registered

\* A stamp that matches the files vouches for the registered bytes (a later check
\* reads none of them), but for one kind of edit: between the taking of the
\* stamp's record and its writing, within one step of the clock.
StampTrue == stamp = "fresh" => Registered

Gone == Missing /\ stamp = "none"

\* The view is shared and nobody's: when the pipelines that used it have ended,
\* in whatever order and wherever one died, the records are gone and so is it,
\* unless a removal failed: what it left nobody holds.
LastEndRemoves ==
  ended = Pipelines =>
    /\ held = {}
    /\ (\E s \in Steps : at[s] = "done") => Gone \/ left

\* What the three rest on.  Who uses the view holds it, and nobody who ended
\* does; a removal has found no other holder, and no stamp comes back meanwhile;
\* what a builder has placed stays; a record that is still of the files when it
\* becomes the stamp is of the registered bytes; and a view that was used and
\* that nobody holds any more is gone, or a removal of it failed.
Using(s) == at[s] \notin {"idle", "done"}
UsersHold ==
  /\ \A s \in Steps : Using(s) => PipelineOf[s] \in held
  /\ held \cap ended = {}
  /\ \A s \in Steps : PipelineOf[s] \in releasing => ~Using(s)
RemoverAlone ==
  remover # Free =>
    /\ held = {remover} \cap Pipelines /\ stamp = "none"
    /\ \A s \in Steps : ~Using(s)
Rebuilt ==
  \A s \in Steps :
    /\ Building(s) => \A m \in Members \ todo[s] : file[m] = "right"
    /\ at[s] = "write" => todo[s] = {}
    /\ at[s] = "restamp" /\ (record[s] = "fresh" \/ s \notin spoilt) => Registered
NobodysGone ==
  /\ held = {} /\ (\E s \in Steps : at[s] = "done") => Gone \/ left
  /\ releasing \cap held # {} => left

ViewInv == TypeOK /\ UsersHold /\ RemoverAlone /\ Rebuilt /\ NobodysGone

============================================================================
