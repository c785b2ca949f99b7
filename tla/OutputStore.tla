---------------------------- MODULE OutputStore ----------------------------
(***************************************************************************)
(* Where the bytes of a result are, and who moves them.  A run's output is *)
(* written in the run archive (.wfc/runs/<id>/); the archive pass copies   *)
(* it into the content-addressed cache, records its hash and removes the   *)
(* copy; a push worker sends the cache entry to the remote and records the *)
(* push; prune removes run archives and cache entries; a reader finds the  *)
(* bytes wherever they are.  A blob (a pipeline document, an environment)  *)
(* goes into the cache first and gets its row then.                        *)
(*                                                                         *)
(* Each of these runs in processes of its own: every pipeline ends with an *)
(* archive pass over all outputs of the project and has its own push       *)
(* worker, `wfc cache archive`, `push` and `prune` are commands.  They     *)
(* meet only in the rows and in the files.                                 *)
(***************************************************************************)
EXTENDS Integers, FiniteSets

CONSTANTS
  Outputs,          \* rows of run_outputs, one run each
  Blobs,            \* rows of blobs
  Hashes,           \* content hashes
  Content,          \* the hash of a row's bytes
  HashedAtCollect,  \* outputs whose hash collect recorded
  Archivers,        \* archive passes
  Pipelines,        \* background push workers, one per pipeline
  Verbs,            \* `wfc cache push` commands
  Readers,          \* steps that read a row's bytes
  MaxAttempts,      \* PUSH_MAX_ATTEMPTS
  Scenes            \* who acts in a behaviour, and what may disturb them

Rows == Outputs \cup Blobs
Pushers == Pipelines \cup Verbs

ASSUME StoreAssumption ==
  /\ Outputs \cap Blobs = {} /\ Pipelines \cap Verbs = {}
  /\ Content \in [Rows -> Hashes]
  /\ \A b \in Blobs, r \in Rows : Content[r] = Content[b] => r = b
  /\ HashedAtCollect \subseteq Outputs
  /\ MaxAttempts \in Nat \ {0}
  /\ Scenes \subseteq [disturbances : SUBSET {"edits", "stops", "busyPrune"},
                       actors : SUBSET (Archivers \cup Pushers \cup Readers)]

VARIABLES
  stage,     \* an output's run and row; whether a blob has its row
  named,     \* rows that record their content hash
  marked,    \* outputs marked `changed`
  push,      \* a row's push_status
  attempts,  \* a row's push_attempts
  kept,      \* an output's copy in its run archive
  object,    \* the local cache's object of a hash
  remote,    \* hashes the remote holds
  archiver, pusher, prune, reader, \* where each process is, and its locals
  scene      \* the one of Scenes this behaviour is in

rows == <<stage, named, marked>>
pushes == <<push, attempts>>
files == <<kept, object, remote>>
vars == <<rows, pushes, files, archiver, pusher, prune, reader, scene>>

Awaiting == {"pending", "failed"}
Orphaned == Awaiting \cup {"in_flight"}
Statuses == Orphaned \cup {"deferred", "pushed"}
Bytes == {"none", "whole", "changed"}

ArchiverStates == [at : {"idle", "pass", "copy", "record", "remove"},
                   todo : SUBSET Outputs, out : SUBSET Outputs]
PusherStates == [at : {"off", "reset", "tick", "mark", "send", "record", "done"},
                 batch : SUBSET Rows, sent : SUBSET Hashes]
PruneStates == [at : {"idle", "archives", "remove", "scan", "select", "delete"},
                exclude : SUBSET Outputs, doomed : SUBSET Outputs,
                entries : SUBSET Hashes]
ReaderStates == [at : {"idle", "archive", "cache", "pull"},
                 row : SUBSET Rows, pushed : BOOLEAN]

\* The variables' types.
TypeOK ==
  /\ stage \in [Rows -> {"running", "collected", "completed", "failed",
                         "new", "stored", "entered"}]
  /\ named \subseteq Rows /\ marked \subseteq Outputs
  /\ push \in [Rows -> Statuses]
  /\ attempts \in [Rows -> 0..MaxAttempts]
  /\ kept \in [Outputs -> Bytes]
  /\ object \in [Hashes -> Bytes]
  /\ remote \subseteq Hashes
  /\ archiver \in [Archivers -> ArchiverStates]
  /\ pusher \in [Pushers -> PusherStates]
  /\ prune \in PruneStates
  /\ reader \in [Readers -> ReaderStates]
  /\ scene \in Scenes

Disturbed(d) == d \in scene.disturbances
HashesOf(R) == {Content[r] : r \in R}

\* `first_push_status`, with a remote configured.
FirstStatus == "pending"

Idle == [at |-> "idle", todo |-> {}, out |-> {}]
Off == [at |-> "off", batch |-> {}, sent |-> {}]
NoPrune == [at |-> "idle", exclude |-> {}, doomed |-> {}, entries |-> {}]
NotReading == [at |-> "idle", row |-> {}, pushed |-> FALSE]

Init ==
  /\ stage = [r \in Rows |-> IF r \in Outputs THEN "running" ELSE "new"]
  /\ named = {} /\ marked = {}
  /\ push = [r \in Rows |-> "deferred"]
  /\ attempts = [r \in Rows |-> 0]
  /\ kept = [o \in Outputs |-> "none"]
  /\ object = [h \in Hashes |-> "none"]
  /\ remote = {}
  /\ archiver = [a \in Archivers |-> Idle]
  /\ pusher = [p \in Pushers |-> Off]
  /\ prune = NoPrune
  /\ reader = [r \in Readers |-> NotReading]
  /\ scene \in Scenes

---------------------------------------------------------------------------
(* When a prune may run.  Nothing in the code keeps it apart from the      *)
(* others; a user who prunes while nothing runs does.                      *)

Storing == \/ \E o \in Outputs : stage[o] = "running" /\ kept[o] # "none"
           \/ \E b \in Blobs : stage[b] = "stored"
           \/ \E a \in Archivers : archiver[a].at # "idle"
           \/ \E r \in Readers : reader[r].at # "idle"
MayStore == Disturbed("busyPrune") \/ prune.at = "idle"
MayPrune == Disturbed("busyPrune") \/ ~Storing

---------------------------------------------------------------------------
(* A run's output and a blob get their rows                                *)

\* The method writes its output.
Save(o) ==
  /\ MayStore
  /\ stage[o] = "running" /\ kept[o] = "none"
  /\ kept' = [kept EXCEPT ![o] = "whole"]
  /\ UNCHANGED <<rows, pushes, object, remote, archiver, pusher, prune, reader, scene>>

\* run_collect: the outputs are checked, then their rows are written.
Collect(o) ==
  /\ stage[o] = "running" /\ kept[o] # "none"
  /\ stage' = [stage EXCEPT ![o] = "collected"]
  /\ UNCHANGED <<named, marked, pushes, files, archiver, pusher, prune, reader, scene>>

\* complete_run and _enqueue_push, in one write transaction.
Complete(o) ==
  /\ stage[o] = "collected"
  /\ stage' = [stage EXCEPT ![o] = "completed"]
  /\ push' = [push EXCEPT ![o] = FirstStatus]
  /\ UNCHANGED <<named, marked, attempts, files, archiver, pusher, prune, reader, scene>>

\* The run ends otherwise: its output rows stay, without a hash.
FailRun(o) ==
  /\ stage[o] \in {"running", "collected"}
  /\ stage' = [stage EXCEPT ![o] = "failed"]
  /\ UNCHANGED <<named, marked, pushes, files, archiver, pusher, prune, reader, scene>>

\* cache_file: the blob's bytes go to their address.
StoreBlob(b) ==
  /\ MayStore
  /\ stage[b] = "new"
  /\ stage' = [stage EXCEPT ![b] = "stored"]
  /\ object' = [object EXCEPT ![Content[b]] = "whole"]
  /\ UNCHANGED <<named, marked, pushes, kept, remote, archiver, pusher, prune, reader, scene>>

\* enter_blob.
EnterBlob(b) ==
  /\ stage[b] = "stored"
  /\ stage' = [stage EXCEPT ![b] = "entered"]
  /\ named' = named \cup {b}
  /\ push' = [push EXCEPT ![b] = FirstStatus]
  /\ UNCHANGED <<marked, attempts, files, archiver, pusher, prune, reader, scene>>

---------------------------------------------------------------------------
(* The archive pass                                                        *)

Unarchived == {o \in Outputs : stage[o] = "completed" /\ o \notin named \cup marked}

ListUnarchived(a) ==
  /\ MayStore
  /\ a \in scene.actors /\ archiver[a].at = "idle" /\ Unarchived # {}
  /\ archiver' = [archiver EXCEPT ![a] = [at |-> "pass", todo |-> Unarchived, out |-> {}]]
  /\ UNCHANGED <<rows, pushes, files, pusher, prune, reader, scene>>

\* The next row of the list: skipped when its copy is missing.
TakeOutput(a, o) ==
  /\ archiver[a].at = "pass" /\ o \in archiver[a].todo
  /\ archiver' = [archiver EXCEPT ![a] =
       [at |-> IF kept[o] = "none" THEN "pass" ELSE "copy",
        todo |-> @.todo \ {o},
        out |-> IF kept[o] = "none" THEN {} ELSE {o}]]
  /\ UNCHANGED <<rows, pushes, files, pusher, prune, reader, scene>>

\* archive_one: the output is as its run wrote it, and is copied to its address.
StoreCopy(a, o) ==
  /\ archiver[a].at = "copy" /\ archiver[a].out = {o}
  /\ kept[o] = "whole"
  /\ object' = [object EXCEPT ![Content[o]] = "whole"]
  /\ archiver' = [archiver EXCEPT ![a].at = "record"]
  /\ UNCHANGED <<rows, pushes, kept, remote, pusher, prune, reader, scene>>

\* archive_one finds something else, or nothing where it looked a moment ago.
RefuseChanged(a, o) ==
  /\ archiver[a].at = "copy" /\ archiver[a].out = {o}
  /\ kept[o] # "whole"
  /\ marked' = IF kept[o] = "none" /\ o \in HashedAtCollect
               THEN marked ELSE marked \cup {o}
  /\ archiver' = [archiver EXCEPT ![a].at = "pass", ![a].out = {}]
  /\ UNCHANGED <<stage, named, pushes, files, pusher, prune, reader, scene>>

\* The row's hash is committed, by primary key.
RecordHash(a, o) ==
  /\ archiver[a].at = "record" /\ archiver[a].out = {o}
  /\ named' = named \cup {o}
  /\ archiver' = [archiver EXCEPT ![a].at = "remove"]
  /\ UNCHANGED <<stage, marked, pushes, files, pusher, prune, reader, scene>>

\* A bug the checks must catch: the copy is removed before the hash is recorded.
RemoveFromRunFirst(a, o) ==
  /\ archiver[a].at \in {"record", "remove"} /\ archiver[a].out = {o}
  /\ kept' = [kept EXCEPT ![o] = "none"]
  /\ archiver' = IF archiver[a].at = "record" THEN archiver
                 ELSE [archiver EXCEPT ![a].at = "pass", ![a].out = {}]
  /\ UNCHANGED <<rows, pushes, object, remote, pusher, prune, reader, scene>>

\* remove_from_run_archive.
RemoveFromRun(a, o) ==
  /\ archiver[a].at = "remove" /\ archiver[a].out = {o}
  /\ kept' = [kept EXCEPT ![o] = "none"]
  /\ archiver' = [archiver EXCEPT ![a].at = "pass", ![a].out = {}]
  /\ UNCHANGED <<rows, pushes, object, remote, pusher, prune, reader, scene>>

EndPass(a) ==
  /\ archiver[a].at = "pass" /\ archiver[a].todo = {}
  /\ archiver' = [archiver EXCEPT ![a] = Idle]
  /\ UNCHANGED <<rows, pushes, files, pusher, prune, reader, scene>>

\* The pass stops anywhere; a later one lists what is left.
ArchiverStops(a) ==
  /\ Disturbed("stops") /\ archiver[a].at # "idle"
  /\ archiver' = [archiver EXCEPT ![a] = Idle]
  /\ UNCHANGED <<rows, pushes, files, pusher, prune, reader, scene>>

Archive(a) ==
  \/ ListUnarchived(a) \/ EndPass(a) \/ ArchiverStops(a)
  \/ \E o \in Outputs : \/ TakeOutput(a, o) \/ StoreCopy(a, o) \/ RefuseChanged(a, o)
                        \/ RecordHash(a, o) \/ RemoveFromRun(a, o)

---------------------------------------------------------------------------
(* The push workers                                                        *)

At(p, from, to) ==
  pusher[p].at = from /\ pusher' = [pusher EXCEPT ![p].at = to]

\* _reset_orphan_pushes reads the rows of outputs a stopped worker left (one
\* that is pending already has its attempts, and is not written).
ReadOrphans(p) ==
  /\ p \in Pipelines \cap scene.actors /\ pusher[p].at = "off"
  /\ pusher' = [pusher EXCEPT ![p] =
       [Off EXCEPT !.at = "reset",
                   !.batch = {o \in Outputs : stage[o] = "completed"
                                              /\ push[o] \in Orphaned \ {"pending"}}]]
  /\ UNCHANGED <<rows, pushes, files, archiver, prune, reader, scene>>

\* Its commit writes them by primary key.  Blobs are re-armed by a
\* compare-and-set on the status read, which may find some of them changed.
ResetOrphans(p) ==
  /\ pusher[p].at = "reset"
  /\ \E B \in SUBSET {b \in Blobs : b \in named /\ push[b] \in Orphaned} :
       LET R == pusher[p].batch \cup B
       IN  /\ push' = [r \in Rows |-> IF r \in R THEN "pending" ELSE push[r]]
           /\ attempts' = [r \in Rows |-> IF r \in R THEN 0 ELSE attempts[r]]
  /\ pusher' = [pusher EXCEPT ![p].at = "tick", ![p].batch = {}]
  /\ UNCHANGED <<rows, files, archiver, prune, reader, scene>>

\* rearm_for_push, of `wfc cache push`.
Rearm(p) ==
  /\ p \in Verbs \cap scene.actors /\ At(p, "off", "tick")
  /\ push' = [r \in Rows |-> IF r \in named /\ push[r] = "deferred"
                             THEN "pending" ELSE push[r]]
  /\ attempts' = [r \in Rows |-> IF r \in named /\ push[r] \in Awaiting \cup {"deferred"}
                                 THEN 0 ELSE attempts[r]]
  /\ UNCHANGED <<rows, files, archiver, prune, reader, scene>>

\* _snapshot_push_rows.
Pushable == {r \in named : push[r] \in Awaiting /\ attempts[r] < MaxAttempts}

Snapshot(p) ==
  /\ pusher[p].at = "tick" /\ Pushable # {}
  /\ pusher' = [pusher EXCEPT ![p].at = "mark", ![p].batch = Pushable]
  /\ UNCHANGED <<rows, pushes, files, archiver, prune, reader, scene>>

\* `wfc cache push` ends when a tick finds nothing it can push.
NothingLeft(p) ==
  /\ p \in Verbs /\ Pushable = {} /\ At(p, "tick", "done")
  /\ UNCHANGED <<rows, pushes, files, archiver, prune, reader, scene>>

\* _mark_in_flight: outputs blindly, blobs by compare-and-set; what is left
\* of the batch is what this worker pushes.
Mark(p) ==
  /\ pusher[p].at = "mark"
  /\ LET claimed == {r \in pusher[p].batch : r \in Blobs => push[r] \in Awaiting}
     IN  /\ push' = [r \in Rows |-> IF r \in claimed THEN "in_flight" ELSE push[r]]
         /\ pusher' = [pusher EXCEPT
              ![p].batch = claimed,
              ![p].at = IF claimed # {} THEN "send"
                        ELSE IF p \in Verbs THEN "done" ELSE "tick"]
  /\ UNCHANGED <<rows, attempts, files, archiver, prune, reader, scene>>

\* _push_entries: an entry that is not whole in the local cache is refused,
\* and a transfer may fail; each entry fails alone.
Send(p) ==
  /\ pusher[p].at = "send"
  /\ \E ok \in SUBSET {h \in HashesOf(pusher[p].batch) : object[h] = "whole"} :
       /\ remote' = remote \cup ok
       /\ pusher' = [pusher EXCEPT ![p].at = "record", ![p].sent = ok]
  /\ UNCHANGED <<rows, pushes, kept, object, archiver, prune, reader, scene>>

\* A bug the checks must catch: blobs are recorded blindly, as outputs are.
RecordableBlindly(p) == pusher[p].batch

\* Blobs are recorded only while they are in flight.
Recordable(p) == {r \in pusher[p].batch : r \in Blobs => push[r] = "in_flight"}

\* A bug the checks must catch: failed attempts are not counted.
RecordPushesUncounted(p) ==
  /\ pusher[p].at = "record"
  /\ push' = [r \in Rows |-> IF r \notin Recordable(p) THEN push[r]
                             ELSE IF Content[r] \in pusher[p].sent THEN "pushed"
                             ELSE "failed"]
  /\ At(p, "record", "tick")
  /\ UNCHANGED <<rows, attempts, files, archiver, prune, reader, scene>>

\* _record_push_outcomes: outputs blindly.  A command's tick that pushed
\* nothing and had no failure is its last.
RecordPushes(p) ==
  /\ pusher[p].at = "record"
  /\ LET R == Recordable(p)
         Sent(r) == Content[r] \in pusher[p].sent
         idle == /\ \A r \in R : ~Sent(r)
                 /\ HashesOf(pusher[p].batch) \subseteq pusher[p].sent
     IN  /\ push' = [r \in Rows |-> IF r \notin R THEN push[r]
                                    ELSE IF Sent(r) THEN "pushed" ELSE "failed"]
         /\ attempts' = [r \in Rows |->
              IF r \in R /\ ~Sent(r) /\ attempts[r] < MaxAttempts
              THEN attempts[r] + 1 ELSE attempts[r]]
         /\ pusher' = [pusher EXCEPT ![p] =
              [Off EXCEPT !.at = IF p \in Verbs /\ idle THEN "done" ELSE "tick"]]
  /\ UNCHANGED <<rows, files, archiver, prune, reader, scene>>

\* The pipeline ends after its last tick.
StopWorker(p) ==
  /\ p \in Pipelines /\ At(p, "tick", "off")
  /\ UNCHANGED <<rows, pushes, files, archiver, prune, reader, scene>>

\* The process dies and leaves its batch in flight.
PusherDies(p) ==
  /\ Disturbed("stops") /\ pusher[p].at \notin {"off", "done"}
  /\ pusher' = [pusher EXCEPT ![p] = [Off EXCEPT !.at = IF p \in Verbs THEN "done" ELSE "off"]]
  /\ UNCHANGED <<rows, pushes, files, archiver, prune, reader, scene>>

Tick(p) == Snapshot(p) \/ NothingLeft(p) \/ Mark(p) \/ Send(p) \/ RecordPushes(p)
Work(p) == ResetOrphans(p) \/ Tick(p) \/ StopWorker(p)
Push(p) == ReadOrphans(p) \/ Rearm(p) \/ Work(p) \/ PusherDies(p)

---------------------------------------------------------------------------
(* `wfc cache prune --include-local`                                       *)

\* The runs with an output that has no hash are left alone, decided once.
GuardRuns ==
  /\ MayPrune /\ prune.at = "idle"
  /\ prune' = [prune EXCEPT !.at = "archives",
       !.exclude = {o \in Outputs : stage[o] # "running" /\ o \notin named}]
  /\ UNCHANGED <<rows, pushes, files, archiver, pusher, reader, scene>>

\* prune_run_archives: with --all every other folder, without it those that
\* no output row names; listed, then removed.
ListArchives ==
  /\ prune.at = "archives"
  /\ \E all \in BOOLEAN :
       prune' = [prune EXCEPT !.at = "remove",
         !.doomed = {o \in Outputs \ prune.exclude :
                       kept[o] # "none" /\ (all \/ stage[o] = "running")}]
  /\ UNCHANGED <<rows, pushes, files, archiver, pusher, reader, scene>>

RemoveArchives ==
  /\ prune.at = "remove"
  /\ kept' = [o \in Outputs |-> IF o \in prune.doomed THEN "none" ELSE kept[o]]
  /\ prune' = [prune EXCEPT !.at = "scan", !.doomed = {}, !.exclude = {}]
  /\ UNCHANGED <<rows, pushes, object, remote, archiver, pusher, reader, scene>>

\* prune_dvc_cache: the entries, then what the rows need of them, then the
\* removal of the rest.
ScanCache ==
  /\ prune.at = "scan"
  /\ prune' = [prune EXCEPT !.at = "select",
                            !.entries = {h \in Hashes : object[h] # "none"}]
  /\ UNCHANGED <<rows, pushes, files, archiver, pusher, reader, scene>>

\* A bug the checks must catch: what a worker has in flight is not kept.
UnpushedHashesAwaiting == HashesOf({r \in named : push[r] \in Awaiting})

\* unpushed_record_hashes.
UnpushedHashes == HashesOf({r \in named : push[r] # "pushed"})

SelectEntries ==
  /\ prune.at = "select"
  /\ prune' = [prune EXCEPT !.at = "delete", !.entries = @ \ UnpushedHashes]
  /\ UNCHANGED <<rows, pushes, files, archiver, pusher, reader, scene>>

DeleteEntry(h) ==
  /\ prune.at = "delete" /\ h \in prune.entries
  /\ object' = [object EXCEPT ![h] = "none"]
  /\ prune' = [prune EXCEPT !.entries = @ \ {h}]
  /\ UNCHANGED <<rows, pushes, kept, remote, archiver, pusher, reader, scene>>

EndPrune ==
  /\ prune.at = "delete" /\ prune.entries = {}
  /\ prune' = NoPrune
  /\ UNCHANGED <<rows, pushes, files, archiver, pusher, reader, scene>>

Prune == \/ GuardRuns \/ ListArchives \/ RemoveArchives \/ ScanCache
         \/ SelectEntries \/ (\E h \in Hashes : DeleteEntry(h)) \/ EndPrune

---------------------------------------------------------------------------
(* A step that finds a row's bytes: resolve_input, read_entry              *)

Reading(r, at, x) == reader[r].at = at /\ reader[r].row = {x}
Answer(r) == reader' = [reader EXCEPT ![r] = NotReading]

\* The row is read: whether it has its hash, and whether it is pushed.  One
\* marked `changed` is refused.
ReadRow(r, x) ==
  /\ MayStore
  /\ r \in scene.actors /\ reader[r].at = "idle"
  /\ stage[x] \in {"completed", "entered"} /\ x \notin marked
  /\ reader' = [reader EXCEPT ![r] = [at |-> IF x \in named THEN "cache" ELSE "archive",
                                      row |-> {x}, pushed |-> push[x] = "pushed"]]
  /\ UNCHANGED <<rows, pushes, files, archiver, pusher, prune, scene>>

\* _pre_archive_location: the copy in the run archive, checked.
CheckArchive(r, o) ==
  /\ o \in Outputs /\ Reading(r, "archive", o)
  /\ marked' = IF kept[o] = "changed" THEN marked \cup {o} ELSE marked
  /\ Answer(r)
  /\ UNCHANGED <<stage, named, pushes, files, archiver, pusher, prune, scene>>

\* _entry_location and local_path: the entry is whole, or is pulled, or is missing.
CheckCache(r, x) ==
  /\ Reading(r, "cache", x)
  /\ IF object[Content[x]] # "whole" /\ reader[r].pushed
     THEN reader' = [reader EXCEPT ![r].at = "pull"] ELSE Answer(r)
  /\ UNCHANGED <<rows, pushes, files, archiver, pusher, prune, scene>>

\* pull_again: what changed is set aside, the entry pulled and checked.
PullAgain(r, x) ==
  /\ Reading(r, "pull", x)
  /\ \E answers \in BOOLEAN :
     LET h == Content[x]
         pulled == object[h] = "whole" \/ (answers /\ h \in remote)
     IN  object' = [object EXCEPT ![h] = IF pulled THEN "whole" ELSE "none"]
  /\ Answer(r)
  /\ UNCHANGED <<rows, pushes, kept, remote, archiver, pusher, prune, scene>>

Read(r) == \E x \in Rows : \/ ReadRow(r, x) \/ CheckArchive(r, x) \/ CheckCache(r, x)
                           \/ PullAgain(r, x)

---------------------------------------------------------------------------
(* Somebody edits a file wfc keeps                                         *)

EditCopy(o) ==
  /\ Disturbed("edits") /\ kept[o] = "whole" /\ stage[o] # "running"
  /\ kept' = [kept EXCEPT ![o] = "changed"]
  /\ UNCHANGED <<rows, pushes, object, remote, archiver, pusher, prune, reader, scene>>

EditObject(h) ==
  /\ Disturbed("edits") /\ object[h] = "whole"
  /\ object' = [object EXCEPT ![h] = "changed"]
  /\ UNCHANGED <<rows, pushes, kept, remote, archiver, pusher, prune, reader, scene>>

Next ==
  \/ \E o \in Outputs : Save(o) \/ Collect(o) \/ Complete(o) \/ FailRun(o) \/ EditCopy(o)
  \/ \E b \in Blobs : StoreBlob(b) \/ EnterBlob(b)
  \/ \E h \in Hashes : EditObject(h)
  \/ \E a \in Archivers : Archive(a)
  \/ \E p \in Pushers : Push(p)
  \/ \E r \in Readers : Read(r)
  \/ Prune

Spec == Init /\ [][Next]_vars

\* A started worker runs on while its process lives.
FairSpec == Spec /\ \A p \in Pushers : WF_vars(Work(p))

---------------------------------------------------------------------------
(* Properties                                                              *)

\* No bytes are lost: what a collected output's run wrote is in its run archive
\* until its hash is recorded; from then on the cache or the remote has it, as
\* they have every blob with a row.  Nobody who moves bytes removes the last
\* copy: not an archive pass that stops between its steps or meets another,
\* not a prune, not a reader that sets a damaged object aside.
Placed(h) == object[h] # "none" \/ h \in remote
NothingLost ==
  /\ \A o \in Outputs \ named : stage[o] \in {"collected", "completed"} => kept[o] # "none"
  /\ \A r \in named : Placed(Content[r])

\* A row that says `pushed` names a hash the remote holds, although two workers
\* snapshot, send and record the same row.
PushedIsRemote == \A r \in Rows : push[r] = "pushed" => Content[r] \in remote

\* A blob with a row can be had again: it is in the cache, or its row says
\* that the remote has it.  A prune removes what is pushed, so a worker that
\* finds the object gone must not take the row's `pushed` back.
BlobsObtainable ==
  \A b \in Blobs \cap named : object[Content[b]] # "none" \/ push[b] = "pushed"

\* What the three rest on.  A pass removes what is named and names what is
\* placed; a worker reports what it sent; a reader pulls what was pushed when
\* it read the row; a prune has nothing beside it, spares the runs with an
\* output that has no hash, and deletes what every row of it shows pushed.
Held(r) == Content[r] \in remote /\ (r \in Blobs => push[r] = "pushed")
ArchiversSafe ==
  \A a \in Archivers : \A o \in archiver[a].out :
    /\ archiver[a].at = "record" => Placed(Content[o])
    /\ archiver[a].at = "remove" => o \in named
PushersSafe ==
  \A p \in Pushers : /\ pusher[p].sent \subseteq remote
                     /\ pusher[p].at = "reset" => pusher[p].batch \subseteq Outputs
ReadersSafe ==
  \A r \in Readers : /\ reader[r].at = "pull" => reader[r].pushed
                     /\ reader[r].pushed => \A x \in reader[r].row : Held(x)
Unhashed(o) == o \in Outputs \ named /\ stage[o] \in {"collected", "completed"}
PruneSafe ==
  /\ prune.at # "idle" => ~Storing
  /\ prune.at = "archives" => \A o \in Outputs : Unhashed(o) => o \in prune.exclude
  /\ prune.at = "remove" => \A o \in prune.doomed : ~Unhashed(o)
  /\ prune.at = "delete" => \A r \in named : Content[r] \in prune.entries => Held(r)
BlobsPlaced ==
  \A b \in Blobs : /\ stage[b] = "stored" => object[Content[b]] # "none"
                   /\ stage[b] \in {"new", "stored"} => b \notin named
                   /\ b \notin named => push[b] = "deferred"
StoreInv ==
  /\ TypeOK /\ NothingLost /\ PushedIsRemote /\ BlobsObtainable
  /\ ArchiversSafe /\ PushersSafe /\ ReadersSafe /\ PruneSafe
  /\ BlobsPlaced

\* `wfc cache push` ends, whoever else pushes, marks or dies, once no pipeline
\* re-arms the rows it fails on: its loop goes on while a tick made progress.
CommandEnds ==
  <>[](\A p \in Pipelines : pusher[p].at = "off")
    => \A v \in Verbs : (pusher[v].at = "tick") ~> (pusher[v].at = "done")

\* A prune deletes no whole entry that a row names and does not show pushed.
PruneKeepsUnpushed ==
  [][\A r \in named : push[r] # "pushed" /\ object[Content[r]] = "whole"
                        => object'[Content[r]] # "none"]_vars

============================================================================
