----------------------------- MODULE Registration -----------------------------
(***************************************************************************)
(* Registering versions of one method, by several processes at once.       *)
(*                                                                         *)
(* A registration guards the registry's snapshot (restore_changed_snapshot *)
(* in src/wfc/registration/registered_code.py), plans (method.py), commits *)
(* the staged copy and the version list over HEAD (git_commit.py and       *)
(* commit_over_head in version.py), puts the version list, the snapshot's  *)
(* files and the index in step with HEAD, and writes the version rows.     *)
(*                                                                         *)
(* git is shared and takes no lock of wfc's: another registration lands    *)
(* between any two of these steps.  commit_over_head checks that HEAD is   *)
(* its base, runs `git commit`, and afterwards looks at the parent the     *)
(* commit got: a commit built on a HEAD that moved undoes the commit below *)
(* it, and is taken back off HEAD while it is still HEAD.                  *)
(*                                                                         *)
(* A content stands for a code and env fingerprint together with the tree  *)
(* git stores for them; `registered_at', which keeps two entries apart, is *)
(* the registration that made the entry and the attempt it made it in.     *)
(***************************************************************************)
EXTENDS Integers, SequencesExt

CONSTANTS
    Registrars,    \* registrations, each run by a process of its own
    Contents,      \* what a source directory may hold
    Edited,        \* what a hand edit leaves in a registered file
    Nothing,       \* no content: the path does not exist
    NFiles,        \* files of a method's snapshot, replaced in this order
    MaxAttempts,   \* HEAD_MOVED_ATTEMPTS
    MaxCrashes,    \* registrations that may be killed
    MaxEdits,      \* hand edits of the snapshot
    MaxCommits,    \* commits of the user's own, of other paths of the repository
    StartLists     \* version lists the project may start with

(* A version list is numbered from 1 with no gap: what registrations leave, and a project    *)
(* starts with.                                                                              *)
Entries == [label : Nat, content : Contents, at : (Registrars \X Nat) \cup {Nothing}]
Numbered(list) == \A i \in DOMAIN list : list[i].label = i

ASSUME RegistrationAssumption ==
    /\ NFiles \in Nat \ {0} /\ MaxAttempts \in Nat \ {0}
    /\ MaxCrashes \in Nat /\ MaxEdits \in Nat /\ MaxCommits \in Nat
    /\ Edited \notin Contents /\ Nothing \notin Contents \cup {Edited} \cup Registrars
    /\ \A list \in StartLists : list \in Seq(Entries) /\ Numbered(list)

VARIABLES
    commits,    \* every commit git made, in order; commits[1] is the start
    head,       \* the commit HEAD names
    diskList,   \* the version list in the working tree (<<>>: no list)
    files,      \* the snapshot's files in the working tree
    index,      \* the list and the tree the user's index holds
    rows,       \* the version rows: entry, label (0: none), commit (0: none)
    known,      \* the method has its row
    listed,     \* the version lists the working tree has held: what a reader may have read
    reg,        \* each registration's own state
    crashes, edits, others    \* kills, hand edits and the user's commits so far

vars == <<commits, head, diskList, files, index, rows, known, listed, reg, crashes, edits, others>>
registry == <<diskList, files, index, listed>>
database == <<rows, known>>
faults == <<crashes, edits, others>>

Files == 1..NFiles
NoEntry == [label |-> 0, content |-> Nothing, at |-> Nothing]
Newest(list) == IF list = <<>> THEN NoEntry ELSE Last(list)

(* A commit's tree is Nothing when it holds no snapshot; `base' is the HEAD its maker built  *)
(* on; `past' is the commit with those below it, which it names by naming its parent.        *)
StartCommit(list) ==
    [list |-> list, tree |-> Newest(list).content, parent |-> 0, base |-> 0, by |-> Nothing,
     past |-> {1}]
Idle == [pc |-> "idle", newest |-> NoEntry, planned |-> Nothing, content |-> Nothing, same |-> FALSE,
         restoring |-> FALSE, base |-> 0, list |-> <<>>, entry |-> NoEntry, made |-> 0,
         attempts |-> 0, file |-> 1]

Init ==
    \E list \in StartLists :
        /\ commits = <<StartCommit(list)>> /\ head = 1
        /\ diskList = list
        /\ files = [f \in Files |-> Newest(list).content]
        /\ index = [list |-> list, tree |-> Newest(list).content]
        /\ rows = {[entry |-> list[i], label |-> i, commit |-> 1] : i \in DOMAIN list}
        /\ known = (list # <<>>) /\ listed = {list}
        /\ reg = [r \in Registrars |-> Idle]
        /\ crashes = 0 /\ edits = 0 /\ others = 0

(* The commits git finds from HEAD down: HEAD and, with a commit, its parent. *)
History == commits[head].past

At(r, pc) == reg[r].pc = pc
Goto(r, pc) == reg' = [reg EXCEPT ![r].pc = pc]
Ended == {"ok", "refused", "stopped", "gaveUp", "stuck", "unseen", "dead"}

-------------------------------------------------------------------------------
(***************************************************************************)
(* Bugs the code might have had, each an operator below with one slip.     *)
(***************************************************************************)

(* The list in the working tree is extended, whatever list HEAD holds. *)
ListOnDisk(base) == diskList

(* Only the version list is compared with the plan, not the source. *)
StillNewest(r, content) == Newest(diskList).label = reg[r].newest.label

(* The registry is put in step once, wherever HEAD is by then. *)
SyncOnce(r) ==
    /\ At(r, "syncCheck")
    /\ Goto(r, "rows")
    /\ UNCHANGED <<commits, head, registry, database, faults>>

(* A row whose entry left the list keeps its label. *)
SyncedKeeping(list, entry, commit) ==
    LET missing == {e \in ToSet(list) : \A row \in rows : row.entry # e}
    IN  rows \cup {[entry |-> e, label |-> e.label,
                    commit |-> IF e = entry THEN commit ELSE 0] : e \in missing}

-------------------------------------------------------------------------------
(* The guard: a snapshot that is not the newest version's is put back and the registration stops. *)

Guard(r) ==
    /\ At(r, "idle")
    /\ LET newest == Newest(diskList)
           present == \E f \in Files : files[f] # Nothing
       IN  reg' = [reg EXCEPT ![r].newest = newest,
                   ![r].pc = IF newest # NoEntry THEN "compare"
                             ELSE IF present /\ rows = {} THEN "refused" ELSE "plan"]
    /\ UNCHANGED <<commits, head, registry, database, faults>>

(* Whether some commit git can name holds the entry's tree (commit_with_tree). *)
HeldByCommit(entry) ==
    \/ \E row \in rows : row.entry = entry /\ row.commit # 0
    \/ \E i \in History : commits[i].tree = entry.content

Differs(content) == \E f \in Files : files[f] # content

Compare(r) ==
    /\ At(r, "compare")
    /\ Goto(r, IF HeldByCommit(reg[r].newest) /\ Differs(reg[r].newest.content)
               THEN "restore" ELSE "plan")
    /\ UNCHANGED <<commits, head, registry, database, faults>>

Restore(r) ==
    /\ At(r, "restore")
    /\ files' = [f \in Files |-> reg[r].newest.content]
    /\ index' = [index EXCEPT !.tree = reg[r].newest.content]
    /\ reg' = [reg EXCEPT ![r].pc = "readHead", ![r].restoring = TRUE,
                          ![r].content = reg[r].newest.content]
    /\ UNCHANGED <<commits, head, diskList, listed, database, faults>>

(* What a registration that stops trying does: a restore stops it either way. *)
Stop(r, pc) == IF reg[r].restoring THEN "stopped" ELSE pc

-------------------------------------------------------------------------------
(* The plan and its check: nothing is written. *)

Plan(r) ==
    /\ At(r, "plan")
    /\ \E content \in Contents :
           reg' = [reg EXCEPT ![r].pc = "confirm", ![r].planned = content,
                              ![r].newest = Newest(diskList),
                              ![r].same = (Newest(diskList).content = content)]
    /\ UNCHANGED <<commits, head, registry, database, faults>>

(* A version to add that nobody confirmed. *)
Decline(r) ==
    /\ At(r, "confirm") /\ ~reg[r].same
    /\ Goto(r, "stopped")
    /\ UNCHANGED <<commits, head, registry, database, faults>>

(* The plan's token: the fingerprints and the label of the newest version, whatever entry    *)
(* has it.                                                                                   *)
StillPlanned(r, content) ==
    content = reg[r].planned /\ Newest(diskList).label = reg[r].newest.label

(* The copy is built again from the source, which may have changed, and the newest version   *)
(* read again; the same content commits that version's tree, not the copy's.                 *)
Stage(r) ==
    /\ At(r, "confirm")
    /\ \E content \in Contents :
           reg' = [reg EXCEPT ![r].newest = Newest(diskList),
                     ![r].content = IF reg[r].same THEN Newest(diskList).content ELSE content,
                     ![r].pc = IF StillPlanned(r, content) THEN "build" ELSE "refused"]
    /\ UNCHANGED <<commits, head, registry, database, faults>>

(* The same content as a newest version HEAD holds: nothing to commit.  Otherwise the tree   *)
(* git would commit is built; a new version's is refused when git would leave a file out.    *)
Build(r) ==
    /\ At(r, "build")
    /\ \/ /\ reg[r].same /\ commits[head].tree = reg[r].newest.content
          /\ Goto(r, "rows")
       \/ /\ ~(reg[r].same /\ commits[head].tree = reg[r].newest.content)
          /\ Goto(r, "readHead")
       \/ /\ ~reg[r].same
          /\ Goto(r, "refused")
    /\ UNCHANGED <<commits, head, registry, database, faults>>

-------------------------------------------------------------------------------
(* The commit over HEAD, for a registration and for a restore. *)

(* The version list HEAD holds, the one on disk when HEAD holds none. *)
ListAt(base) == IF commits[base].list = <<>> THEN diskList ELSE commits[base].list

NextEntry(r, list) ==
    [label |-> Newest(list).label + 1, content |-> reg[r].content, at |-> <<r, reg[r].attempts>>]

(* The list the commit will hold: a restore commits no list of its own. *)
ListOver(r, base) ==
    IF reg[r].restoring THEN commits[base].list
    ELSE IF reg[r].same THEN ListAt(base)
    ELSE Append(ListAt(base), NextEntry(r, ListAt(base)))

ReadHead(r) ==
    /\ At(r, "readHead")
    /\ LET adds == ~reg[r].same /\ ~reg[r].restoring
       IN  reg' = [reg EXCEPT ![r].pc = "check", ![r].base = head,
                   ![r].list = ListOver(r, head),
                   ![r].entry = IF adds THEN Last(ListOver(r, head)) ELSE NoEntry]
    /\ UNCHANGED <<commits, head, registry, database, faults>>

(* HEAD is not the base: read it again, or give up. *)
Moved(r) ==
    LET again == reg[r].attempts + 1 < MaxAttempts
    IN  reg' = [reg EXCEPT ![r].pc = IF again THEN "readHead" ELSE Stop(r, "gaveUp"),
                           ![r].attempts = IF again THEN @ + 1 ELSE 0,
                           ![r].list = <<>>, ![r].entry = NoEntry]

Check(r) ==
    /\ At(r, "check")
    /\ LET base == commits[reg[r].base]
           unchanged == reg[r].list = base.list /\ reg[r].content = base.tree
       IN  IF head # reg[r].base THEN Moved(r)
           ELSE Goto(r, IF unchanged THEN Stop(r, "rows") ELSE "gitCommit")
    /\ UNCHANGED <<commits, head, registry, database, faults>>

(* What a commit over HEAD has below it. *)
PastOverHead == commits[head].past \cup {Len(commits) + 1}

(* `git commit' over the temporary index: its parent is the HEAD of that moment. *)
Committed(r, pc) ==
    /\ commits' = Append(commits, [list |-> reg[r].list, tree |-> reg[r].content,
                                   parent |-> head, base |-> reg[r].base, by |-> r,
                                   past |-> PastOverHead])
    /\ head' = Len(commits')
    /\ reg' = [reg EXCEPT ![r].pc = pc, ![r].made = Len(commits')]

GitCommit(r) ==
    /\ At(r, "gitCommit")
    /\ Committed(r, "verify")
    /\ UNCHANGED <<registry, database, faults>>

(* A hook refuses the commit, or git fails: a HEAD that moved is read again. *)
HookRefuses(r) ==
    /\ At(r, "gitCommit")
    /\ IF head = reg[r].base THEN Goto(r, "refused") ELSE Moved(r)
    /\ UNCHANGED <<commits, head, registry, database, faults>>

(* git does not come back from a hook after the commit in time, or its summary names no      *)
(* commit: the registration is refused, and the commit it does not know of stays.            *)
CommitUnseen(r) ==
    /\ At(r, "gitCommit")
    /\ Committed(r, "unseen")
    /\ UNCHANGED <<registry, database, faults>>

Landed(r) ==
    /\ At(r, "verify") /\ commits[reg[r].made].parent = reg[r].base
    /\ reg' = [reg EXCEPT ![r].pc = Stop(r, "syncHead"), ![r].attempts = 0]
    /\ UNCHANGED <<commits, head, registry, database, faults>>

(* The commit landed on a HEAD that had moved: it is taken back while it is still HEAD. *)
TakeBack(r) ==
    /\ At(r, "verify") /\ commits[reg[r].made].parent # reg[r].base
    /\ head = reg[r].made
    /\ head' = commits[reg[r].made].parent
    /\ Moved(r)
    /\ UNCHANGED <<commits, registry, database, faults>>

(* Another commit followed it: the user is told to revert it. *)
CannotTakeBack(r) ==
    /\ At(r, "verify") /\ commits[reg[r].made].parent # reg[r].base
    /\ head # reg[r].made
    /\ Goto(r, "stuck")
    /\ UNCHANGED <<commits, head, registry, database, faults>>

-------------------------------------------------------------------------------
(* The registry put in step with HEAD (_sync_to_head): the list, each file, the index. *)

SyncHead(r) ==
    /\ At(r, "syncHead")
    /\ reg' = [reg EXCEPT ![r].pc = "syncList", ![r].base = head, ![r].file = 1]
    /\ UNCHANGED <<commits, head, registry, database, faults>>

SyncList(r) ==
    /\ At(r, "syncList")
    /\ diskList' = IF commits[reg[r].base].list = <<>> THEN diskList
                   ELSE commits[reg[r].base].list
    /\ listed' = listed \cup {diskList'}
    /\ Goto(r, "syncFile")
    /\ UNCHANGED <<commits, head, files, index, database, faults>>

SyncFile(r) ==
    /\ At(r, "syncFile")
    /\ files' = [files EXCEPT ![reg[r].file] = commits[reg[r].base].tree]
    /\ reg' = [reg EXCEPT ![r].pc = IF reg[r].file = NFiles THEN "syncIndex" ELSE "syncFile",
                          ![r].file = IF reg[r].file = NFiles THEN 1 ELSE @ + 1]
    /\ UNCHANGED <<commits, head, diskList, listed, index, database, faults>>

SyncIndex(r) ==
    /\ At(r, "syncIndex")
    /\ index' = [list |-> commits[reg[r].base].list, tree |-> commits[reg[r].base].tree]
    /\ Goto(r, "syncCheck")
    /\ UNCHANGED <<commits, head, diskList, listed, files, database, faults>>

SyncCheck(r) ==
    /\ At(r, "syncCheck")
    /\ LET again == reg[r].attempts + 1 < MaxAttempts
       IN  reg' = [reg EXCEPT
               ![r].pc = IF head = reg[r].base THEN "rows"
                         ELSE IF again THEN "syncHead" ELSE "gaveUp",
               ![r].attempts = IF head # reg[r].base /\ again THEN @ + 1 ELSE 0]
    /\ UNCHANGED <<commits, head, registry, database, faults>>

-------------------------------------------------------------------------------
(* The rows (sync_rows_in): a row per entry of the list on disk, matched by the entry; a row *)
(* whose entry left the list loses its label; the registered entry's row takes its commit.   *)

Synced(list, entry, commit) ==
    LET CommitOf(row) == IF row.entry = entry /\ row.commit = 0 THEN commit ELSE row.commit
        kept == {[entry |-> row.entry, commit |-> CommitOf(row),
                  label |-> IF Contains(list, row.entry) THEN row.entry.label ELSE 0] :
                    row \in rows}
        missing == {e \in ToSet(list) : \A row \in rows : row.entry # e}
    IN  kept \cup {[entry |-> e, label |-> e.label,
                    commit |-> IF e = entry THEN commit ELSE 0] : e \in missing}

Rows(r) ==
    /\ At(r, "rows")
    /\ known' = (known \/ diskList # <<>>)
    /\ rows' = IF diskList = <<>> THEN rows
               ELSE Synced(diskList, reg[r].entry, reg[r].made)
    /\ Goto(r, IF diskList = <<>> THEN "refused" ELSE "ok")
    /\ UNCHANGED <<commits, head, registry, faults>>

(* Any reader of a method's versions syncs the rows first, with the list it read before its  *)
(* transaction: one that may have been replaced since.                                       *)
ReadVersions ==
    /\ known
    /\ \E list \in listed \ {<<>>} : rows' = Synced(list, NoEntry, 0)
    /\ UNCHANGED <<commits, head, registry, known, reg, faults>>

-------------------------------------------------------------------------------
(* Around them: a registration is killed; someone edits a registered file, or commits. *)

Die(r) ==
    /\ reg[r].pc \notin Ended \cup {"idle"} /\ crashes < MaxCrashes
    /\ crashes' = crashes + 1
    /\ Goto(r, "dead")
    /\ UNCHANGED <<commits, head, registry, database, edits, others>>

Edit(f) ==
    /\ edits < MaxEdits /\ files[f] \notin {Nothing, Edited}
    /\ edits' = edits + 1
    /\ files' = [files EXCEPT ![f] = Edited]
    /\ UNCHANGED <<commits, head, diskList, listed, index, database, reg, crashes, others>>

(* The user commits something else: HEAD moves, and holds the list and the tree it held. *)
OtherCommit ==
    /\ others < MaxCommits
    /\ others' = others + 1
    /\ commits' = Append(commits, [commits[head] EXCEPT !.parent = head, !.base = head,
                                                       !.by = Nothing, !.past = PastOverHead])
    /\ head' = Len(commits')
    /\ UNCHANGED <<registry, database, reg, crashes, edits>>

Step(r) ==
    \/ Guard(r) \/ Compare(r) \/ Restore(r)
    \/ Plan(r) \/ Decline(r) \/ Stage(r) \/ Build(r)
    \/ ReadHead(r) \/ Check(r) \/ GitCommit(r) \/ HookRefuses(r) \/ CommitUnseen(r)
    \/ Landed(r) \/ TakeBack(r) \/ CannotTakeBack(r)
    \/ SyncHead(r) \/ SyncList(r) \/ SyncFile(r) \/ SyncIndex(r) \/ SyncCheck(r)
    \/ Rows(r)

Next ==
    \/ \E r \in Registrars : Step(r) \/ Die(r)
    \/ ReadVersions \/ OtherCommit
    \/ \E f \in Files : Edit(f)

Spec == Init /\ [][Next]_vars

-------------------------------------------------------------------------------
(* What the commits, the rows and each registration rest on.                                 *)

Early == {"idle", "compare", "restore", "plan", "confirm", "build"}
Making == {"check", "gitCommit"}
Syncing == {"syncHead", "syncList", "syncFile", "syncIndex", "syncCheck"}

Trees == Contents \cup {Nothing}
Commits == [list : Seq(Entries), tree : Trees, parent : Nat, base : Nat,
            by : Registrars \cup {Nothing}, past : SUBSET (Nat \ {0})]
Pcs == Early \cup {"readHead"} \cup Making \cup {"verify"} \cup Syncing \cup {"rows"} \cup Ended
Regs == [pc : Pcs,
         newest : Entries \cup {NoEntry}, planned : Trees, content : Trees, same : BOOLEAN,
         restoring : BOOLEAN, base : Nat, list : Seq(Entries), entry : Entries \cup {NoEntry},
         made : Nat, attempts : Nat, file : Files]

TypeOK ==
    /\ commits \in Seq(Commits) /\ head \in DOMAIN commits
    /\ diskList \in Seq(Entries)
    /\ files \in [Files -> Trees \cup {Edited}]
    /\ index \in [list : Seq(Entries), tree : Trees]
    /\ rows \subseteq [entry : Entries, label : Nat, commit : Nat]
    /\ known \in BOOLEAN /\ listed \subseteq Seq(Entries)
    /\ reg \in [Registrars -> Regs]
    /\ crashes \in Nat /\ edits \in Nat /\ others \in Nat

(* A commit built on a HEAD that had moved: it undoes the commit below it. *)
Misplaced(i) == commits[i].parent # commits[i].base

(* A commit is made over an earlier one, has below it what its parent has, and keeps the     *)
(* versions of the list it was built on.                                                     *)
CommitsOrdered ==
    \A i \in DOMAIN commits :
        LET c == commits[i]
        IN  /\ c.past \subseteq 1..i
            /\ IF i = 1 THEN c.parent = 0 /\ c.base = 0 /\ c.by = Nothing /\ c.past = {1}
               ELSE /\ c.parent \in 1..(i - 1) /\ c.base \in 1..(i - 1)
                    /\ c.past = commits[c.parent].past \cup {i}
                    /\ ToSet(commits[c.base].list) \subseteq ToSet(c.list)
                    /\ c.by = Nothing => ~Misplaced(i)

ListsNumbered ==
    /\ \A i \in DOMAIN commits : Numbered(commits[i].list)
    /\ Numbered(diskList) /\ Numbered(index.list)
    /\ \A list \in listed : Numbered(list)

(* An entry has one row, a label one row. *)
RowsDistinct ==
    \A a, b \in rows :
        a.entry = b.entry \/ (a.label = b.label /\ a.label # 0) => a = b

(* A registration commits nothing before its plan is confirmed, and then its plan's content, *)
(* or the newest version's.                                                                  *)
Sourced(r) ==
    /\ reg[r].pc \in {"compare", "restore"} => reg[r].newest # NoEntry
    /\ reg[r].pc = "confirm" /\ reg[r].same => reg[r].planned = reg[r].newest.content
    /\ reg[r].pc \in {"build", "readHead", "verify"} \cup Making =>
           /\ reg[r].content # Nothing
           /\ ~reg[r].restoring =>
                  reg[r].content = IF reg[r].same THEN reg[r].newest.content ELSE reg[r].planned
    /\ reg[r].pc \in Early => ~reg[r].restoring /\ reg[r].made = 0
    /\ reg[r].restoring => reg[r].pc \notin Syncing \cup {"rows", "ok"}
    /\ reg[r].pc \in Early \cup {"readHead"} => reg[r].entry = NoEntry

(* What a registration is about to commit ... *)
MayCommit(r) ==
    LET held == commits[reg[r].base].list
    IN  /\ reg[r].list # <<>> /\ Numbered(reg[r].list)
        /\ ToSet(held) \subseteq ToSet(reg[r].list)
        /\ reg[r].entry # NoEntry =>
               reg[r].list # held /\ Contains(reg[r].list, reg[r].entry)
        /\ reg[r].restoring => reg[r].list = held

(* ... and what it committed last. *)
Made(r) ==
    /\ reg[r].pc \in Making \cup Syncing \cup {"verify"} => reg[r].base \in DOMAIN commits
    /\ reg[r].pc \in Making => MayCommit(r)
    /\ reg[r].made # 0 => reg[r].made \in DOMAIN commits /\ commits[reg[r].made].by = r
    /\ reg[r].pc \in Syncing \cup {"verify"} => reg[r].made # 0
    /\ reg[r].pc = "verify" => commits[reg[r].made].base = reg[r].base
    /\ reg[r].pc \in Syncing => ~Misplaced(reg[r].made)
    /\ reg[r].pc = "syncList" => reg[r].file = 1
    /\ \A i \in DOMAIN commits : commits[i].by = r => reg[r].made # 0

(* A registration that committed and has something to show for it: its commit stays in       *)
(* HEAD's history, and the entry it added in every list above, up to a misplaced commit.     *)
Landing(r) ==
    \/ reg[r].pc \in Syncing \cup {"verify"}
    \/ reg[r].pc \in {"rows", "ok", "gaveUp"} /\ reg[r].entry # NoEntry /\ reg[r].made # 0
HeldFrom(entry, i) ==
    \A j \in History : j >= i => \/ Contains(commits[j].list, entry)
                                 \/ \E k \in History : k <= j /\ Misplaced(k)
CommitStays(r) ==
    Landing(r) => /\ reg[r].made \in History
                  /\ reg[r].entry # NoEntry => HeldFrom(reg[r].entry, reg[r].made)

(* A misplaced commit in HEAD's history: its maker is about to take it back, was killed      *)
(* before it could, has told the user to revert it, or does not know of it.                  *)
Answered(i) ==
    LET maker == reg[commits[i].by]
    IN  maker.made = i /\ maker.pc \in {"verify", "stuck", "unseen", "dead"}
UndoingAnswered == \A i \in History : Misplaced(i) => Answered(i)

(* Once there is a version list on disk, HEAD has one. *)
ListedFrom(i) == \A j \in History : j >= i => commits[j].list # <<>>
ListStays(r) ==
    /\ reg[r].pc \in {"compare", "restore"} \/ reg[r].restoring \/ reg[r].same =>
           diskList # <<>>
    /\ reg[r].pc \in Syncing \cup {"verify"} /\ ~reg[r].restoring => ListedFrom(reg[r].made)
HeadListed == diskList # <<>> => \E i \in History : ~Misplaced(i) /\ ListedFrom(i)

(* A registration that has yet to put a part of the registry in step with HEAD, being before *)
(* its write of it or having written what HEAD is no longer; or that never will.             *)
Behind(r, before) ==
    \/ reg[r].pc \in before
    \/ reg[r].pc = "verify" /\ ~reg[r].restoring
    \/ reg[r].pc \in Syncing /\ reg[r].base # head
    \/ reg[r].pc \in {"gaveUp", "dead", "stuck", "unseen"}
    \/ reg[r].made # 0 /\ Misplaced(reg[r].made)
    \/ reg[r].restoring /\ \E i \in DOMAIN commits : commits[i].by = r /\ Misplaced(i)
BehindList(r) == Behind(r, {"syncHead", "syncList"})
BehindFile(r, f) == BehindList(r) \/ (reg[r].pc = "syncFile" /\ reg[r].file <= f)
BehindIndex(r) == Behind(r, Syncing \ {"syncCheck"})

ListLate == \E r \in Registrars : BehindList(r)
FileLate(f) == \E r \in Registrars : BehindFile(r, f)
IndexLate == \E r \in Registrars : BehindIndex(r)
NoRestores == edits = 0 /\ \A r \in Registrars : ~reg[r].restoring

(* What is not in step with HEAD has a registration that is behind.                          *)
OutOfStep ==
    /\ diskList = commits[head].list \/ ListLate
    /\ index.list = commits[head].list \/ IndexLate
    /\ NoRestores =>
           /\ \A f \in Files : files[f] = commits[head].tree \/ FileLate(f)
           /\ index.tree = commits[head].tree \/ IndexLate

(* The inductive invariant.  Every version list, in git, in the index and on disk, numbers   *)
(* its entries from 1 with no gap, and no two version rows of the method carry one label     *)
(* (uq_method_version_label; a reader may sync a list another registration is about to       *)
(* replace); a landed commit stays in HEAD's history, and what is not in step with HEAD has  *)
(* a registration that still has to put it there.                                            *)
RegistrationInv ==
    /\ TypeOK /\ CommitsOrdered
    /\ ListsNumbered /\ RowsDistinct
    /\ \A r \in Registrars : Sourced(r) /\ Made(r) /\ CommitStays(r) /\ ListStays(r)
    /\ UndoingAnswered /\ HeadListed
    /\ OutOfStep

-------------------------------------------------------------------------------
(* The properties.                                                                           *)

(* A version whose commit landed on the HEAD it was built on stays in HEAD's version list, *)
(* whatever other registrations commit, unless a misplaced commit stands in HEAD's history *)
(* and its maker is about to take it back, was killed before it could, has told the user   *)
(* to revert it, or does not know of it.                                                   *)
VersionsKept ==
    \A r \in Registrars :
        /\ reg[r].entry # NoEntry /\ reg[r].made # 0
        /\ reg[r].pc \in {"syncHead", "syncList", "syncFile", "syncIndex", "syncCheck",
                          "rows", "ok", "gaveUp"}
        => \/ Contains(commits[head].list, reg[r].entry)
           \/ \E i \in History : Misplaced(i) /\ Answered(i)

(* The last registration to finish leaves HEAD's content: once nobody is registering, nobody *)
(* was killed, gave up or was refused with a commit on HEAD, and whoever had to take a       *)
(* commit back made another and finished, the list on disk and in the index is HEAD's; when  *)
(* no snapshot was restored or edited, so is the snapshot.                                   *)
Settled ==
    /\ \A r \in Registrars : reg[r].pc \in {"idle", "ok", "refused", "stopped"}
    /\ \A i \in DOMAIN commits : Misplaced(i) =>
           reg[commits[i].by].pc = "ok" /\ ~Misplaced(reg[commits[i].by].made)
InStep ==
    Settled =>
        /\ diskList = commits[head].list /\ index.list = commits[head].list
        /\ NoRestores =>
               /\ \A f \in Files : files[f] = commits[head].tree
               /\ index.tree = commits[head].tree

(* A registration that adds a version commits only the content its plan stated and somebody  *)
(* confirmed: a source that changed since is never registered.  One that said it adds none   *)
(* commits the tree of the newest version it read when it checked its plan, and no other:    *)
(* the plan's, or one that has its label (StillPlanned).                                     *)
ConfirmedOnly ==
    \A i \in DOMAIN commits :
        LET maker == reg[commits[i].by]
        IN  commits[i].by # Nothing /\ ~maker.restoring =>
                commits[i].tree = IF maker.same THEN maker.newest.content ELSE maker.planned
===============================================================================
