------------------------- MODULE OutputStoreProofs -------------------------
(***************************************************************************)
(* Proofs about OutputStore, for any outputs, blobs, passes, workers and   *)
(* readers: while no prune runs beside those that store, no bytes are lost *)
(* and what a row calls pushed is in the remote.                           *)
(***************************************************************************)
EXTENDS OutputStore, TLAPS

\* Whoever prunes does so while nothing stores.
QuietPrunes == \A s \in Scenes : "busyPrune" \notin s.disturbances

LEMMA RowKinds ==
  /\ Outputs \subseteq Rows /\ Blobs \subseteq Rows
  /\ \A r \in Rows : r \in Outputs \/ r \in Blobs
  /\ \A r \in Rows : r \in Blobs <=> r \notin Outputs
  /\ \A r \in Rows : Content[r] \in Hashes
  /\ \A b \in Blobs, r \in Rows : Content[r] = Content[b] => r = b
  /\ Pipelines \subseteq Pushers /\ Verbs \subseteq Pushers
  /\ MaxAttempts \in Nat /\ MaxAttempts > 0
  BY StoreAssumption DEF Rows, Pushers

LEMMA StoreInit == Init => StoreInv
<1> SUFFICES ASSUME Init
             PROVE  StoreInv
  OBVIOUS
<1> USE RowKinds DEF Init, Idle, Off, NoPrune, NotReading
<1>1. TypeOK
  BY DEF TypeOK, Statuses, Bytes, Orphaned, Awaiting, ArchiverStates, PusherStates,
    PruneStates, ReaderStates
<1>2. NothingLost /\ PushedIsRemote /\ BlobsObtainable /\ BlobsPlaced
  BY DEF NothingLost, PushedIsRemote, BlobsObtainable, BlobsPlaced
<1>3. ArchiversSafe /\ PushersSafe /\ ReadersSafe /\ PruneSafe
  BY DEF ArchiversSafe, PushersSafe, ReadersSafe, PruneSafe
<1>4. QED
  BY <1>1, <1>2, <1>3 DEF StoreInv

LEMMA ArchiverMoves ==
  ASSUME NEW a \in Archivers, archiver \in [Archivers -> ArchiverStates],
         NEW at \in {"idle", "pass", "copy", "record", "remove"},
         NEW todo \in SUBSET Outputs, NEW out \in SUBSET Outputs
  PROVE  /\ [archiver EXCEPT ![a].at = at] \in [Archivers -> ArchiverStates]
         /\ [archiver EXCEPT ![a].at = at, ![a].out = out]
              \in [Archivers -> ArchiverStates]
         /\ [at |-> at, todo |-> todo, out |-> out] \in ArchiverStates
  BY DEF ArchiverStates

LEMMA PusherMoves ==
  ASSUME NEW p \in Pushers, pusher \in [Pushers -> PusherStates],
         NEW at \in {"off", "reset", "tick", "mark", "send", "record", "done"},
         NEW batch \in SUBSET Rows, NEW sent \in SUBSET Hashes
  PROVE  /\ [pusher EXCEPT ![p].at = at] \in [Pushers -> PusherStates]
         /\ [pusher EXCEPT ![p].at = at, ![p].batch = batch] \in [Pushers -> PusherStates]
         /\ [pusher EXCEPT ![p].batch = batch, ![p].at = at] \in [Pushers -> PusherStates]
         /\ [pusher EXCEPT ![p].at = at, ![p].sent = sent] \in [Pushers -> PusherStates]
         /\ [at |-> at, batch |-> batch, sent |-> sent] \in PusherStates
  BY DEF PusherStates

LEMMA ReaderMoves ==
  ASSUME NEW r \in Readers, reader \in [Readers -> ReaderStates],
         NEW at \in {"idle", "archive", "cache", "pull"}
  PROVE  /\ [reader EXCEPT ![r].at = at] \in [Readers -> ReaderStates]
         /\ [reader EXCEPT ![r] = NotReading] \in [Readers -> ReaderStates]
  BY DEF ReaderStates, NotReading

\* A prune has nothing beside it: what may store does not while it runs.
LEMMA NothingBeside ==
  ASSUME QuietPrunes, TypeOK
  PROVE  /\ ~Disturbed("busyPrune")
         /\ MayStore => prune.at = "idle"
         /\ MayPrune => ~Storing
<1>1. scene \in Scenes
  BY DEF TypeOK
<1>2. ~Disturbed("busyPrune")
  BY <1>1 DEF QuietPrunes, Disturbed
<1>3. QED
  BY <1>2 DEF MayStore, MayPrune

\* A run writes its output, collects it and ends; a file of it is edited.
LEMMA RunSteps ==
  ASSUME QuietPrunes, StoreInv, NEW o \in Outputs, Save(o) \/ Collect(o) \/ Complete(o) \/ FailRun(o) \/ EditCopy(o)
  PROVE  StoreInv'
<1> USE RowKinds, NothingBeside
    DEF StoreInv, rows, pushes, files, At
<1>1. CASE Save(o)
  <2>1. TypeOK'
    BY <1>1 DEF Save, TypeOK, Statuses, Bytes, Awaiting, Orphaned,
      ArchiverStates, PusherStates, PruneStates, ReaderStates
  <2>2. (NothingLost /\ PushedIsRemote /\ BlobsObtainable /\ BlobsPlaced)'
    BY <1>1 DEF Save, TypeOK, NothingLost, PushedIsRemote, BlobsObtainable,
      BlobsPlaced, Placed, ArchiversSafe, PushersSafe, ReadersSafe, PruneSafe, Held,
      Unhashed, Storing
  <2>3. (ArchiversSafe /\ PushersSafe /\ ReadersSafe)'
    BY <1>1 DEF Save, TypeOK, ArchiversSafe, PushersSafe, ReadersSafe, PruneSafe,
      Placed, Held, PushedIsRemote, BlobsPlaced, Storing, ReaderStates
  <2>4. PruneSafe'
    BY <1>1 DEF Save, TypeOK, PruneSafe, Storing, Unhashed, Held, PushedIsRemote,
      PushersSafe, PruneStates
  <2>5. QED
    BY <2>1, <2>2, <2>3, <2>4
<1>2. CASE Collect(o)
  <2>1. TypeOK'
    BY <1>2 DEF Collect, TypeOK, Statuses, Bytes, Awaiting, Orphaned,
      ArchiverStates, PusherStates, PruneStates, ReaderStates
  <2>2. (NothingLost /\ PushedIsRemote /\ BlobsObtainable /\ BlobsPlaced)'
    BY <1>2 DEF Collect, TypeOK, NothingLost, PushedIsRemote, BlobsObtainable,
      BlobsPlaced, Placed, ArchiversSafe, PushersSafe, ReadersSafe, PruneSafe, Held,
      Unhashed, Storing
  <2>3. (ArchiversSafe /\ PushersSafe /\ ReadersSafe)'
    BY <1>2 DEF Collect, TypeOK, ArchiversSafe, PushersSafe, ReadersSafe, PruneSafe,
      Placed, Held, PushedIsRemote, BlobsPlaced, Storing, ReaderStates
  <2>4. PruneSafe'
    BY <1>2 DEF Collect, TypeOK, PruneSafe, Storing, Unhashed, Held, PushedIsRemote,
      PushersSafe, PruneStates
  <2>5. QED
    BY <2>1, <2>2, <2>3, <2>4
<1>3. CASE Complete(o)
  <2>1. TypeOK'
    BY <1>3 DEF Complete, FirstStatus, TypeOK, Statuses, Bytes, Awaiting, Orphaned,
      ArchiverStates, PusherStates, PruneStates, ReaderStates
  <2>2. (NothingLost /\ PushedIsRemote /\ BlobsObtainable /\ BlobsPlaced)'
    BY <1>3 DEF Complete, FirstStatus, TypeOK, NothingLost, PushedIsRemote, BlobsObtainable,
      BlobsPlaced, Placed, ArchiversSafe, PushersSafe, ReadersSafe, PruneSafe, Held,
      Unhashed, Storing
  <2>3. (ArchiversSafe /\ PushersSafe /\ ReadersSafe)'
    BY <1>3 DEF Complete, FirstStatus, TypeOK, ArchiversSafe, PushersSafe, ReadersSafe, PruneSafe,
      Placed, Held, PushedIsRemote, BlobsPlaced, Storing, ReaderStates
  <2>4. PruneSafe'
    BY <1>3 DEF Complete, FirstStatus, TypeOK, PruneSafe, Storing, Unhashed, Held, PushedIsRemote,
      PushersSafe, PruneStates
  <2>5. QED
    BY <2>1, <2>2, <2>3, <2>4
<1>4. CASE FailRun(o)
  <2>1. TypeOK'
    BY <1>4 DEF FailRun, TypeOK, Statuses, Bytes, Awaiting, Orphaned,
      ArchiverStates, PusherStates, PruneStates, ReaderStates
  <2>2. (NothingLost /\ PushedIsRemote /\ BlobsObtainable /\ BlobsPlaced)'
    BY <1>4 DEF FailRun, TypeOK, NothingLost, PushedIsRemote, BlobsObtainable,
      BlobsPlaced, Placed, ArchiversSafe, PushersSafe, ReadersSafe, PruneSafe, Held,
      Unhashed, Storing
  <2>3. (ArchiversSafe /\ PushersSafe /\ ReadersSafe)'
    BY <1>4 DEF FailRun, TypeOK, ArchiversSafe, PushersSafe, ReadersSafe, PruneSafe,
      Placed, Held, PushedIsRemote, BlobsPlaced, Storing, ReaderStates
  <2>4. PruneSafe'
    BY <1>4 DEF FailRun, TypeOK, PruneSafe, Storing, Unhashed, Held, PushedIsRemote,
      PushersSafe, PruneStates
  <2>5. QED
    BY <2>1, <2>2, <2>3, <2>4
<1>5. CASE EditCopy(o)
  <2>1. TypeOK'
    BY <1>5 DEF EditCopy, TypeOK, Statuses, Bytes, Awaiting, Orphaned,
      ArchiverStates, PusherStates, PruneStates, ReaderStates
  <2>2. (NothingLost /\ PushedIsRemote /\ BlobsObtainable /\ BlobsPlaced)'
    BY <1>5 DEF EditCopy, TypeOK, NothingLost, PushedIsRemote, BlobsObtainable,
      BlobsPlaced, Placed, ArchiversSafe, PushersSafe, ReadersSafe, PruneSafe, Held,
      Unhashed, Storing
  <2>3. (ArchiversSafe /\ PushersSafe /\ ReadersSafe)'
    BY <1>5 DEF EditCopy, TypeOK, ArchiversSafe, PushersSafe, ReadersSafe, PruneSafe,
      Placed, Held, PushedIsRemote, BlobsPlaced, Storing, ReaderStates
  <2>4. PruneSafe'
    BY <1>5 DEF EditCopy, TypeOK, PruneSafe, Storing, Unhashed, Held, PushedIsRemote,
      PushersSafe, PruneStates
  <2>5. QED
    BY <2>1, <2>2, <2>3, <2>4
<1>6. QED
  BY <1>1, <1>2, <1>3, <1>4, <1>5

\* A blob is placed, then gets its row.
LEMMA BlobSteps ==
  ASSUME QuietPrunes, StoreInv, NEW b \in Blobs, StoreBlob(b) \/ EnterBlob(b)
  PROVE  StoreInv'
<1> USE RowKinds, NothingBeside
    DEF StoreInv, rows, pushes, files, At
<1>1. CASE StoreBlob(b)
  <2>1. TypeOK'
    BY <1>1 DEF StoreBlob, TypeOK, Statuses, Bytes, Awaiting, Orphaned,
      ArchiverStates, PusherStates, PruneStates, ReaderStates
  <2>2. (NothingLost /\ PushedIsRemote /\ BlobsObtainable /\ BlobsPlaced)'
    BY <1>1 DEF StoreBlob, TypeOK, NothingLost, PushedIsRemote, BlobsObtainable,
      BlobsPlaced, Placed, ArchiversSafe, PushersSafe, ReadersSafe, PruneSafe, Held,
      Unhashed, Storing
  <2>3. (ArchiversSafe /\ PushersSafe /\ ReadersSafe)'
    BY <1>1 DEF StoreBlob, TypeOK, ArchiversSafe, PushersSafe, ReadersSafe, PruneSafe,
      Placed, Held, PushedIsRemote, BlobsPlaced, Storing, ReaderStates
  <2>4. PruneSafe'
    BY <1>1 DEF StoreBlob, TypeOK, PruneSafe, Storing, Unhashed, Held, PushedIsRemote,
      PushersSafe, PruneStates
  <2>5. QED
    BY <2>1, <2>2, <2>3, <2>4
<1>2. CASE EnterBlob(b)
  <2>1. TypeOK'
    BY <1>2 DEF EnterBlob, FirstStatus, TypeOK, Statuses, Bytes, Awaiting, Orphaned,
      ArchiverStates, PusherStates, PruneStates, ReaderStates
  <2>2. (NothingLost /\ PushedIsRemote /\ BlobsObtainable /\ BlobsPlaced)'
    BY <1>2 DEF EnterBlob, FirstStatus, TypeOK, NothingLost, PushedIsRemote, BlobsObtainable,
      BlobsPlaced, Placed, ArchiversSafe, PushersSafe, ReadersSafe, PruneSafe, Held,
      Unhashed, Storing
  <2>3. (ArchiversSafe /\ PushersSafe /\ ReadersSafe)'
    BY <1>2 DEF EnterBlob, FirstStatus, TypeOK, ArchiversSafe, PushersSafe, ReadersSafe, PruneSafe,
      Placed, Held, PushedIsRemote, BlobsPlaced, Storing, ReaderStates
  <2>4. PruneSafe'
    BY <1>2 DEF EnterBlob, FirstStatus, TypeOK, PruneSafe, Storing, Unhashed, Held, PushedIsRemote,
      PushersSafe, PruneStates
  <2>5. QED
    BY <2>1, <2>2, <2>3, <2>4
<1>3. QED
  BY <1>1, <1>2

\* An object is edited.
LEMMA EditSteps ==
  ASSUME QuietPrunes, StoreInv, NEW h \in Hashes, EditObject(h)
  PROVE  StoreInv'
<1> USE RowKinds, NothingBeside
    DEF StoreInv, rows, pushes, files, EditObject
<1>1. TypeOK'
  BY DEF TypeOK, Statuses, Bytes, Awaiting, Orphaned,
    ArchiverStates, PusherStates, PruneStates, ReaderStates
<1>2. (NothingLost /\ PushedIsRemote /\ BlobsObtainable /\ BlobsPlaced)'
  BY DEF TypeOK, NothingLost, PushedIsRemote, BlobsObtainable,
    BlobsPlaced, Placed, ArchiversSafe, PushersSafe, ReadersSafe, PruneSafe, Held,
    Unhashed, Storing
<1>3. (ArchiversSafe /\ PushersSafe /\ ReadersSafe)'
  BY DEF TypeOK, ArchiversSafe, PushersSafe, ReadersSafe, PruneSafe,
    Placed, Held, PushedIsRemote, BlobsPlaced, Storing, ReaderStates
<1>4. PruneSafe'
  BY DEF TypeOK, PruneSafe, Storing, Unhashed, Held, PushedIsRemote,
    PushersSafe, PruneStates
<1>5. QED
  BY <1>1, <1>2, <1>3, <1>4

\* An archive pass.
LEMMA ArchiveSteps ==
  ASSUME QuietPrunes, StoreInv, NEW a \in Archivers, Archive(a)
  PROVE  StoreInv'
<1> USE RowKinds, NothingBeside
    DEF StoreInv, rows, pushes, files, At
<1>1. CASE ListUnarchived(a)
  <2>1. TypeOK'
    BY <1>1 DEF ListUnarchived, Unarchived, TypeOK, Statuses, Bytes, Awaiting, Orphaned,
      ArchiverStates, PusherStates, PruneStates, ReaderStates
  <2>2. (NothingLost /\ PushedIsRemote /\ BlobsObtainable /\ BlobsPlaced)'
    BY <1>1 DEF ListUnarchived, Unarchived, TypeOK, NothingLost, PushedIsRemote, BlobsObtainable,
      BlobsPlaced, Placed, ArchiversSafe, PushersSafe, ReadersSafe, PruneSafe, Held,
      Unhashed, Storing
  <2>3. (ArchiversSafe /\ PushersSafe /\ ReadersSafe)'
    BY <1>1 DEF ListUnarchived, Unarchived, TypeOK, ArchiversSafe, PushersSafe, ReadersSafe, PruneSafe,
      Placed, Held, PushedIsRemote, BlobsPlaced, Storing, ReaderStates
  <2>4. PruneSafe'
    BY <1>1 DEF ListUnarchived, Unarchived, TypeOK, PruneSafe, Storing, Unhashed, Held, PushedIsRemote,
      PushersSafe, PruneStates
  <2>5. QED
    BY <2>1, <2>2, <2>3, <2>4
<1>2. CASE EndPass(a)
  <2>1. TypeOK'
    BY <1>2 DEF EndPass, Idle, TypeOK, Statuses, Bytes, Awaiting, Orphaned,
      ArchiverStates, PusherStates, PruneStates, ReaderStates
  <2>2. (NothingLost /\ PushedIsRemote /\ BlobsObtainable /\ BlobsPlaced)'
    BY <1>2 DEF EndPass, Idle, TypeOK, NothingLost, PushedIsRemote, BlobsObtainable,
      BlobsPlaced, Placed, ArchiversSafe, PushersSafe, ReadersSafe, PruneSafe, Held,
      Unhashed, Storing
  <2>3. (ArchiversSafe /\ PushersSafe /\ ReadersSafe)'
    BY <1>2 DEF EndPass, Idle, TypeOK, ArchiversSafe, PushersSafe, ReadersSafe, PruneSafe,
      Placed, Held, PushedIsRemote, BlobsPlaced, Storing, ReaderStates
  <2>4. PruneSafe'
    BY <1>2 DEF EndPass, Idle, TypeOK, PruneSafe, Storing, Unhashed, Held, PushedIsRemote,
      PushersSafe, PruneStates
  <2>5. QED
    BY <2>1, <2>2, <2>3, <2>4
<1>3. CASE ArchiverStops(a)
  <2>1. TypeOK'
    BY <1>3 DEF ArchiverStops, Idle, TypeOK, Statuses, Bytes, Awaiting, Orphaned,
      ArchiverStates, PusherStates, PruneStates, ReaderStates
  <2>2. (NothingLost /\ PushedIsRemote /\ BlobsObtainable /\ BlobsPlaced)'
    BY <1>3 DEF ArchiverStops, Idle, TypeOK, NothingLost, PushedIsRemote, BlobsObtainable,
      BlobsPlaced, Placed, ArchiversSafe, PushersSafe, ReadersSafe, PruneSafe, Held,
      Unhashed, Storing
  <2>3. (ArchiversSafe /\ PushersSafe /\ ReadersSafe)'
    BY <1>3 DEF ArchiverStops, Idle, TypeOK, ArchiversSafe, PushersSafe, ReadersSafe, PruneSafe,
      Placed, Held, PushedIsRemote, BlobsPlaced, Storing, ReaderStates
  <2>4. PruneSafe'
    BY <1>3 DEF ArchiverStops, Idle, TypeOK, PruneSafe, Storing, Unhashed, Held, PushedIsRemote,
      PushersSafe, PruneStates
  <2>5. QED
    BY <2>1, <2>2, <2>3, <2>4
<1>4. ASSUME NEW o \in Outputs, TakeOutput(a, o)
     PROVE  StoreInv'
  <2>1. TypeOK'
    BY <1>4 DEF TakeOutput, TypeOK, Statuses, Bytes, Awaiting, Orphaned,
      ArchiverStates, PusherStates, PruneStates, ReaderStates
  <2>2. (NothingLost /\ PushedIsRemote /\ BlobsObtainable /\ BlobsPlaced)'
    BY <1>4 DEF TakeOutput, TypeOK, NothingLost, PushedIsRemote, BlobsObtainable,
      BlobsPlaced, Placed, ArchiversSafe, PushersSafe, ReadersSafe, PruneSafe, Held,
      Unhashed, Storing
  <2>3. (ArchiversSafe /\ PushersSafe /\ ReadersSafe)'
    BY <1>4 DEF TakeOutput, TypeOK, ArchiversSafe, PushersSafe, ReadersSafe, PruneSafe,
      Placed, Held, PushedIsRemote, BlobsPlaced, Storing, ReaderStates
  <2>4. PruneSafe'
    BY <1>4 DEF TakeOutput, TypeOK, PruneSafe, Storing, Unhashed, Held, PushedIsRemote,
      PushersSafe, PruneStates
  <2>5. QED
    BY <2>1, <2>2, <2>3, <2>4
<1>5. ASSUME NEW o \in Outputs, StoreCopy(a, o)
     PROVE  StoreInv'
  <2>1. TypeOK'
    <3>1. archiver' \in [Archivers -> ArchiverStates]
      BY <1>5, ArchiverMoves DEF StoreCopy, TypeOK
    <3>2. QED
      BY <1>5, <3>1 DEF StoreCopy, TypeOK, Bytes
  <2>2. (NothingLost /\ PushedIsRemote /\ BlobsObtainable /\ BlobsPlaced)'
    BY <1>5 DEF StoreCopy, TypeOK, NothingLost, PushedIsRemote, BlobsObtainable,
      BlobsPlaced, Placed, ArchiversSafe, PushersSafe, ReadersSafe, PruneSafe, Held,
      Unhashed, Storing
  <2>3. (ArchiversSafe /\ PushersSafe /\ ReadersSafe)'
    BY <1>5 DEF StoreCopy, TypeOK, ArchiversSafe, PushersSafe, ReadersSafe, PruneSafe,
      Placed, Held, PushedIsRemote, BlobsPlaced, Storing, ReaderStates
  <2>4. PruneSafe'
    BY <1>5 DEF StoreCopy, TypeOK, PruneSafe, Storing, Unhashed, Held, PushedIsRemote,
      PushersSafe, PruneStates
  <2>5. QED
    BY <2>1, <2>2, <2>3, <2>4
<1>6. ASSUME NEW o \in Outputs, RefuseChanged(a, o)
     PROVE  StoreInv'
  <2>1. TypeOK'
    <3>1. archiver' \in [Archivers -> ArchiverStates]
      BY <1>6, ArchiverMoves DEF RefuseChanged, TypeOK
    <3>2. QED
      BY <1>6, <3>1 DEF RefuseChanged, TypeOK
  <2>2. (NothingLost /\ PushedIsRemote /\ BlobsObtainable /\ BlobsPlaced)'
    BY <1>6 DEF RefuseChanged, TypeOK, NothingLost, PushedIsRemote, BlobsObtainable,
      BlobsPlaced, Placed, ArchiversSafe, PushersSafe, ReadersSafe, PruneSafe, Held,
      Unhashed, Storing
  <2>3. (ArchiversSafe /\ PushersSafe /\ ReadersSafe)'
    BY <1>6 DEF RefuseChanged, TypeOK, ArchiversSafe, PushersSafe, ReadersSafe, PruneSafe,
      Placed, Held, PushedIsRemote, BlobsPlaced, Storing, ReaderStates
  <2>4. PruneSafe'
    BY <1>6 DEF RefuseChanged, TypeOK, PruneSafe, Storing, Unhashed, Held, PushedIsRemote,
      PushersSafe, PruneStates
  <2>5. QED
    BY <2>1, <2>2, <2>3, <2>4
<1>7. ASSUME NEW o \in Outputs, RecordHash(a, o)
     PROVE  StoreInv'
  <2>1. TypeOK'
    BY <1>7 DEF RecordHash, TypeOK, Statuses, Bytes, Awaiting, Orphaned,
      ArchiverStates, PusherStates, PruneStates, ReaderStates
  <2>2. (NothingLost /\ PushedIsRemote /\ BlobsObtainable /\ BlobsPlaced)'
    BY <1>7 DEF RecordHash, TypeOK, NothingLost, PushedIsRemote, BlobsObtainable,
      BlobsPlaced, Placed, ArchiversSafe, PushersSafe, ReadersSafe, PruneSafe, Held,
      Unhashed, Storing
  <2>3. (ArchiversSafe /\ PushersSafe /\ ReadersSafe)'
    BY <1>7 DEF RecordHash, TypeOK, ArchiversSafe, PushersSafe, ReadersSafe, PruneSafe,
      Placed, Held, PushedIsRemote, BlobsPlaced, Storing, ReaderStates
  <2>4. PruneSafe'
    BY <1>7 DEF RecordHash, TypeOK, PruneSafe, Storing, Unhashed, Held, PushedIsRemote,
      PushersSafe, PruneStates
  <2>5. QED
    BY <2>1, <2>2, <2>3, <2>4
<1>8. ASSUME NEW o \in Outputs, RemoveFromRun(a, o)
     PROVE  StoreInv'
  <2>1. TypeOK'
    <3>1. archiver' \in [Archivers -> ArchiverStates]
      BY <1>8, ArchiverMoves DEF RemoveFromRun, TypeOK
    <3>2. QED
      BY <1>8, <3>1 DEF RemoveFromRun, TypeOK, Bytes
  <2>2. (NothingLost /\ PushedIsRemote /\ BlobsObtainable /\ BlobsPlaced)'
    BY <1>8 DEF RemoveFromRun, TypeOK, NothingLost, PushedIsRemote, BlobsObtainable,
      BlobsPlaced, Placed, ArchiversSafe, PushersSafe, ReadersSafe, PruneSafe, Held,
      Unhashed, Storing
  <2>3. (ArchiversSafe /\ PushersSafe /\ ReadersSafe)'
    BY <1>8 DEF RemoveFromRun, TypeOK, ArchiversSafe, PushersSafe, ReadersSafe, PruneSafe,
      Placed, Held, PushedIsRemote, BlobsPlaced, Storing, ReaderStates
  <2>4. PruneSafe'
    BY <1>8 DEF RemoveFromRun, TypeOK, PruneSafe, Storing, Unhashed, Held, PushedIsRemote,
      PushersSafe, PruneStates
  <2>5. QED
    BY <2>1, <2>2, <2>3, <2>4
<1>9. QED
  BY <1>1, <1>2, <1>3, <1>4, <1>5, <1>6, <1>7, <1>8 DEF Archive

\* A push worker.
LEMMA PushSteps ==
  ASSUME QuietPrunes, StoreInv, NEW p \in Pushers, Push(p)
  PROVE  StoreInv'
<1> USE RowKinds, NothingBeside
    DEF StoreInv, rows, pushes, files, At
<1>1. CASE ReadOrphans(p)
  <2>1. TypeOK'
    BY <1>1 DEF ReadOrphans, Off, Orphaned, Awaiting, TypeOK, Statuses, Bytes, Awaiting, Orphaned,
      ArchiverStates, PusherStates, PruneStates, ReaderStates
  <2>2. (NothingLost /\ PushedIsRemote /\ BlobsObtainable /\ BlobsPlaced)'
    BY <1>1 DEF ReadOrphans, Off, Orphaned, Awaiting, TypeOK, NothingLost, PushedIsRemote, BlobsObtainable,
      BlobsPlaced, Placed, ArchiversSafe, PushersSafe, ReadersSafe, PruneSafe, Held,
      Unhashed, Storing
  <2>3. (ArchiversSafe /\ PushersSafe /\ ReadersSafe)'
    BY <1>1 DEF ReadOrphans, Off, Orphaned, Awaiting, TypeOK, ArchiversSafe, PushersSafe, ReadersSafe, PruneSafe,
      Placed, Held, PushedIsRemote, BlobsPlaced, Storing, ReaderStates
  <2>4. PruneSafe'
    BY <1>1 DEF ReadOrphans, Off, Orphaned, Awaiting, TypeOK, PruneSafe, Storing, Unhashed, Held, PushedIsRemote,
      PushersSafe, PruneStates
  <2>5. QED
    BY <2>1, <2>2, <2>3, <2>4
<1>2. CASE ResetOrphans(p)
  <2>1. TypeOK'
    <3>1. pusher' \in [Pushers -> PusherStates]
      BY <1>2, PusherMoves DEF ResetOrphans, TypeOK
    <3>2. QED
      BY <1>2, <3>1 DEF ResetOrphans, TypeOK, Statuses, Bytes, Awaiting, Orphaned
  <2>2. (NothingLost /\ PushedIsRemote /\ BlobsObtainable /\ BlobsPlaced)'
    BY <1>2 DEF ResetOrphans, Orphaned, Awaiting, TypeOK, NothingLost, PushedIsRemote, BlobsObtainable,
      BlobsPlaced, Placed, ArchiversSafe, PushersSafe, ReadersSafe, PruneSafe, Held,
      Unhashed, Storing
  <2>3. (ArchiversSafe /\ PushersSafe /\ ReadersSafe)'
    BY <1>2 DEF ResetOrphans, Orphaned, Awaiting, TypeOK, ArchiversSafe, PushersSafe, ReadersSafe, PruneSafe,
      Placed, Held, PushedIsRemote, BlobsPlaced, Storing, ReaderStates
  <2>4. PruneSafe'
    BY <1>2 DEF ResetOrphans, Orphaned, Awaiting, TypeOK, PruneSafe, Storing, Unhashed, Held, PushedIsRemote,
      PushersSafe, PruneStates
  <2>5. QED
    BY <2>1, <2>2, <2>3, <2>4
<1>3. CASE Rearm(p)
  <2>1. TypeOK'
    <3>1. pusher' \in [Pushers -> PusherStates]
      BY <1>3, PusherMoves DEF Rearm, TypeOK
    <3>2. QED
      BY <1>3, <3>1 DEF Rearm, TypeOK, Statuses, Bytes, Awaiting, Orphaned
  <2>2. (NothingLost /\ PushedIsRemote /\ BlobsObtainable /\ BlobsPlaced)'
    BY <1>3 DEF Rearm, Awaiting, TypeOK, NothingLost, PushedIsRemote, BlobsObtainable,
      BlobsPlaced, Placed, ArchiversSafe, PushersSafe, ReadersSafe, PruneSafe, Held,
      Unhashed, Storing
  <2>3. (ArchiversSafe /\ PushersSafe /\ ReadersSafe)'
    BY <1>3 DEF Rearm, Awaiting, TypeOK, ArchiversSafe, PushersSafe, ReadersSafe, PruneSafe,
      Placed, Held, PushedIsRemote, BlobsPlaced, Storing, ReaderStates
  <2>4. PruneSafe'
    BY <1>3 DEF Rearm, Awaiting, TypeOK, PruneSafe, Storing, Unhashed, Held, PushedIsRemote,
      PushersSafe, PruneStates
  <2>5. QED
    BY <2>1, <2>2, <2>3, <2>4
<1>4. CASE Snapshot(p)
  <2>1. TypeOK'
    <3>1. Pushable \in SUBSET Rows
      BY DEF Pushable, TypeOK
    <3>2. pusher' \in [Pushers -> PusherStates]
      BY <1>4, <3>1, PusherMoves DEF Snapshot, TypeOK
    <3>3. QED
      BY <1>4, <3>2 DEF Snapshot, TypeOK
  <2>2. (NothingLost /\ PushedIsRemote /\ BlobsObtainable /\ BlobsPlaced)'
    BY <1>4 DEF Snapshot, Pushable, Awaiting, TypeOK, NothingLost, PushedIsRemote, BlobsObtainable,
      BlobsPlaced, Placed, ArchiversSafe, PushersSafe, ReadersSafe, PruneSafe, Held,
      Unhashed, Storing
  <2>3. (ArchiversSafe /\ PushersSafe /\ ReadersSafe)'
    BY <1>4 DEF Snapshot, Pushable, Awaiting, TypeOK, ArchiversSafe, PushersSafe, ReadersSafe, PruneSafe,
      Placed, Held, PushedIsRemote, BlobsPlaced, Storing, ReaderStates
  <2>4. PruneSafe'
    BY <1>4 DEF Snapshot, Pushable, Awaiting, TypeOK, PruneSafe, Storing, Unhashed, Held, PushedIsRemote,
      PushersSafe, PruneStates
  <2>5. QED
    BY <2>1, <2>2, <2>3, <2>4
<1>5. CASE NothingLeft(p)
  <2>1. TypeOK'
    <3>1. pusher' \in [Pushers -> PusherStates]
      BY <1>5, PusherMoves DEF NothingLeft, TypeOK
    <3>2. QED
      BY <1>5, <3>1 DEF NothingLeft, TypeOK, Statuses, Bytes, Awaiting, Orphaned
  <2>2. (NothingLost /\ PushedIsRemote /\ BlobsObtainable /\ BlobsPlaced)'
    BY <1>5 DEF NothingLeft, TypeOK, NothingLost, PushedIsRemote, BlobsObtainable,
      BlobsPlaced, Placed, ArchiversSafe, PushersSafe, ReadersSafe, PruneSafe, Held,
      Unhashed, Storing
  <2>3. (ArchiversSafe /\ PushersSafe /\ ReadersSafe)'
    BY <1>5 DEF NothingLeft, TypeOK, ArchiversSafe, PushersSafe, ReadersSafe, PruneSafe,
      Placed, Held, PushedIsRemote, BlobsPlaced, Storing, ReaderStates
  <2>4. PruneSafe'
    BY <1>5 DEF NothingLeft, TypeOK, PruneSafe, Storing, Unhashed, Held, PushedIsRemote,
      PushersSafe, PruneStates
  <2>5. QED
    BY <2>1, <2>2, <2>3, <2>4
<1>6. CASE Mark(p)
  <2>1. TypeOK'
    <3> DEFINE claimed == {r \in pusher[p].batch : r \in Blobs => push[r] \in Awaiting}
               next == IF claimed # {} THEN "send" ELSE IF p \in Verbs THEN "done" ELSE "tick"
    <3>1. claimed \in SUBSET Rows
      BY DEF TypeOK, PusherStates
    <3>2. pusher' \in [Pushers -> PusherStates]
      <4>1. pusher' = [pusher EXCEPT ![p].batch = claimed, ![p].at = next]
        BY <1>6 DEF Mark
      <4>2. next \in {"send", "done", "tick"}
        OBVIOUS
      <4> HIDE DEF claimed, next
      <4>3. QED
        BY <3>1, <4>1, <4>2, PusherMoves DEF TypeOK
    <3>3. push' \in [Rows -> Statuses]
      BY <1>6 DEF Mark, TypeOK, Statuses, Orphaned
    <3>4. QED
      BY <1>6, <3>2, <3>3 DEF Mark, TypeOK
  <2>2. (NothingLost /\ PushedIsRemote /\ BlobsObtainable /\ BlobsPlaced)'
    BY <1>6 DEF Mark, Awaiting, TypeOK, NothingLost, PushedIsRemote, BlobsObtainable,
      BlobsPlaced, Placed, ArchiversSafe, PushersSafe, ReadersSafe, PruneSafe, Held,
      Unhashed, Storing
  <2>3. (ArchiversSafe /\ PushersSafe /\ ReadersSafe)'
    BY <1>6 DEF Mark, Awaiting, TypeOK, ArchiversSafe, PushersSafe, ReadersSafe, PruneSafe,
      Placed, Held, PushedIsRemote, BlobsPlaced, Storing, ReaderStates
  <2>4. PruneSafe'
    BY <1>6 DEF Mark, Awaiting, TypeOK, PruneSafe, Storing, Unhashed, Held, PushedIsRemote,
      PushersSafe, PruneStates
  <2>5. QED
    BY <2>1, <2>2, <2>3, <2>4
<1>7. CASE Send(p)
  <2>1. TypeOK'
    <3>1. PICK ok \in SUBSET {h \in HashesOf(pusher[p].batch) : object[h] = "whole"} :
            /\ remote' = remote \cup ok
            /\ pusher' = [pusher EXCEPT ![p].at = "record", ![p].sent = ok]
      BY <1>7 DEF Send
    <3>2. HashesOf(pusher[p].batch) \subseteq Hashes
      BY DEF HashesOf, TypeOK, PusherStates
    <3>3. ok \in SUBSET Hashes
      BY <3>2
    <3>4. pusher' \in [Pushers -> PusherStates]
      BY <3>1, <3>3, PusherMoves DEF TypeOK
    <3>5. QED
      BY <1>7, <3>1, <3>3, <3>4 DEF Send, TypeOK
  <2>2. (NothingLost /\ PushedIsRemote /\ BlobsObtainable /\ BlobsPlaced)'
    BY <1>7 DEF Send, HashesOf, TypeOK, NothingLost, PushedIsRemote, BlobsObtainable,
      BlobsPlaced, Placed, ArchiversSafe, PushersSafe, ReadersSafe, PruneSafe, Held,
      Unhashed, Storing
  <2>3. (ArchiversSafe /\ PushersSafe /\ ReadersSafe)'
    BY <1>7 DEF Send, HashesOf, TypeOK, ArchiversSafe, PushersSafe, ReadersSafe, PruneSafe,
      Placed, Held, PushedIsRemote, BlobsPlaced, Storing, ReaderStates
  <2>4. PruneSafe'
    BY <1>7 DEF Send, HashesOf, TypeOK, PruneSafe, Storing, Unhashed, Held, PushedIsRemote,
      PushersSafe, PruneStates
  <2>5. QED
    BY <2>1, <2>2, <2>3, <2>4
<1>8. CASE RecordPushes(p)
  <2>1. TypeOK'
    BY <1>8 DEF RecordPushes, Recordable, HashesOf, Off, TypeOK, Statuses, Bytes, Awaiting, Orphaned,
      ArchiverStates, PusherStates, PruneStates, ReaderStates
  <2>2. (NothingLost /\ PushedIsRemote /\ BlobsObtainable /\ BlobsPlaced)'
    BY <1>8 DEF RecordPushes, Recordable, HashesOf, Off, TypeOK, NothingLost, PushedIsRemote, BlobsObtainable,
      BlobsPlaced, Placed, ArchiversSafe, PushersSafe, ReadersSafe, PruneSafe, Held,
      Unhashed, Storing
  <2>3. (ArchiversSafe /\ PushersSafe /\ ReadersSafe)'
    BY <1>8 DEF RecordPushes, Recordable, HashesOf, Off, TypeOK, ArchiversSafe, PushersSafe, ReadersSafe, PruneSafe,
      Placed, Held, PushedIsRemote, BlobsPlaced, Storing, ReaderStates
  <2>4. PruneSafe'
    BY <1>8 DEF RecordPushes, Recordable, HashesOf, Off, TypeOK, PruneSafe, Storing, Unhashed, Held, PushedIsRemote,
      PushersSafe, PruneStates
  <2>5. QED
    BY <2>1, <2>2, <2>3, <2>4
<1>9. CASE StopWorker(p)
  <2>1. TypeOK'
    <3>1. pusher' \in [Pushers -> PusherStates]
      BY <1>9, PusherMoves DEF StopWorker, TypeOK
    <3>2. QED
      BY <1>9, <3>1 DEF StopWorker, TypeOK, Statuses, Bytes, Awaiting, Orphaned
  <2>2. (NothingLost /\ PushedIsRemote /\ BlobsObtainable /\ BlobsPlaced)'
    BY <1>9 DEF StopWorker, TypeOK, NothingLost, PushedIsRemote, BlobsObtainable,
      BlobsPlaced, Placed, ArchiversSafe, PushersSafe, ReadersSafe, PruneSafe, Held,
      Unhashed, Storing
  <2>3. (ArchiversSafe /\ PushersSafe /\ ReadersSafe)'
    BY <1>9 DEF StopWorker, TypeOK, ArchiversSafe, PushersSafe, ReadersSafe, PruneSafe,
      Placed, Held, PushedIsRemote, BlobsPlaced, Storing, ReaderStates
  <2>4. PruneSafe'
    BY <1>9 DEF StopWorker, TypeOK, PruneSafe, Storing, Unhashed, Held, PushedIsRemote,
      PushersSafe, PruneStates
  <2>5. QED
    BY <2>1, <2>2, <2>3, <2>4
<1>10. CASE PusherDies(p)
  <2>1. TypeOK'
    BY <1>10 DEF PusherDies, Off, TypeOK, Statuses, Bytes, Awaiting, Orphaned,
      ArchiverStates, PusherStates, PruneStates, ReaderStates
  <2>2. (NothingLost /\ PushedIsRemote /\ BlobsObtainable /\ BlobsPlaced)'
    BY <1>10 DEF PusherDies, Off, TypeOK, NothingLost, PushedIsRemote, BlobsObtainable,
      BlobsPlaced, Placed, ArchiversSafe, PushersSafe, ReadersSafe, PruneSafe, Held,
      Unhashed, Storing
  <2>3. (ArchiversSafe /\ PushersSafe /\ ReadersSafe)'
    BY <1>10 DEF PusherDies, Off, TypeOK, ArchiversSafe, PushersSafe, ReadersSafe, PruneSafe,
      Placed, Held, PushedIsRemote, BlobsPlaced, Storing, ReaderStates
  <2>4. PruneSafe'
    BY <1>10 DEF PusherDies, Off, TypeOK, PruneSafe, Storing, Unhashed, Held, PushedIsRemote,
      PushersSafe, PruneStates
  <2>5. QED
    BY <2>1, <2>2, <2>3, <2>4
<1>11. QED
  BY <1>1, <1>2, <1>3, <1>4, <1>5, <1>6, <1>7, <1>8, <1>9, <1>10 DEF Push, Work, Tick

\* A reader.
LEMMA ReadSteps ==
  ASSUME QuietPrunes, StoreInv, NEW r \in Readers, Read(r)
  PROVE  StoreInv'
<1> USE RowKinds, NothingBeside
    DEF StoreInv, rows, pushes, files, At
<1>1. ASSUME NEW x \in Rows, ReadRow(r, x)
     PROVE  StoreInv'
  <2>1. TypeOK'
    BY <1>1 DEF ReadRow, TypeOK, Statuses, Bytes, Awaiting, Orphaned,
      ArchiverStates, PusherStates, PruneStates, ReaderStates
  <2>2. (NothingLost /\ PushedIsRemote /\ BlobsObtainable /\ BlobsPlaced)'
    BY <1>1 DEF ReadRow, TypeOK, NothingLost, PushedIsRemote, BlobsObtainable,
      BlobsPlaced, Placed, ArchiversSafe, PushersSafe, ReadersSafe, PruneSafe, Held,
      Unhashed, Storing
  <2>3. (ArchiversSafe /\ PushersSafe /\ ReadersSafe)'
    BY <1>1 DEF ReadRow, TypeOK, ArchiversSafe, PushersSafe, ReadersSafe, PruneSafe,
      Placed, Held, PushedIsRemote, BlobsPlaced, Storing, ReaderStates
  <2>4. PruneSafe'
    BY <1>1 DEF ReadRow, TypeOK, PruneSafe, Storing, Unhashed, Held, PushedIsRemote,
      PushersSafe, PruneStates
  <2>5. QED
    BY <2>1, <2>2, <2>3, <2>4
<1>2. ASSUME NEW x \in Rows, CheckArchive(r, x)
     PROVE  StoreInv'
  <2>1. TypeOK'
    BY <1>2 DEF CheckArchive, Reading, Answer, NotReading, TypeOK, Statuses, Bytes, Awaiting, Orphaned,
      ArchiverStates, PusherStates, PruneStates, ReaderStates
  <2>2. (NothingLost /\ PushedIsRemote /\ BlobsObtainable /\ BlobsPlaced)'
    BY <1>2 DEF CheckArchive, Reading, Answer, NotReading, TypeOK, NothingLost, PushedIsRemote, BlobsObtainable,
      BlobsPlaced, Placed, ArchiversSafe, PushersSafe, ReadersSafe, PruneSafe, Held,
      Unhashed, Storing
  <2>3. (ArchiversSafe /\ PushersSafe /\ ReadersSafe)'
    BY <1>2 DEF CheckArchive, Reading, Answer, NotReading, TypeOK, ArchiversSafe, PushersSafe, ReadersSafe, PruneSafe,
      Placed, Held, PushedIsRemote, BlobsPlaced, Storing, ReaderStates
  <2>4. PruneSafe'
    BY <1>2 DEF CheckArchive, Reading, Answer, NotReading, TypeOK, PruneSafe, Storing, Unhashed, Held, PushedIsRemote,
      PushersSafe, PruneStates
  <2>5. QED
    BY <2>1, <2>2, <2>3, <2>4
<1>3. ASSUME NEW x \in Rows, CheckCache(r, x)
     PROVE  StoreInv'
  <2>1. TypeOK'
    <3>1. reader' \in [Readers -> ReaderStates]
      BY <1>3, ReaderMoves DEF CheckCache, Answer, TypeOK
    <3>2. QED
      BY <1>3, <3>1 DEF CheckCache, TypeOK
  <2>2. (NothingLost /\ PushedIsRemote /\ BlobsObtainable /\ BlobsPlaced)'
    BY <1>3 DEF CheckCache, Reading, Answer, NotReading, TypeOK, NothingLost, PushedIsRemote, BlobsObtainable,
      BlobsPlaced, Placed, ArchiversSafe, PushersSafe, ReadersSafe, PruneSafe, Held,
      Unhashed, Storing
  <2>3. (ArchiversSafe /\ PushersSafe /\ ReadersSafe)'
    BY <1>3 DEF CheckCache, Reading, Answer, NotReading, TypeOK, ArchiversSafe, PushersSafe, ReadersSafe, PruneSafe,
      Placed, Held, PushedIsRemote, BlobsPlaced, Storing, ReaderStates
  <2>4. PruneSafe'
    BY <1>3 DEF CheckCache, Reading, Answer, NotReading, TypeOK, PruneSafe, Storing, Unhashed, Held, PushedIsRemote,
      PushersSafe, PruneStates
  <2>5. QED
    BY <2>1, <2>2, <2>3, <2>4
<1>4. ASSUME NEW x \in Rows, PullAgain(r, x)
     PROVE  StoreInv'
  <2>1. TypeOK'
    <3>1. reader' \in [Readers -> ReaderStates]
      BY <1>4, ReaderMoves DEF PullAgain, Answer, TypeOK
    <3>2. object' \in [Hashes -> Bytes]
      BY <1>4 DEF PullAgain, TypeOK, Bytes
    <3>3. QED
      BY <1>4, <3>1, <3>2 DEF PullAgain, TypeOK
  <2>2. (NothingLost /\ PushedIsRemote /\ BlobsObtainable /\ BlobsPlaced)'
    BY <1>4 DEF PullAgain, Reading, Answer, NotReading, TypeOK, NothingLost, PushedIsRemote, BlobsObtainable,
      BlobsPlaced, Placed, ArchiversSafe, PushersSafe, ReadersSafe, PruneSafe, Held,
      Unhashed, Storing
  <2>3. (ArchiversSafe /\ PushersSafe /\ ReadersSafe)'
    BY <1>4 DEF PullAgain, Reading, Answer, NotReading, TypeOK, ArchiversSafe, PushersSafe, ReadersSafe, PruneSafe,
      Placed, Held, PushedIsRemote, BlobsPlaced, Storing, ReaderStates
  <2>4. PruneSafe'
    BY <1>4 DEF PullAgain, Reading, Answer, NotReading, TypeOK, PruneSafe, Storing, Unhashed, Held, PushedIsRemote,
      PushersSafe, PruneStates
  <2>5. QED
    BY <2>1, <2>2, <2>3, <2>4
<1>5. QED
  BY <1>1, <1>2, <1>3, <1>4 DEF Read

\* A prune.
LEMMA PruneSteps ==
  ASSUME QuietPrunes, StoreInv, Prune
  PROVE  StoreInv'
<1> USE RowKinds, NothingBeside
    DEF StoreInv, rows, pushes, files, At
<1>1. CASE GuardRuns
  <2>1. TypeOK'
    BY <1>1 DEF GuardRuns, TypeOK, Statuses, Bytes, Awaiting, Orphaned,
      ArchiverStates, PusherStates, PruneStates, ReaderStates
  <2>2. (NothingLost /\ PushedIsRemote /\ BlobsObtainable /\ BlobsPlaced)'
    BY <1>1 DEF GuardRuns, TypeOK, NothingLost, PushedIsRemote, BlobsObtainable,
      BlobsPlaced, Placed, ArchiversSafe, PushersSafe, ReadersSafe, PruneSafe, Held,
      Unhashed, Storing
  <2>3. (ArchiversSafe /\ PushersSafe /\ ReadersSafe)'
    BY <1>1 DEF GuardRuns, TypeOK, ArchiversSafe, PushersSafe, ReadersSafe, PruneSafe,
      Placed, Held, PushedIsRemote, BlobsPlaced, Storing, ReaderStates
  <2>4. PruneSafe'
    BY <1>1 DEF GuardRuns, TypeOK, PruneSafe, Storing, Unhashed, Held, PushedIsRemote,
      PushersSafe, PruneStates
  <2>5. QED
    BY <2>1, <2>2, <2>3, <2>4
<1>2. CASE ListArchives
  <2>1. TypeOK'
    <3>1. PICK all \in BOOLEAN :
            prune' = [prune EXCEPT !.at = "remove",
              !.doomed = {o \in Outputs \ prune.exclude :
                            kept[o] # "none" /\ (all \/ stage[o] = "running")}]
      BY <1>2 DEF ListArchives
    <3>2. prune' \in PruneStates
      BY <3>1 DEF TypeOK, PruneStates
    <3>3. QED
      BY <1>2, <3>2 DEF ListArchives, TypeOK
  <2>2. (NothingLost /\ PushedIsRemote /\ BlobsObtainable /\ BlobsPlaced)'
    BY <1>2 DEF ListArchives, TypeOK, NothingLost, PushedIsRemote, BlobsObtainable,
      BlobsPlaced, Placed, ArchiversSafe, PushersSafe, ReadersSafe, PruneSafe, Held,
      Unhashed, Storing
  <2>3. (ArchiversSafe /\ PushersSafe /\ ReadersSafe)'
    BY <1>2 DEF ListArchives, TypeOK, ArchiversSafe, PushersSafe, ReadersSafe, PruneSafe,
      Placed, Held, PushedIsRemote, BlobsPlaced, Storing, ReaderStates
  <2>4. PruneSafe'
    BY <1>2 DEF ListArchives, TypeOK, PruneSafe, Storing, Unhashed, Held, PushedIsRemote,
      PushersSafe, PruneStates
  <2>5. QED
    BY <2>1, <2>2, <2>3, <2>4
<1>3. CASE RemoveArchives
  <2>1. TypeOK'
    BY <1>3 DEF RemoveArchives, TypeOK, Statuses, Bytes, Awaiting, Orphaned,
      ArchiverStates, PusherStates, PruneStates, ReaderStates
  <2>2. (NothingLost /\ PushedIsRemote /\ BlobsObtainable /\ BlobsPlaced)'
    BY <1>3 DEF RemoveArchives, TypeOK, NothingLost, PushedIsRemote, BlobsObtainable,
      BlobsPlaced, Placed, ArchiversSafe, PushersSafe, ReadersSafe, PruneSafe, Held,
      Unhashed, Storing
  <2>3. (ArchiversSafe /\ PushersSafe /\ ReadersSafe)'
    BY <1>3 DEF RemoveArchives, TypeOK, ArchiversSafe, PushersSafe, ReadersSafe, PruneSafe,
      Placed, Held, PushedIsRemote, BlobsPlaced, Storing, ReaderStates
  <2>4. PruneSafe'
    BY <1>3 DEF RemoveArchives, TypeOK, PruneSafe, Storing, Unhashed, Held, PushedIsRemote,
      PushersSafe, PruneStates
  <2>5. QED
    BY <2>1, <2>2, <2>3, <2>4
<1>4. CASE ScanCache
  <2>1. TypeOK'
    BY <1>4 DEF ScanCache, TypeOK, Statuses, Bytes, Awaiting, Orphaned,
      ArchiverStates, PusherStates, PruneStates, ReaderStates
  <2>2. (NothingLost /\ PushedIsRemote /\ BlobsObtainable /\ BlobsPlaced)'
    BY <1>4 DEF ScanCache, TypeOK, NothingLost, PushedIsRemote, BlobsObtainable,
      BlobsPlaced, Placed, ArchiversSafe, PushersSafe, ReadersSafe, PruneSafe, Held,
      Unhashed, Storing
  <2>3. (ArchiversSafe /\ PushersSafe /\ ReadersSafe)'
    BY <1>4 DEF ScanCache, TypeOK, ArchiversSafe, PushersSafe, ReadersSafe, PruneSafe,
      Placed, Held, PushedIsRemote, BlobsPlaced, Storing, ReaderStates
  <2>4. PruneSafe'
    BY <1>4 DEF ScanCache, TypeOK, PruneSafe, Storing, Unhashed, Held, PushedIsRemote,
      PushersSafe, PruneStates
  <2>5. QED
    BY <2>1, <2>2, <2>3, <2>4
<1>5. CASE SelectEntries
  <2>1. TypeOK'
    BY <1>5 DEF SelectEntries, UnpushedHashes, HashesOf, TypeOK, Statuses, Bytes, Awaiting, Orphaned,
      ArchiverStates, PusherStates, PruneStates, ReaderStates
  <2>2. (NothingLost /\ PushedIsRemote /\ BlobsObtainable /\ BlobsPlaced)'
    BY <1>5 DEF SelectEntries, UnpushedHashes, HashesOf, TypeOK, NothingLost, PushedIsRemote, BlobsObtainable,
      BlobsPlaced, Placed, ArchiversSafe, PushersSafe, ReadersSafe, PruneSafe, Held,
      Unhashed, Storing
  <2>3. (ArchiversSafe /\ PushersSafe /\ ReadersSafe)'
    BY <1>5 DEF SelectEntries, UnpushedHashes, HashesOf, TypeOK, ArchiversSafe, PushersSafe, ReadersSafe, PruneSafe,
      Placed, Held, PushedIsRemote, BlobsPlaced, Storing, ReaderStates
  <2>4. PruneSafe'
    BY <1>5 DEF SelectEntries, UnpushedHashes, HashesOf, TypeOK, PruneSafe, Storing, Unhashed, Held, PushedIsRemote,
      PushersSafe, PruneStates
  <2>5. QED
    BY <2>1, <2>2, <2>3, <2>4
<1>6. ASSUME NEW h \in Hashes, DeleteEntry(h)
     PROVE  StoreInv'
  <2>1. TypeOK'
    BY <1>6 DEF DeleteEntry, TypeOK, Statuses, Bytes, Awaiting, Orphaned,
      ArchiverStates, PusherStates, PruneStates, ReaderStates
  <2>2. (NothingLost /\ PushedIsRemote /\ BlobsObtainable /\ BlobsPlaced)'
    BY <1>6 DEF DeleteEntry, TypeOK, NothingLost, PushedIsRemote, BlobsObtainable,
      BlobsPlaced, Placed, ArchiversSafe, PushersSafe, ReadersSafe, PruneSafe, Held,
      Unhashed, Storing
  <2>3. (ArchiversSafe /\ PushersSafe /\ ReadersSafe)'
    BY <1>6 DEF DeleteEntry, TypeOK, ArchiversSafe, PushersSafe, ReadersSafe, PruneSafe,
      Placed, Held, PushedIsRemote, BlobsPlaced, Storing, ReaderStates
  <2>4. PruneSafe'
    BY <1>6 DEF DeleteEntry, TypeOK, PruneSafe, Storing, Unhashed, Held, PushedIsRemote,
      PushersSafe, PruneStates
  <2>5. QED
    BY <2>1, <2>2, <2>3, <2>4
<1>7. CASE EndPrune
  <2>1. TypeOK'
    BY <1>7 DEF EndPrune, NoPrune, TypeOK, Statuses, Bytes, Awaiting, Orphaned,
      ArchiverStates, PusherStates, PruneStates, ReaderStates
  <2>2. (NothingLost /\ PushedIsRemote /\ BlobsObtainable /\ BlobsPlaced)'
    BY <1>7 DEF EndPrune, NoPrune, TypeOK, NothingLost, PushedIsRemote, BlobsObtainable,
      BlobsPlaced, Placed, ArchiversSafe, PushersSafe, ReadersSafe, PruneSafe, Held,
      Unhashed, Storing
  <2>3. (ArchiversSafe /\ PushersSafe /\ ReadersSafe)'
    BY <1>7 DEF EndPrune, NoPrune, TypeOK, ArchiversSafe, PushersSafe, ReadersSafe, PruneSafe,
      Placed, Held, PushedIsRemote, BlobsPlaced, Storing, ReaderStates
  <2>4. PruneSafe'
    BY <1>7 DEF EndPrune, NoPrune, TypeOK, PruneSafe, Storing, Unhashed, Held, PushedIsRemote,
      PushersSafe, PruneStates
  <2>5. QED
    BY <2>1, <2>2, <2>3, <2>4
<1>8. QED
  BY <1>1, <1>2, <1>3, <1>4, <1>5, <1>6, <1>7 DEF Prune

LEMMA StoreNext ==
  ASSUME QuietPrunes, StoreInv, [Next]_vars
  PROVE  StoreInv'
<1>1. CASE \E o \in Outputs : Save(o) \/ Collect(o) \/ Complete(o) \/ FailRun(o) \/ EditCopy(o)
  BY <1>1, RunSteps
<1>2. CASE \E b \in Blobs : StoreBlob(b) \/ EnterBlob(b)
  BY <1>2, BlobSteps, RowKinds
<1>3. CASE \E h \in Hashes : EditObject(h)
  BY <1>3, EditSteps
<1>4. CASE \E a \in Archivers : Archive(a)
  BY <1>4, ArchiveSteps
<1>5. CASE \E p \in Pushers : Push(p)
  BY <1>5, PushSteps
<1>6. CASE \E r \in Readers : Read(r)
  BY <1>6, ReadSteps
<1>7. CASE Prune
  BY <1>7, PruneSteps
<1>8. CASE UNCHANGED vars
  BY <1>8 DEF vars, rows, pushes, files, StoreInv, TypeOK, NothingLost, PushedIsRemote,
    BlobsObtainable, BlobsPlaced, ArchiversSafe, PushersSafe, ReadersSafe, PruneSafe,
    Placed, Held, Unhashed, Storing
<1>9. QED
  BY <1>1, <1>2, <1>3, <1>4, <1>5, <1>6, <1>7, <1>8 DEF Next

\* The inductive invariant: what each process relies on when it removes bytes
\* or reports a push.
THEOREM StoreSafe ==
  ASSUME QuietPrunes
  PROVE  Spec => []StoreInv
  BY StoreInit, StoreNext, PTL DEF Spec

\* A collected output is in its run archive until its hash is recorded, and
\* then in the cache or the remote, whoever archives, pushes, reads and dies.
THEOREM NothingIsLost ==
  ASSUME QuietPrunes
  PROVE  Spec => []NothingLost
<1>1. StoreInv => NothingLost
  BY DEF StoreInv
<1>2. QED
  BY <1>1, StoreSafe, PTL

\* `pushed` is never said of a hash the remote does not hold.
THEOREM PushedNamesRemote ==
  ASSUME QuietPrunes
  PROVE  Spec => []PushedIsRemote
<1>1. StoreInv => PushedIsRemote
  BY DEF StoreInv
<1>2. QED
  BY <1>1, StoreSafe, PTL

\* A blob with a row is in the cache, or its row says that the remote has it.
THEOREM BlobsStayObtainable ==
  ASSUME QuietPrunes
  PROVE  Spec => []BlobsObtainable
<1>1. StoreInv => BlobsObtainable
  BY DEF StoreInv
<1>2. QED
  BY <1>1, StoreSafe, PTL

=============================================================================
