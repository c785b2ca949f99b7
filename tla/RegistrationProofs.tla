------------------------- MODULE RegistrationProofs -------------------------
(***************************************************************************)
(* What holds of every number of registrations, of every crash and edit    *)
(* bound and every start list: the invariant of Registration is inductive  *)
(* (InvInit, one lemma per action, InvNext), and the properties follow.    *)
(***************************************************************************)
EXTENDS Registration, TLAPS

\* The newest entry of a numbered list carries its length.
LEMMA Lists ==
  ASSUME NEW list \in Seq(Entries)
  PROVE  /\ list = <<>> => Newest(list) = NoEntry
         /\ list # <<>> => Newest(list) \in Entries
         /\ Newest(list).label \in Nat
         /\ NoEntry \notin Entries /\ NoEntry.label = 0
         /\ Numbered(list) => Newest(list).label = Len(list)
<1>1. NoEntry \notin Entries /\ NoEntry.label = 0
  BY RegistrationAssumption DEF NoEntry, Entries
<1>2. CASE list = <<>>
  BY <1>1, <1>2 DEF Newest, NoEntry
<1>3. CASE list # <<>>
  <2>1. Newest(list) = list[Len(list)] /\ Len(list) \in DOMAIN list
    BY <1>3 DEF Newest, Last
  <2>2. list[Len(list)] \in Entries
    BY <2>1
  <2>3. list[Len(list)].label \in Nat
    BY <2>2 DEF Entries
  <2>4. QED
    BY <1>1, <1>3, <2>1, <2>2, <2>3 DEF Numbered
<1>4. QED
  BY <1>2, <1>3

\* A list with an entry appended: what it holds and how it is numbered.
LEMMA Appends ==
  ASSUME NEW list \in Seq(Entries), NEW e \in Entries
  PROVE  /\ Append(list, e) \in Seq(Entries) /\ Append(list, e) # <<>>
         /\ Append(list, e) # list
         /\ ToSet(list) \subseteq ToSet(Append(list, e))
         /\ Contains(Append(list, e), e)
         /\ Last(Append(list, e)) = e
         /\ Numbered(list) /\ e.label = Newest(list).label + 1 => Numbered(Append(list, e))
<1>1. /\ Append(list, e) \in Seq(Entries) /\ Len(Append(list, e)) = Len(list) + 1
      /\ \A i \in 1..Len(list) : Append(list, e)[i] = list[i]
      /\ Append(list, e)[Len(list) + 1] = e
  OBVIOUS
<1>2. ToSet(list) \subseteq ToSet(Append(list, e))
  BY <1>1 DEF ToSet
<1>3. Contains(Append(list, e), e)
  BY <1>1 DEF Contains
<1>4. Last(Append(list, e)) = e
  BY <1>1 DEF Last
<1>5. ASSUME Numbered(list), e.label = Newest(list).label + 1
      PROVE  Numbered(Append(list, e))
  <2>1. e.label = Len(list) + 1
    BY <1>5, Lists
  <2>2. QED
    BY <1>1, <1>5, <2>1 DEF Numbered
<1>6. QED
  BY <1>1, <1>2, <1>3, <1>4, <1>5

\* What the history of HEAD is made of.
LEMMA HistoryFacts ==
  ASSUME TypeOK, CommitsOrdered
  PROVE  /\ head \in History /\ History \subseteq DOMAIN commits
         /\ \A i \in History : i <= head
         /\ DOMAIN commits = 1..Len(commits) /\ Len(commits) \in Nat
         /\ head \in DOMAIN commits
<1>1. /\ DOMAIN commits = 1..Len(commits) /\ Len(commits) \in Nat
      /\ head \in DOMAIN commits
  BY DEF TypeOK
<1>2. head \in History /\ History \subseteq 1..head
  BY <1>1 DEF History, CommitsOrdered
<1>3. QED
  BY <1>1, <1>2

\* A commit over HEAD joins HEAD's history ...
LEMMA HistoryGrows ==
  ASSUME TypeOK, CommitsOrdered, NEW c \in Commits, c.past = PastOverHead,
         commits' = Append(commits, c), head' = Len(commits')
  PROVE  /\ History' = History \cup {head'}
         /\ head' = Len(commits) + 1 /\ head' \notin DOMAIN commits
         /\ \A i \in DOMAIN commits : i < head' /\ commits'[i] = commits[i]
         /\ DOMAIN commits' = DOMAIN commits \cup {head'}
         /\ commits'[head'] = c
         /\ commits' \in Seq(Commits)
<1>1. /\ commits \in Seq(Commits) /\ DOMAIN commits = 1..Len(commits)
      /\ Len(commits) \in Nat /\ head \in DOMAIN commits
  BY DEF TypeOK
<1> DEFINE k == Len(commits) + 1
<1>2. /\ head' = k /\ DOMAIN commits' = DOMAIN commits \cup {k}
      /\ k \notin DOMAIN commits
      /\ commits'[k] = c /\ \A i \in DOMAIN commits : i < k /\ commits'[i] = commits[i]
      /\ commits' \in Seq(Commits)
  BY <1>1
<1>3. QED
  BY <1>2 DEF History, PastOverHead

\* ... and leaves it when HEAD is put back on its parent.
LEMMA HistoryShrinks ==
  ASSUME TypeOK, CommitsOrdered, head # 1,
         commits' = commits, head' = commits[head].parent
  PROVE  /\ History' = History \ {head} /\ head' \in History' /\ head' < head
         /\ head' \in DOMAIN commits
<1>1. /\ DOMAIN commits = 1..Len(commits) /\ Len(commits) \in Nat
      /\ head \in DOMAIN commits
  BY HistoryFacts
<1>2. /\ head' \in DOMAIN commits /\ head' < head
      /\ commits[head].past = commits[head'].past \cup {head}
  BY <1>1 DEF CommitsOrdered
<1>3. commits[head'].past \subseteq 1..head' /\ head' \in commits[head'].past
  BY <1>1, <1>2 DEF CommitsOrdered
<1>4. QED
  BY <1>1, <1>2, <1>3 DEF History

\* A commit's fields, and who made a misplaced one.
LEMMA CommitFacts ==
  ASSUME TypeOK, CommitsOrdered, NEW i \in DOMAIN commits
  PROVE  /\ commits[i] \in Commits
         /\ commits[i].list \in Seq(Entries) /\ commits[i].tree \in Trees
         /\ commits[i].by \in Registrars \cup {Nothing}
         /\ Misplaced(i) => commits[i].by \in Registrars /\ i # 1
<1>1. commits[i] \in Commits
  BY DEF TypeOK
<1>2. /\ commits[i].list \in Seq(Entries) /\ commits[i].tree \in Trees
      /\ commits[i].by \in Registrars \cup {Nothing}
  BY <1>1 DEF Commits
<1>3. Misplaced(i) => commits[i].by # Nothing /\ i # 1
  BY DEF CommitsOrdered, Misplaced
<1>4. QED
  BY <1>1, <1>2, <1>3

\* The types of a registration's fields.
LEMMA FieldTypes ==
  ASSUME NEW x \in Regs
  PROVE  /\ x.newest \in Entries \cup {NoEntry} /\ x.planned \in Trees
         /\ x.content \in Trees /\ x.same \in BOOLEAN /\ x.restoring \in BOOLEAN
         /\ x.base \in Nat /\ x.list \in Seq(Entries) /\ x.entry \in Entries \cup {NoEntry}
         /\ x.made \in Nat /\ x.attempts \in Nat /\ x.file \in Files
  BY DEF Regs

\* The invariant holds at the start.
LEMMA InvInit == Init => RegistrationInv
<1> SUFFICES ASSUME NEW list \in StartLists,
                    /\ commits = <<StartCommit(list)>> /\ head = 1
                    /\ diskList = list
                    /\ files = [f \in Files |-> Newest(list).content]
                    /\ index = [list |-> list, tree |-> Newest(list).content]
                    /\ rows = {[entry |-> list[i], label |-> i, commit |-> 1] :
                                 i \in DOMAIN list}
                    /\ known = (list # <<>>) /\ listed = {list}
                    /\ reg = [r \in Registrars |-> Idle]
                    /\ crashes = 0 /\ edits = 0 /\ others = 0
             PROVE  RegistrationInv
  BY DEF Init
<1>1. list \in Seq(Entries) /\ Numbered(list)
  BY RegistrationAssumption
<1>2. Newest(list).content \in Trees
  <2>1. \A e \in Entries : e.content \in Trees
    BY DEF Entries, Trees
  <2>2. NoEntry.content \in Trees
    BY DEF NoEntry, Trees
  <2>3. QED
    BY <1>1, <2>1, <2>2, Lists
<1>3. StartCommit(list) \in Commits
  BY <1>1, <1>2 DEF StartCommit, Commits
<1>4. /\ commits \in Seq(Commits) /\ DOMAIN commits = {1} /\ commits[1] = StartCommit(list)
      /\ commits[1].list = list /\ commits[1].tree = Newest(list).content
      /\ commits[1].parent = 0 /\ commits[1].base = 0 /\ commits[1].by = Nothing
      /\ commits[1].past = {1}
  BY <1>3 DEF StartCommit
<1>5. Idle \in Regs
  BY RegistrationAssumption DEF Idle, Regs, Pcs, Trees, Early, Files
<1>6. TypeOK
  <2>1. rows \subseteq [entry : Entries, label : Nat, commit : Nat]
    BY <1>1
  <2>2. QED
    BY <1>1, <1>2, <1>4, <1>5, <2>1 DEF TypeOK
<1>7. CommitsOrdered /\ ListsNumbered
  BY <1>1, <1>4 DEF CommitsOrdered, ListsNumbered
<1>8. RowsDistinct
  <2>1. \A i \in DOMAIN list : list[i].label = i
    BY <1>1 DEF Numbered
  <2>2. QED
    BY <2>1 DEF RowsDistinct
<1>9. ASSUME NEW r \in Registrars
      PROVE  Sourced(r) /\ Made(r) /\ CommitStays(r) /\ ListStays(r)
  <2>1. /\ reg[r].pc = "idle" /\ reg[r].newest = NoEntry /\ ~reg[r].same
        /\ ~reg[r].restoring /\ reg[r].entry = NoEntry /\ reg[r].made = 0
    BY DEF Idle
  <2>2. QED
    BY <1>4, <2>1, RegistrationAssumption
    DEF Sourced, Made, CommitStays, Landing, ListStays, Early, Making, Syncing
<1>10. \A i \in History : i = 1 /\ ~Misplaced(i)
  BY <1>4 DEF History, Misplaced
<1>11. HeadListed
  <2>1. 1 \in History
    BY <1>6, <1>7, HistoryFacts
  <2>2. QED
    BY <1>4, <1>10, <2>1 DEF HeadListed, ListedFrom
<1>12. OutOfStep
  BY <1>4 DEF OutOfStep
<1>13. QED
  BY <1>6, <1>7, <1>8, <1>9, <1>10, <1>11, <1>12 DEF RegistrationInv, UndoingAnswered

\* A registration that is behind with a part of the registry is so after a step too.
StaysBehind(r) ==
  /\ BehindList(r) => BehindList(r)'
  /\ BehindIndex(r) => BehindIndex(r)'
FileStaysBehind(r, f) == BehindFile(r, f) => BehindFile(r, f)'

\* A step by which a registration changes nothing but its own state and the rows.
LEMMA OwnRowsStep ==
  ASSUME RegistrationInv, NEW r \in Registrars,
         UNCHANGED <<commits, head, registry, edits>>,
         known' \in BOOLEAN, rows' \subseteq [entry : Entries, label : Nat, commit : Nat],
         RowsDistinct',
         crashes' \in Nat, others' \in Nat,
         reg' \in [Registrars -> Regs],
         \A q \in Registrars \ {r} : reg'[q] = reg[q],
         reg'[r].made = reg[r].made, reg'[r].restoring = reg[r].restoring,
         Sourced(r)', Made(r)',
         Landing(r)' => Landing(r) /\ reg'[r].entry = reg[r].entry,
         reg'[r].pc \in Syncing \cup {"verify"} => reg[r].pc \in Syncing \cup {"verify"},
         reg'[r].pc \in {"compare", "restore"} \/ reg'[r].same => diskList # <<>>,
         reg[r].pc \in {"verify", "stuck", "unseen", "dead"} =>
           reg'[r].pc \in {"verify", "stuck", "unseen", "dead"} \/ ~Misplaced(reg[r].made),
         StaysBehind(r), \A f \in Files : FileStaysBehind(r, f)
  PROVE  RegistrationInv'
<1>1. /\ UNCHANGED <<commits, head, diskList, files, index, listed, edits>>
      /\ TypeOK /\ CommitsOrdered
  BY DEF registry, RegistrationInv
<1>2. /\ UNCHANGED History /\ \A i : UNCHANGED Misplaced(i)
      /\ \A i : UNCHANGED ListedFrom(i) /\ \A e : UNCHANGED HeldFrom(e, i)
  BY <1>1 DEF History, Misplaced, ListedFrom, HeldFrom
<1>3. TypeOK'
  BY <1>1 DEF TypeOK
<1>4. CommitsOrdered' /\ ListsNumbered' /\ RowsDistinct'
  BY <1>1 DEF RegistrationInv, CommitsOrdered, Misplaced, ListsNumbered
<1>5. ASSUME NEW q \in Registrars, q # r
      PROVE  (Sourced(q) /\ Made(q) /\ CommitStays(q) /\ ListStays(q))'
  <2>1. reg'[q] = reg[q] /\ Sourced(q) /\ Made(q) /\ CommitStays(q) /\ ListStays(q)
    BY <1>5 DEF RegistrationInv
  <2>2. Sourced(q)' /\ Made(q)'
    BY <1>1, <2>1 DEF Sourced, Made, MayCommit, Misplaced
  <2>3. CommitStays(q)' /\ ListStays(q)'
    BY <1>1, <1>2, <2>1 DEF CommitStays, Landing, ListStays
  <2>4. QED
    BY <2>2, <2>3
<1>6. CommitStays(r)'
  BY <1>2 DEF RegistrationInv, CommitStays
<1>7. ListStays(r)'
  BY <1>1, <1>2 DEF RegistrationInv, ListStays
<1>8. UndoingAnswered'
  <2> SUFFICES ASSUME NEW i \in History, Misplaced(i)
               PROVE  Answered(i)'
    BY <1>2 DEF UndoingAnswered
  <2>1. Answered(i)
    BY DEF RegistrationInv, UndoingAnswered
  <2>2. commits[i].by \in Registrars
    BY <1>1, HistoryFacts, CommitFacts
  <2>3. QED
    BY <1>1, <2>1, <2>2 DEF Answered
<1>9. HeadListed'
  BY <1>1, <1>2 DEF RegistrationInv, HeadListed
<1>10. OutOfStep'
  <2>1. \A q \in Registrars \ {r} : reg'[q] = reg[q]
    OBVIOUS
  <2>2. ListLate => ListLate'
    <3>1. BehindList(r) => BehindList(r)'
      BY DEF StaysBehind
    <3>2. QED
      BY <1>1, <2>1, <3>1 DEF ListLate, BehindList, Behind, Misplaced
  <2>3. IndexLate => IndexLate'
    <3>1. BehindIndex(r) => BehindIndex(r)'
      BY DEF StaysBehind
    <3>2. QED
      BY <1>1, <2>1, <3>1 DEF IndexLate, BehindIndex, Behind, Misplaced
  <2>4. \A f \in Files : FileLate(f) => FileLate(f)'
    BY <1>1, <2>1 DEF FileStaysBehind, FileLate, BehindFile, BehindList, Behind, Misplaced
  <2>5. NoRestores' => NoRestores
    BY <1>1, <2>1 DEF NoRestores
  <2>6. QED
    BY <1>1, <2>2, <2>3, <2>4, <2>5 DEF RegistrationInv, OutOfStep
<1>11. QED
  BY <1>3, <1>4, <1>5, <1>6, <1>7, <1>8, <1>9, <1>10 DEF RegistrationInv

\* A step by which a registration changes nothing but its own state.
LEMMA OwnStep ==
  ASSUME RegistrationInv, NEW r \in Registrars,
         UNCHANGED <<commits, head, registry, database, edits>>,
         crashes' \in Nat, others' \in Nat,
         reg' \in [Registrars -> Regs],
         \A q \in Registrars \ {r} : reg'[q] = reg[q],
         reg'[r].made = reg[r].made, reg'[r].restoring = reg[r].restoring,
         Sourced(r)', Made(r)',
         Landing(r)' => Landing(r) /\ reg'[r].entry = reg[r].entry,
         reg'[r].pc \in Syncing \cup {"verify"} => reg[r].pc \in Syncing \cup {"verify"},
         reg'[r].pc \in {"compare", "restore"} \/ reg'[r].same => diskList # <<>>,
         reg[r].pc \in {"verify", "stuck", "unseen", "dead"} =>
           reg'[r].pc \in {"verify", "stuck", "unseen", "dead"} \/ ~Misplaced(reg[r].made),
         StaysBehind(r), \A f \in Files : FileStaysBehind(r, f)
  PROVE  RegistrationInv'
<1>1. /\ UNCHANGED <<commits, head, registry, edits>>
      /\ known' \in BOOLEAN /\ rows' \subseteq [entry : Entries, label : Nat, commit : Nat]
  BY DEF database, RegistrationInv, TypeOK
<1>2. RowsDistinct'
  BY DEF database, RegistrationInv, RowsDistinct
<1>3. QED
  BY <1>1, <1>2, OwnRowsStep

\* The fields that an action which only sets where a registration is leaves alone.
Kept(r) ==
  /\ reg' \in [Registrars -> Regs] /\ \A q \in Registrars \ {r} : reg'[q] = reg[q]
  /\ reg'[r].newest = reg[r].newest /\ reg'[r].planned = reg[r].planned
  /\ reg'[r].content = reg[r].content /\ reg'[r].same = reg[r].same
  /\ reg'[r].restoring = reg[r].restoring /\ reg'[r].base = reg[r].base
  /\ reg'[r].list = reg[r].list /\ reg'[r].entry = reg[r].entry
  /\ reg'[r].made = reg[r].made

\* The moves a registration makes without learning or changing anything.
Turns(r, from, to) ==
  \/ to = "dead"
  \/ from = "compare" /\ to \in {"restore", "plan"}
  \/ from = "confirm" /\ to = "stopped"
  \/ from = "build" /\ to \in {"rows", "readHead", "refused"}
  \/ from = "check" /\ to = "gitCommit"
  \/ /\ from = "check" /\ reg[r].entry = NoEntry
     /\ to = "stopped" \/ (to = "rows" /\ ~reg[r].restoring)
  \/ from = "gitCommit" /\ to = "refused"
  \/ from = "verify" /\ to = "stuck"
  \/ /\ from = "verify" /\ ~Misplaced(reg[r].made)
     /\ to = IF reg[r].restoring THEN "stopped" ELSE "syncHead"
  \/ from = "syncCheck" /\ to = "rows" /\ reg[r].base = head
  \/ from = "syncCheck" /\ to \in {"syncHead", "gaveUp"}

\* Going somewhere else changes no other field.
LEMMA GotoKeeps ==
  ASSUME TypeOK, NEW r \in Registrars, NEW pc \in Pcs, Goto(r, pc)
  PROVE  Kept(r) /\ reg'[r].pc = pc /\ reg'[r].file = reg[r].file
<1>1. reg[r] \in Regs /\ reg \in [Registrars -> Regs]
  BY DEF TypeOK
<1> DEFINE x == [reg[r] EXCEPT !.pc = pc]
<1>2. x \in Regs /\ x.pc = pc
      /\ x.newest = reg[r].newest /\ x.planned = reg[r].planned
      /\ x.content = reg[r].content /\ x.same = reg[r].same
      /\ x.restoring = reg[r].restoring /\ x.base = reg[r].base
      /\ x.list = reg[r].list /\ x.entry = reg[r].entry /\ x.made = reg[r].made
      /\ x.file = reg[r].file
  BY <1>1 DEF Regs
<1>3. reg' = [reg EXCEPT ![r] = x]
  BY DEF Goto
<1> HIDE DEF x
<1>4. QED
  BY <1>1, <1>2, <1>3 DEF Kept

\* A move by which a registration learns and changes nothing keeps the invariant.
LEMMA TurnStep ==
  ASSUME RegistrationInv, NEW r \in Registrars, Kept(r),
         UNCHANGED <<commits, head, registry, database, edits>>,
         crashes' \in Nat, others' \in Nat,
         Turns(r, reg[r].pc, reg'[r].pc)
  PROVE  RegistrationInv'
<1>1. /\ TypeOK /\ Sourced(r) /\ Made(r) /\ CommitStays(r) /\ ListStays(r)
      /\ UNCHANGED <<commits, head, diskList>>
  BY DEF RegistrationInv, registry
<1>2. /\ \A q \in Registrars \ {r} : reg'[q] = reg[q]
      /\ reg'[r].newest = reg[r].newest /\ reg'[r].planned = reg[r].planned
      /\ reg'[r].content = reg[r].content /\ reg'[r].same = reg[r].same
      /\ reg'[r].restoring = reg[r].restoring /\ reg'[r].base = reg[r].base
      /\ reg'[r].list = reg[r].list /\ reg'[r].entry = reg[r].entry
      /\ reg'[r].made = reg[r].made
      /\ reg' \in [Registrars -> Regs]
  BY DEF Kept
<1> USE DEF Early, Making, Syncing
<1>3. Sourced(r)'
  BY <1>1, <1>2 DEF Sourced, Turns
<1>4. Made(r)'
  <2>1. MayCommit(r)' <=> MayCommit(r)
    BY <1>1, <1>2 DEF MayCommit
  <2>2. QED
    BY <1>1, <1>2, <2>1 DEF Made, Turns, Misplaced, Sourced
<1>5. Landing(r)' => Landing(r)
  BY <1>1, <1>2 DEF Landing, Turns, Sourced
<1>6. reg'[r].pc \in Syncing \cup {"verify"} => reg[r].pc \in Syncing \cup {"verify"}
  BY <1>2 DEF Turns
<1>7. reg'[r].pc \in {"compare", "restore"} \/ reg'[r].same => diskList # <<>>
  BY <1>1, <1>2 DEF Turns, ListStays
<1>8. reg[r].pc \in {"verify", "stuck", "unseen", "dead"} =>
        reg'[r].pc \in {"verify", "stuck", "unseen", "dead"} \/ ~Misplaced(reg[r].made)
  BY DEF Turns
<1>9. StaysBehind(r) /\ \A f \in Files : FileStaysBehind(r, f)
  BY <1>1, <1>2 DEF StaysBehind, FileStaysBehind, Turns, BehindList, BehindIndex, BehindFile, Behind, Misplaced,
     Made, Sourced
<1>10. QED
  BY <1>2, <1>3, <1>4, <1>5, <1>6, <1>7, <1>8, <1>9, OwnStep

\* Steps of a registration that only say where it goes on.
LEMMA GotoSteps ==
  ASSUME RegistrationInv, NEW r \in Registrars,
         \/ Compare(r) \/ Decline(r) \/ Build(r) \/ CannotTakeBack(r)
         \/ Die(r)
  PROVE  RegistrationInv'
<1>1. TypeOK
  BY DEF RegistrationInv
<1>2. /\ UNCHANGED <<commits, head, registry, database, edits>>
      /\ crashes' \in Nat /\ others' \in Nat
  BY <1>1 DEF Compare, Decline, Build, CannotTakeBack, Die, faults, TypeOK
<1>3. \E pc \in Pcs : Goto(r, pc) /\ Turns(r, reg[r].pc, pc)
  <2>1. CASE Compare(r)
    BY <2>1 DEF Compare, Turns, At, Pcs, Early
  <2>2. CASE Decline(r)
    BY <2>2 DEF Decline, Turns, At, Pcs, Ended
  <2>3. CASE Build(r)
    BY <2>3 DEF Build, Turns, At, Pcs, Ended
  <2>4. CASE CannotTakeBack(r)
    BY <2>4 DEF CannotTakeBack, Turns, At, Pcs, Ended
  <2>5. CASE Die(r)
    BY <2>5 DEF Die, Turns, Pcs, Ended
  <2>6. QED
    BY <2>1, <2>2, <2>3, <2>4, <2>5
<1>4. QED
  BY <1>1, <1>2, <1>3, GotoKeeps, TurnStep

\* A commit that landed on its base, and a registry found in step or not.
LEMMA LandedStep ==
  ASSUME RegistrationInv, NEW r \in Registrars, Landed(r) \/ SyncCheck(r)
  PROVE  RegistrationInv'
<1>1. /\ TypeOK /\ Made(r) /\ Sourced(r) /\ reg[r] \in Regs /\ reg \in [Registrars -> Regs]
  BY DEF RegistrationInv, TypeOK
<1>2. /\ UNCHANGED <<commits, head, registry, database, edits>>
      /\ crashes' \in Nat /\ others' \in Nat
  BY <1>1 DEF Landed, SyncCheck, faults, TypeOK
<1>3. ASSUME NEW pc \in Pcs, NEW n \in Nat
      PROVE  LET x == [reg[r] EXCEPT !.pc = pc, !.attempts = n]
             IN  x \in Regs /\ x.pc = pc
                 /\ x.newest = reg[r].newest /\ x.planned = reg[r].planned
                 /\ x.content = reg[r].content /\ x.same = reg[r].same
                 /\ x.restoring = reg[r].restoring /\ x.base = reg[r].base
                 /\ x.list = reg[r].list /\ x.entry = reg[r].entry
                 /\ x.made = reg[r].made
  BY <1>1 DEF Regs
<1>4. PICK pc \in Pcs, n \in Nat :
        /\ reg' = [reg EXCEPT ![r] = [reg[r] EXCEPT !.pc = pc, !.attempts = n]]
        /\ Turns(r, reg[r].pc, pc)
  <2>1. CASE Landed(r)
    <3>1. reg' = [reg EXCEPT ![r] = [reg[r] EXCEPT
                    !.pc = Stop(r, "syncHead"), !.attempts = 0]]
      BY <2>1 DEF Landed
    <3>2. ~Misplaced(reg[r].made) /\ reg[r].pc = "verify"
      BY <1>1, <2>1 DEF Landed, Made, Misplaced, At
    <3>3. Stop(r, "syncHead") \in Pcs /\ Turns(r, reg[r].pc, Stop(r, "syncHead"))
      BY <3>2 DEF Stop, Turns, Pcs, Syncing, Ended
    <3>4. QED
      BY <3>1, <3>3
  <2>2. CASE SyncCheck(r)
    <3> DEFINE again == reg[r].attempts + 1 < MaxAttempts
               to == IF head = reg[r].base THEN "rows"
                     ELSE IF again THEN "syncHead" ELSE "gaveUp"
               n == IF head # reg[r].base /\ again THEN reg[r].attempts + 1 ELSE 0
    <3>1. reg' = [reg EXCEPT ![r] = [reg[r] EXCEPT !.pc = to, !.attempts = n]]
      BY <2>2 DEF SyncCheck
    <3>2. n \in Nat
      BY <1>1, FieldTypes
    <3>3. to \in Pcs /\ Turns(r, reg[r].pc, to)
      BY <2>2 DEF SyncCheck, Turns, At, Pcs, Syncing, Ended
    <3> HIDE DEF to, n
    <3>4. QED
      BY <3>1, <3>2, <3>3
  <2>3. QED
    BY <2>1, <2>2
<1>5. Kept(r) /\ reg'[r].pc = pc
  <2> DEFINE x == [reg[r] EXCEPT !.pc = pc, !.attempts = n]
  <2>1. reg' = [reg EXCEPT ![r] = x] /\ x \in Regs /\ x.pc = pc
        /\ x.newest = reg[r].newest /\ x.planned = reg[r].planned
        /\ x.content = reg[r].content /\ x.same = reg[r].same
        /\ x.restoring = reg[r].restoring /\ x.base = reg[r].base
        /\ x.list = reg[r].list /\ x.entry = reg[r].entry /\ x.made = reg[r].made
    BY <1>3, <1>4
  <2> HIDE DEF x
  <2>2. QED
    BY <1>1, <2>1 DEF Kept
<1>6. QED
  BY <1>2, <1>4, <1>5, TurnStep

\* The guard looks at the newest version.
LEMMA GuardStep ==
  ASSUME RegistrationInv, NEW r \in Registrars, Guard(r)
  PROVE  RegistrationInv'
<1>1. /\ TypeOK /\ Made(r) /\ Sourced(r) /\ ListStays(r)
      /\ reg[r] \in Regs /\ reg \in [Registrars -> Regs] /\ diskList \in Seq(Entries)
  BY DEF RegistrationInv, TypeOK
<1>2. /\ UNCHANGED <<commits, head, registry, database, edits>>
      /\ crashes' \in Nat /\ others' \in Nat /\ reg[r].pc = "idle"
  BY <1>1 DEF Guard, faults, TypeOK, At
<1>3. PICK pc \in {"compare", "refused", "plan"} :
        /\ reg' = [reg EXCEPT ![r] = [reg[r] EXCEPT !.newest = Newest(diskList), !.pc = pc]]
        /\ pc = "compare" => Newest(diskList) # NoEntry
  BY DEF Guard
<1> DEFINE x == [reg[r] EXCEPT !.newest = Newest(diskList), !.pc = pc]
<1>4. /\ Newest(diskList) \in Entries \cup {NoEntry} /\ pc \in Pcs
      /\ pc = "compare" => diskList # <<>>
  BY <1>1, <1>3, Lists DEF Pcs, Early, Ended
<1>5. x \in Regs /\ x.pc = pc /\ x.newest = Newest(diskList)
      /\ x.same = reg[r].same /\ x.restoring = reg[r].restoring
      /\ x.entry = reg[r].entry /\ x.made = reg[r].made
  BY <1>1, <1>4 DEF Regs
<1>6. reg' = [reg EXCEPT ![r] = x]
  BY <1>3
<1> HIDE DEF x
<1>7. /\ reg' \in [Registrars -> Regs] /\ reg'[r] = x
      /\ \A q \in Registrars \ {r} : reg'[q] = reg[q]
  BY <1>1, <1>5, <1>6
<1> USE DEF Early, Making, Syncing
<1>8. Sourced(r)'
  BY <1>1, <1>2, <1>3, <1>5, <1>7 DEF Sourced
<1>9. Made(r)'
  BY <1>1, <1>2, <1>3, <1>5, <1>7 DEF Made, Sourced
<1>10. StaysBehind(r) /\ \A f \in Files : FileStaysBehind(r, f)
  BY <1>1, <1>2, <1>5, <1>7 DEF StaysBehind, FileStaysBehind, BehindList, BehindIndex,
     BehindFile, Behind, Sourced
<1>11. ~Landing(r)'
  BY <1>1, <1>2, <1>3, <1>5, <1>7 DEF Landing, Sourced
<1>12. reg'[r].pc \in {"compare", "restore"} \/ reg'[r].same => diskList # <<>>
  <2>1. reg[r].same => diskList # <<>>
    BY <1>1 DEF ListStays
  <2>2. reg'[r].pc = "compare" => diskList # <<>>
    BY <1>4, <1>5, <1>7
  <2>3. reg'[r].pc # "restore" /\ reg'[r].same = reg[r].same
    BY <1>3, <1>5, <1>7
  <2>4. QED
    BY <2>1, <2>2, <2>3
<1>13. /\ reg'[r].pc \notin Syncing \cup {"verify"}
       /\ reg[r].pc \notin {"verify", "stuck", "unseen", "dead"}
       /\ reg'[r].made = reg[r].made /\ reg'[r].restoring = reg[r].restoring
  BY <1>2, <1>3, <1>5, <1>7
<1>14. QED
  BY <1>2, <1>7, <1>8, <1>9, <1>10, <1>11, <1>12, <1>13, OwnStep

\* A plan, and the copy that is checked against it.
LEMMA PlanStep ==
  ASSUME RegistrationInv, NEW r \in Registrars, Plan(r)
  PROVE  RegistrationInv'
<1>1. /\ TypeOK /\ Made(r) /\ Sourced(r) /\ ListStays(r)
      /\ reg[r] \in Regs /\ reg \in [Registrars -> Regs] /\ diskList \in Seq(Entries)
  BY DEF RegistrationInv, TypeOK
<1>2. /\ UNCHANGED <<commits, head, registry, database, edits>>
      /\ crashes' \in Nat /\ others' \in Nat /\ reg[r].pc = "plan"
  BY <1>1 DEF Plan, faults, TypeOK, At
<1> DEFINE newest == Newest(diskList)
<1>3. PICK content \in Contents :
        reg' = [reg EXCEPT ![r].pc = "confirm", ![r].planned = content, ![r].newest = newest,
                           ![r].same = (newest.content = content)]
  BY DEF Plan
<1> DEFINE same == (newest.content = content)
           x == [reg[r] EXCEPT !.pc = "confirm", !.planned = content, !.newest = newest,
                               !.same = same]
<1>4. /\ newest \in Entries \cup {NoEntry} /\ "confirm" \in Pcs
      /\ content \in Trees /\ same \in BOOLEAN
  BY <1>1, Lists DEF Pcs, Early, Trees
<1>5. same => diskList # <<>>
  BY <1>1, Lists, RegistrationAssumption DEF NoEntry
<1>6. same => content = newest.content
  OBVIOUS
<1>7. reg' = [reg EXCEPT ![r] = x]
  <2>1. reg' = [reg EXCEPT ![r].pc = "confirm", ![r].planned = content, ![r].newest = newest,
                           ![r].same = same]
    BY <1>3
  <2> HIDE DEF newest, same
  <2>2. QED
    BY <2>1
<1> HIDE DEF newest, same
<1>8. /\ x \in Regs /\ x.pc = "confirm" /\ x.newest = newest
      /\ x.planned = content /\ x.same = same /\ x.restoring = reg[r].restoring
      /\ x.entry = reg[r].entry /\ x.made = reg[r].made
  BY <1>1, <1>4 DEF Regs
<1> HIDE DEF x
<1>9. /\ reg' \in [Registrars -> Regs] /\ reg'[r] = x
      /\ \A q \in Registrars \ {r} : reg'[q] = reg[q]
  BY <1>1, <1>7, <1>8
<1> USE DEF Early, Making, Syncing
<1>10. Sourced(r)'
  BY <1>1, <1>2, <1>6, <1>8, <1>9 DEF Sourced
<1>11. Made(r)'
  BY <1>1, <1>2, <1>8, <1>9 DEF Made, Sourced
<1>12. StaysBehind(r) /\ \A f \in Files : FileStaysBehind(r, f)
  BY <1>1, <1>2, <1>8, <1>9 DEF StaysBehind, FileStaysBehind, BehindList, BehindIndex,
     BehindFile, Behind, Sourced
<1>13. ~Landing(r)'
  BY <1>8, <1>9 DEF Landing
<1>14. /\ reg'[r].pc \notin Syncing \cup {"verify"}
       /\ reg[r].pc \notin {"verify", "stuck", "unseen", "dead"}
       /\ reg'[r].pc \in {"compare", "restore"} \/ reg'[r].same => diskList # <<>>
       /\ reg'[r].made = reg[r].made /\ reg'[r].restoring = reg[r].restoring
  BY <1>2, <1>5, <1>8, <1>9
<1>15. QED
  BY <1>2, <1>9, <1>10, <1>11, <1>12, <1>13, <1>14, OwnStep

\* The copy is built again and compared with the plan.
LEMMA StageStep ==
  ASSUME RegistrationInv, NEW r \in Registrars, Stage(r)
  PROVE  RegistrationInv'
<1>1. /\ TypeOK /\ Made(r) /\ Sourced(r) /\ ListStays(r)
      /\ reg[r] \in Regs /\ reg \in [Registrars -> Regs] /\ diskList \in Seq(Entries)
  BY DEF RegistrationInv, TypeOK
<1>2. /\ UNCHANGED <<commits, head, registry, database, edits>>
      /\ crashes' \in Nat /\ others' \in Nat /\ reg[r].pc = "confirm"
  BY <1>1 DEF Stage, faults, TypeOK, At
<1>3. PICK content \in Contents, pc \in {"build", "refused"} :
        /\ reg' = [reg EXCEPT ![r] = [reg[r] EXCEPT
                      !.newest = Newest(diskList),
                      !.content = IF reg[r].same THEN Newest(diskList).content ELSE content,
                      !.pc = pc]]
        /\ pc = "build" => content = reg[r].planned
  BY DEF Stage, StillPlanned
<1> DEFINE newest == Newest(diskList)
           tree == IF reg[r].same THEN newest.content ELSE content
           x == [reg[r] EXCEPT !.newest = newest, !.content = tree, !.pc = pc]
<1>4. /\ newest \in Entries \cup {NoEntry} /\ pc \in Pcs
      /\ tree \in Trees /\ tree # Nothing
      /\ tree = IF reg[r].same THEN newest.content ELSE content
  <2>1. pc \in Pcs /\ content \in Trees /\ content # Nothing
    BY <1>3, RegistrationAssumption DEF Trees, Pcs, Early, Ended
  <2>2. newest \in Entries \cup {NoEntry}
    BY <1>1, Lists
  <2>3. reg[r].same => newest \in Entries
    BY <1>1, Lists DEF ListStays
  <2>4. reg[r].same => newest.content \in Trees /\ newest.content # Nothing
    BY <2>3, RegistrationAssumption DEF Entries, Trees
  <2>5. QED
    BY <2>1, <2>2, <2>4
<1> HIDE DEF newest, tree
<1>5. /\ x \in Regs /\ x.pc = pc /\ x.newest = newest /\ x.content = tree
      /\ x.planned = reg[r].planned /\ x.same = reg[r].same
      /\ x.restoring = reg[r].restoring /\ x.entry = reg[r].entry /\ x.made = reg[r].made
  BY <1>1, <1>4 DEF Regs
<1>6. reg' = [reg EXCEPT ![r] = x]
  BY <1>3 DEF newest, tree
<1> HIDE DEF x
<1>7. /\ reg' \in [Registrars -> Regs] /\ reg'[r] = x
      /\ \A q \in Registrars \ {r} : reg'[q] = reg[q]
  BY <1>1, <1>5, <1>6
<1> USE DEF Early, Making, Syncing
<1>8. Sourced(r)'
  BY <1>1, <1>2, <1>3, <1>4, <1>5, <1>7 DEF Sourced
<1>9. Made(r)'
  BY <1>1, <1>2, <1>3, <1>5, <1>7 DEF Made, Sourced
<1>10. StaysBehind(r) /\ \A f \in Files : FileStaysBehind(r, f)
  BY <1>1, <1>2, <1>5, <1>7 DEF StaysBehind, FileStaysBehind, BehindList, BehindIndex,
     BehindFile, Behind, Sourced
<1>11. ~Landing(r)'
  BY <1>1, <1>2, <1>3, <1>5, <1>7 DEF Landing
<1>12. /\ reg'[r].pc \notin Syncing \cup {"verify"}
       /\ reg[r].pc \notin {"verify", "stuck", "unseen", "dead"}
       /\ reg'[r].pc \in {"compare", "restore"} \/ reg'[r].same => diskList # <<>>
       /\ reg'[r].made = reg[r].made /\ reg'[r].restoring = reg[r].restoring
  BY <1>1, <1>2, <1>3, <1>5, <1>7 DEF ListStays
<1>13. QED
  BY <1>2, <1>7, <1>8, <1>9, <1>10, <1>11, <1>12, OwnStep

\* The registry is to be put in step with the HEAD of now.
LEMMA SyncHeadStep ==
  ASSUME RegistrationInv, NEW r \in Registrars, SyncHead(r)
  PROVE  RegistrationInv'
<1>1. /\ TypeOK /\ Made(r) /\ Sourced(r) /\ ListStays(r)
      /\ reg[r] \in Regs /\ reg \in [Registrars -> Regs] /\ head \in Nat
      /\ head \in DOMAIN commits
  BY DEF RegistrationInv, TypeOK
<1>2. /\ UNCHANGED <<commits, head, registry, database, edits>>
      /\ UNCHANGED <<commits, head>>
      /\ crashes' \in Nat /\ others' \in Nat /\ reg[r].pc = "syncHead"
  BY <1>1 DEF SyncHead, faults, TypeOK, At
<1> DEFINE x == [reg[r] EXCEPT !.pc = "syncList", !.base = head, !.file = 1]
<1>3. "syncList" \in Pcs /\ 1 \in Files
  BY RegistrationAssumption DEF Pcs, Syncing, Files
<1>4. /\ x \in Regs /\ x.pc = "syncList" /\ x.newest = reg[r].newest /\ x.base = head
      /\ x.content = reg[r].content
      /\ x.planned = reg[r].planned /\ x.same = reg[r].same
      /\ x.restoring = reg[r].restoring /\ x.entry = reg[r].entry /\ x.made = reg[r].made
      /\ x.file = 1
  BY <1>1, <1>3 DEF Regs
<1>5. reg' = [reg EXCEPT ![r] = x]
  BY DEF SyncHead
<1> HIDE DEF x
<1>6. /\ reg' \in [Registrars -> Regs] /\ reg'[r] = x
      /\ \A q \in Registrars \ {r} : reg'[q] = reg[q]
  BY <1>1, <1>4, <1>5
<1> USE DEF Early, Making, Syncing
<1>7. Sourced(r)'
  BY <1>1, <1>2, <1>4, <1>6 DEF Sourced
<1>8. Made(r)'
  BY <1>1, <1>2, <1>4, <1>6 DEF Made, Misplaced
<1>9. StaysBehind(r) /\ \A f \in Files : FileStaysBehind(r, f)
  BY <1>1, <1>2, <1>4, <1>6 DEF StaysBehind, FileStaysBehind, BehindList, BehindIndex,
     BehindFile, Behind, Misplaced
<1>10. Landing(r)' => Landing(r) /\ reg'[r].entry = reg[r].entry
  BY <1>1, <1>2, <1>4, <1>6 DEF Landing
<1>11. /\ reg[r].pc \in Syncing \cup {"verify"}
       /\ reg[r].pc \notin {"verify", "stuck", "unseen", "dead"}
       /\ reg'[r].pc \in {"compare", "restore"} \/ reg'[r].same => diskList # <<>>
       /\ reg'[r].made = reg[r].made /\ reg'[r].restoring = reg[r].restoring
  BY <1>1, <1>2, <1>4, <1>6 DEF ListStays
<1>12. QED
  BY <1>2, <1>6, <1>7, <1>8, <1>9, <1>10, <1>11, OwnStep

\* The list a registration reads to commit: it extends HEAD's, or is HEAD's.
LEMMA ListOverFacts ==
  ASSUME RegistrationInv, NEW r \in Registrars, reg[r].pc = "readHead"
  PROVE  LET list == ListOver(r, head)
             held == commits[head].list
             adds == ~reg[r].same /\ ~reg[r].restoring
         IN  /\ list \in Seq(Entries) /\ list # <<>> /\ Numbered(list)
             /\ ToSet(held) \subseteq ToSet(list)
             /\ adds => Last(list) \in Entries /\ list # held /\ Contains(list, Last(list))
             /\ reg[r].restoring => list = held
<1>1. /\ TypeOK /\ CommitsOrdered /\ Sourced(r) /\ ListStays(r) /\ HeadListed /\ ListsNumbered
      /\ reg[r] \in Regs
  BY DEF RegistrationInv, TypeOK
<1> DEFINE held == commits[head].list
           base == ListAt(head)
           e == NextEntry(r, base)
<1>2. /\ head \in DOMAIN commits /\ head \in History /\ \A i \in History : i <= head
  BY <1>1, HistoryFacts
<1>3. held \in Seq(Entries) /\ diskList \in Seq(Entries) /\ Numbered(held) /\ Numbered(diskList)
  BY <1>1, <1>2, CommitFacts DEF TypeOK, ListsNumbered
<1>4. /\ base \in Seq(Entries) /\ Numbered(base)
      /\ held # <<>> => base = held
  BY <1>3 DEF ListAt
<1>5. reg[r].same \/ reg[r].restoring => held # <<>>
  <2>1. diskList # <<>> => held # <<>>
    BY <1>1, <1>2 DEF HeadListed, ListedFrom
  <2>2. QED
    BY <1>1, <2>1 DEF ListStays
<1>6. CASE reg[r].same \/ reg[r].restoring
  <2>1. ListOver(r, head) = held
    BY <1>4, <1>5, <1>6 DEF ListOver
  <2> HIDE DEF held
  <2>2. QED
    BY <1>3, <1>5, <1>6, <2>1 DEF held
<1>7. CASE ~(reg[r].same \/ reg[r].restoring)
  <2>1. ListOver(r, head) = Append(base, e)
    BY <1>7 DEF ListOver
  <2>2. /\ e \in Entries /\ e.label = Newest(base).label + 1
    <3>1. reg[r].content \in Contents
      BY <1>1, FieldTypes DEF Sourced, Trees
    <3>2. <<r, reg[r].attempts>> \in Registrars \X Nat
      BY <1>1, FieldTypes
    <3>3. Newest(base).label + 1 \in Nat
      BY <1>4, Lists
    <3>4. QED
      BY <3>1, <3>2, <3>3 DEF NextEntry, Entries
  <2> HIDE DEF e, base
  <2>3. /\ Append(base, e) \in Seq(Entries) /\ Append(base, e) # <<>>
        /\ Append(base, e) # base /\ ToSet(base) \subseteq ToSet(Append(base, e))
        /\ Contains(Append(base, e), e) /\ Last(Append(base, e)) = e
        /\ Numbered(Append(base, e))
    BY <1>4, <2>2, Appends
  <2>4. ToSet(held) \subseteq ToSet(Append(base, e)) /\ Append(base, e) # held
    <3>1. CASE held = <<>>
      BY <2>3, <3>1 DEF ToSet
    <3>2. CASE held # <<>>
      BY <1>4, <2>3, <3>2
    <3>3. QED
      BY <3>1, <3>2
  <2>5. QED
    BY <1>7, <2>1, <2>2, <2>3, <2>4
<1>8. QED
  BY <1>6, <1>7

\* HEAD is read, with the list to commit over it.
LEMMA ReadHeadStep ==
  ASSUME RegistrationInv, NEW r \in Registrars, ReadHead(r)
  PROVE  RegistrationInv'
<1>1. /\ TypeOK /\ Made(r) /\ Sourced(r) /\ ListStays(r)
      /\ reg[r] \in Regs /\ reg \in [Registrars -> Regs] /\ head \in Nat
      /\ head \in DOMAIN commits
  BY DEF RegistrationInv, TypeOK
<1>2. /\ UNCHANGED <<commits, head, registry, database, edits>>
      /\ UNCHANGED <<commits, head>>
      /\ crashes' \in Nat /\ others' \in Nat /\ reg[r].pc = "readHead"
  BY <1>1 DEF ReadHead, faults, TypeOK, At
<1> DEFINE list == ListOver(r, head)
           held == commits[head].list
           adds == ~reg[r].same /\ ~reg[r].restoring
           entry == IF adds THEN Last(list) ELSE NoEntry
           x == [reg[r] EXCEPT !.pc = "check", !.base = head, !.list = list, !.entry = entry]
<1>3. /\ list \in Seq(Entries) /\ list # <<>> /\ Numbered(list)
      /\ ToSet(held) \subseteq ToSet(list)
      /\ entry \in Entries \cup {NoEntry}
      /\ entry # NoEntry => list # held /\ Contains(list, entry)
      /\ reg[r].restoring => list = held
  BY <1>2, ListOverFacts
<1>4. reg' = [reg EXCEPT ![r] = x]
  BY DEF ReadHead
<1>5. "check" \in Pcs
  BY DEF Pcs, Making
<1> HIDE DEF list, entry
<1>6. /\ x \in Regs /\ x.pc = "check" /\ x.base = head /\ x.list = list /\ x.entry = entry
      /\ x.newest = reg[r].newest /\ x.content = reg[r].content
      /\ x.planned = reg[r].planned /\ x.same = reg[r].same
      /\ x.restoring = reg[r].restoring /\ x.made = reg[r].made
  BY <1>1, <1>3, <1>5 DEF Regs
<1> HIDE DEF x
<1>7. /\ reg' \in [Registrars -> Regs] /\ reg'[r] = x
      /\ \A q \in Registrars \ {r} : reg'[q] = reg[q]
  BY <1>1, <1>4, <1>6
<1> USE DEF Early, Making, Syncing
<1>8. Sourced(r)'
  BY <1>1, <1>2, <1>6, <1>7 DEF Sourced
<1>9. Made(r)'
  <2>1. MayCommit(r)'
    BY <1>2, <1>3, <1>6, <1>7 DEF MayCommit
  <2>2. QED
    BY <1>1, <1>2, <1>6, <1>7, <2>1 DEF Made
<1>10. StaysBehind(r) /\ \A f \in Files : FileStaysBehind(r, f)
  BY <1>1, <1>2, <1>6, <1>7 DEF StaysBehind, FileStaysBehind, BehindList, BehindIndex,
     BehindFile, Behind, Misplaced
<1>11. ~Landing(r)'
  BY <1>6, <1>7 DEF Landing
<1>12. /\ reg'[r].pc \notin Syncing \cup {"verify"}
       /\ reg[r].pc \notin {"verify", "stuck", "unseen", "dead"}
       /\ reg'[r].pc \in {"compare", "restore"} \/ reg'[r].same => diskList # <<>>
       /\ reg'[r].made = reg[r].made /\ reg'[r].restoring = reg[r].restoring
  BY <1>1, <1>2, <1>6, <1>7 DEF ListStays
<1>13. QED
  BY <1>2, <1>7, <1>8, <1>9, <1>10, <1>11, <1>12, OwnStep

\* The fields a registration sets when HEAD is not its base.
LEMMA MovedFacts ==
  ASSUME TypeOK, NEW r \in Registrars, Moved(r)
  PROVE  /\ reg' \in [Registrars -> Regs] /\ \A q \in Registrars \ {r} : reg'[q] = reg[q]
         /\ \/ reg'[r].pc = "readHead"
            \/ reg'[r].pc = "gaveUp" /\ ~reg[r].restoring
            \/ reg'[r].pc = "stopped" /\ reg[r].restoring
         /\ reg'[r].entry = NoEntry
         /\ reg'[r].newest = reg[r].newest /\ reg'[r].planned = reg[r].planned
         /\ reg'[r].content = reg[r].content /\ reg'[r].same = reg[r].same
         /\ reg'[r].restoring = reg[r].restoring /\ reg'[r].made = reg[r].made
<1>1. reg[r] \in Regs /\ reg \in [Registrars -> Regs]
  BY DEF TypeOK
<1> DEFINE again == reg[r].attempts + 1 < MaxAttempts
           pc == IF again THEN "readHead" ELSE Stop(r, "gaveUp")
           n == IF again THEN reg[r].attempts + 1 ELSE 0
           x == [reg[r] EXCEPT !.pc = pc, !.attempts = n, !.list = <<>>, !.entry = NoEntry]
<1>2. reg' = [reg EXCEPT ![r] = x]
  BY DEF Moved
<1>3. n \in Nat
  BY <1>1, FieldTypes
<1>4. /\ \/ pc = "readHead"
         \/ pc = "gaveUp" /\ ~reg[r].restoring
         \/ pc = "stopped" /\ reg[r].restoring
      /\ pc \in Pcs
  BY DEF Stop, Pcs, Ended
<1>5. <<>> \in Seq(Entries)
  OBVIOUS
<1> HIDE DEF n, pc
<1>6. /\ x \in Regs /\ x.pc = pc /\ x.entry = NoEntry
      /\ x.newest = reg[r].newest /\ x.planned = reg[r].planned
      /\ x.content = reg[r].content /\ x.same = reg[r].same
      /\ x.restoring = reg[r].restoring /\ x.made = reg[r].made
  BY <1>1, <1>3, <1>4, <1>5 DEF Regs
<1> HIDE DEF x
<1>7. QED
  BY <1>1, <1>2, <1>4, <1>6

\* A registration that finds a HEAD that moved: it has committed nothing by then.
LEMMA MovedStep ==
  ASSUME RegistrationInv, NEW r \in Registrars, Moved(r), reg[r].pc \in Making,
         UNCHANGED <<commits, head, registry, database, faults>>
  PROVE  RegistrationInv'
<1>1. /\ TypeOK /\ Made(r) /\ Sourced(r) /\ ListStays(r) /\ reg[r] \in Regs
      /\ UNCHANGED <<commits, head, registry, database, edits>>
      /\ UNCHANGED <<commits, head>>
      /\ crashes' \in Nat /\ others' \in Nat
  BY DEF RegistrationInv, TypeOK, faults
<1> USE DEF Early, Making, Syncing
<1>2. /\ reg' \in [Registrars -> Regs] /\ \A q \in Registrars \ {r} : reg'[q] = reg[q]
      /\ \/ reg'[r].pc = "readHead"
         \/ reg'[r].pc = "gaveUp" /\ ~reg[r].restoring
         \/ reg'[r].pc = "stopped" /\ reg[r].restoring
      /\ reg'[r].entry = NoEntry
      /\ reg'[r].newest = reg[r].newest /\ reg'[r].planned = reg[r].planned
      /\ reg'[r].content = reg[r].content /\ reg'[r].same = reg[r].same
      /\ reg'[r].restoring = reg[r].restoring /\ reg'[r].made = reg[r].made
  BY <1>1, MovedFacts
<1>3. Sourced(r)'
  BY <1>1, <1>2 DEF Sourced
<1>4. Made(r)'
  BY <1>1, <1>2 DEF Made
<1>5. StaysBehind(r) /\ \A f \in Files : FileStaysBehind(r, f)
  BY <1>1, <1>2 DEF StaysBehind, FileStaysBehind, BehindList, BehindIndex, BehindFile,
     Behind, Misplaced
<1>6. ~Landing(r)'
  BY <1>2 DEF Landing
<1>7. /\ reg'[r].pc \notin Syncing \cup {"verify"}
      /\ reg[r].pc \notin {"verify", "stuck", "unseen", "dead"}
      /\ reg'[r].pc \in {"compare", "restore"} \/ reg'[r].same => diskList # <<>>
  BY <1>1, <1>2 DEF ListStays
<1>8. QED
  BY <1>1, <1>2, <1>3, <1>4, <1>5, <1>6, <1>7, OwnStep

\* A hook refuses the commit.
LEMMA HookRefusesStep ==
  ASSUME RegistrationInv, NEW r \in Registrars, HookRefuses(r)
  PROVE  RegistrationInv'
<1>1. /\ TypeOK /\ UNCHANGED <<commits, head, registry, database, edits, faults>>
      /\ crashes' \in Nat /\ others' \in Nat
  BY DEF HookRefuses, faults, RegistrationInv, TypeOK
<1>2. CASE Moved(r)
  BY <1>1, <1>2, MovedStep DEF HookRefuses, At, Making
<1>3. CASE Goto(r, "refused")
  <2>1. "refused" \in Pcs /\ Turns(r, reg[r].pc, "refused")
    BY DEF HookRefuses, Turns, At, Pcs, Ended
  <2>2. QED
    BY <1>1, <1>3, <2>1, GotoKeeps, TurnStep
<1>4. QED
  BY <1>2, <1>3 DEF HookRefuses

\* A registration that looks at HEAD before it commits.
LEMMA CheckStep ==
  ASSUME RegistrationInv, NEW r \in Registrars, Check(r)
  PROVE  RegistrationInv'
<1>1. /\ TypeOK /\ Made(r) /\ Sourced(r) /\ ListStays(r) /\ reg[r] \in Regs
  BY DEF RegistrationInv, TypeOK
<1>2. /\ UNCHANGED <<commits, head, registry, database, edits, faults>>
      /\ UNCHANGED <<commits, head>>
      /\ crashes' \in Nat /\ others' \in Nat /\ reg[r].pc = "check"
  BY <1>1 DEF Check, faults, TypeOK, At
<1> USE DEF Early, Making, Syncing
<1>3. CASE head # reg[r].base
  BY <1>2, <1>3, MovedStep DEF Check
<1>4. CASE head = reg[r].base
  <2> DEFINE base == commits[reg[r].base]
             unchanged == reg[r].list = base.list /\ reg[r].content = base.tree
             to == IF unchanged THEN Stop(r, "rows") ELSE "gitCommit"
  <2>1. Goto(r, to)
    BY <1>4 DEF Check
  <2>2. unchanged => reg[r].entry = NoEntry
    BY <1>1, <1>2 DEF Made, MayCommit
  <2>3. to \in Pcs /\ Turns(r, reg[r].pc, to)
    BY <1>2, <2>2 DEF Turns, Stop, Pcs, Ended
  <2> HIDE DEF to
  <2>4. QED
    BY <1>1, <1>2, <2>1, <2>3, GotoKeeps, TurnStep
<1>5. QED
  BY <1>3, <1>4
\* A commit c over HEAD that keeps the versions of the list it was built on.
Extends(c) ==
  /\ c \in Commits /\ c.past = PastOverHead /\ c.parent = head /\ c.base \in DOMAIN commits
  /\ Numbered(c.list) /\ (c.list # <<>> \/ c.list = commits[head].list)
  /\ ToSet(commits[c.base].list) \subseteq ToSet(c.list)
  /\ c.by = Nothing => c.base = head
  /\ commits' = Append(commits, c) /\ head' = Len(commits')

\* What a commit over HEAD adds to the commits and to HEAD's history.
LEMMA ExtendsFacts ==
  ASSUME RegistrationInv, NEW c, Extends(c)
  PROVE  /\ History' = History \cup {head'} /\ head' \notin DOMAIN commits
         /\ \A i \in DOMAIN commits : i < head' /\ i \in Nat /\ commits'[i] = commits[i]
         /\ DOMAIN commits' = DOMAIN commits \cup {head'} /\ commits'[head'] = c
         /\ commits' \in Seq(Commits) /\ head' \in Nat
         /\ \A i \in History : i \in DOMAIN commits /\ i <= head
         /\ head \in History
<1>1. TypeOK /\ CommitsOrdered /\ c \in Commits /\ c.past = PastOverHead
  BY DEF RegistrationInv, Extends
<1>2. commits' = Append(commits, c) /\ head' = Len(commits')
  BY DEF Extends
<1>3. /\ History' = History \cup {head'} /\ head' = Len(commits) + 1 /\ head' \notin DOMAIN commits
      /\ \A i \in DOMAIN commits : i < head' /\ commits'[i] = commits[i]
      /\ DOMAIN commits' = DOMAIN commits \cup {head'} /\ commits'[head'] = c
      /\ commits' \in Seq(Commits)
  BY <1>1, <1>2, HistoryGrows
<1>4. /\ \A i \in History : i \in DOMAIN commits /\ i <= head
      /\ head \in History
      /\ DOMAIN commits = 1..Len(commits) /\ Len(commits) \in Nat
  BY <1>1, HistoryFacts
<1>5. QED
  BY <1>3, <1>4

\* A list that holds what another holds contains its entries.
LEMMA ContainsMore ==
  ASSUME NEW s, NEW t, ToSet(s) \subseteq ToSet(t), NEW e, Contains(s, e)
  PROVE  Contains(t, e)
  BY DEF ToSet, Contains

\* The commits stay ordered and their lists numbered, and HEAD keeps a version list.
LEMMA ExtendsKeeps ==
  ASSUME RegistrationInv, NEW c, Extends(c), UNCHANGED registry
  PROVE  CommitsOrdered' /\ ListsNumbered' /\ HeadListed'
<1>1. /\ CommitsOrdered /\ ListsNumbered /\ HeadListed
      /\ UNCHANGED <<diskList, index, listed>>
  BY DEF RegistrationInv, registry
<1>2. /\ History' = History \cup {head'} /\ head' \notin DOMAIN commits
      /\ \A i \in DOMAIN commits : i < head' /\ i \in Nat /\ commits'[i] = commits[i]
      /\ DOMAIN commits' = DOMAIN commits \cup {head'} /\ commits'[head'] = c
      /\ head' \in Nat
      /\ \A i \in History : i \in DOMAIN commits /\ i <= head
      /\ head \in History
  BY ExtendsFacts
<1>3. /\ c.past = PastOverHead /\ c.parent = head /\ c.base \in DOMAIN commits
      /\ Numbered(c.list) /\ (c.list # <<>> \/ c.list = commits[head].list)
      /\ ToSet(commits[c.base].list) \subseteq ToSet(c.list)
      /\ c.by = Nothing => c.base = head
  BY DEF Extends
<1>4. ListsNumbered'
  BY <1>1, <1>2, <1>3 DEF ListsNumbered
<1>5. CommitsOrdered'
  <2>1. DOMAIN commits = 1..Len(commits) /\ Len(commits) \in Nat /\ head \in DOMAIN commits
    BY DEF RegistrationInv, TypeOK
  <2>2. head' = Len(commits) + 1
    BY DEF Extends, RegistrationInv, TypeOK
  <2>3. c.past = commits[head].past \cup {head'}
    BY <1>3, <2>2 DEF PastOverHead
  <2>4. commits[head].past \subseteq 1..head
    BY <1>1, <2>1 DEF CommitsOrdered
  <2> SUFFICES ASSUME NEW i \in DOMAIN commits'
               PROVE  /\ commits'[i].past \subseteq 1..i
                      /\ IF i = 1 THEN /\ commits'[i].parent = 0 /\ commits'[i].base = 0
                                       /\ commits'[i].by = Nothing /\ commits'[i].past = {1}
                         ELSE /\ commits'[i].parent \in 1..(i - 1)
                              /\ commits'[i].base \in 1..(i - 1)
                              /\ commits'[i].past = commits'[commits'[i].parent].past \cup {i}
                              /\ ToSet(commits'[commits'[i].base].list)
                                   \subseteq ToSet(commits'[i].list)
                              /\ commits'[i].by = Nothing => commits'[i].parent = commits'[i].base
    BY DEF CommitsOrdered, Misplaced
  <2>5. CASE i \in DOMAIN commits
    <3>1. \A j \in 1..(i - 1) : commits'[j] = commits[j]
      BY <1>2, <2>1, <2>5
    <3>2. /\ commits[i].past \subseteq 1..i
          /\ IF i = 1 THEN /\ commits[i].parent = 0 /\ commits[i].base = 0
                           /\ commits[i].by = Nothing /\ commits[i].past = {1}
             ELSE /\ commits[i].parent \in 1..(i - 1)
                  /\ commits[i].base \in 1..(i - 1)
                  /\ commits[i].past = commits[commits[i].parent].past \cup {i}
                  /\ ToSet(commits[commits[i].base].list) \subseteq ToSet(commits[i].list)
                  /\ commits[i].by = Nothing => commits[i].parent = commits[i].base
      BY <1>1, <2>5 DEF CommitsOrdered, Misplaced
    <3>3. commits'[i] = commits[i]
      BY <1>2, <2>5
    <3>4. QED
      BY <3>1, <3>2, <3>3
  <2>6. CASE i = head'
    <3>1. i # 1 /\ \A j \in 1..(i - 1) : j \in DOMAIN commits /\ commits'[j] = commits[j]
      BY <1>2, <2>1, <2>2, <2>6
    <3>2. head \in 1..(i - 1) /\ c.base \in 1..(i - 1) /\ commits'[i] = c
      BY <1>2, <1>3, <2>1, <2>2, <2>6
    <3>3. c.past \subseteq 1..i
      BY <2>1, <2>2, <2>3, <2>4, <2>6
    <3>4. QED
      BY <1>3, <2>3, <2>6, <3>1, <3>2, <3>3
  <2>7. QED
    BY <1>2, <2>5, <2>6
<1>6. HeadListed'
  <2> SUFFICES ASSUME diskList # <<>>
               PROVE  \E i \in History' : ~Misplaced(i)' /\ ListedFrom(i)'
    BY <1>1 DEF HeadListed
  <2>1. PICK i \in History : ~Misplaced(i) /\ ListedFrom(i)
    BY <1>1 DEF HeadListed
  <2>2. ~Misplaced(i)'
    BY <1>2, <2>1 DEF Misplaced
  <2>3. commits[head].list # <<>>
    BY <1>2, <2>1 DEF ListedFrom
  <2>4. ListedFrom(i)'
    BY <1>2, <1>3, <2>1, <2>3 DEF ListedFrom
  <2>5. QED
    BY <1>2, <2>2, <2>4
<1>7. QED
  BY <1>4, <1>5, <1>6

\* A commit over HEAD leaves what a registration that did not make it rests on.
LEMMA OthersKeep ==
  ASSUME RegistrationInv, NEW c, Extends(c), UNCHANGED registry,
         NEW q \in Registrars, reg'[q] = reg[q], c.by # q
  PROVE  /\ (Sourced(q) /\ Made(q) /\ CommitStays(q) /\ ListStays(q))'
         /\ StaysBehind(q) /\ \A f \in Files : FileStaysBehind(q, f)
<1>1. /\ Sourced(q) /\ Made(q) /\ CommitStays(q) /\ ListStays(q)
      /\ UNCHANGED <<diskList, index>>
  BY DEF RegistrationInv, registry
<1>2. /\ History' = History \cup {head'} /\ head' \notin DOMAIN commits
      /\ \A i \in DOMAIN commits : i < head' /\ i \in Nat /\ commits'[i] = commits[i]
      /\ DOMAIN commits' = DOMAIN commits \cup {head'} /\ commits'[head'] = c
      /\ head' \in Nat
      /\ \A i \in History : i \in DOMAIN commits /\ i <= head
      /\ head \in History
  BY ExtendsFacts
<1>3. /\ c.parent = head /\ c.base \in DOMAIN commits
      /\ c.list # <<>> \/ c.list = commits[head].list
      /\ ToSet(commits[c.base].list) \subseteq ToSet(c.list)
  BY DEF Extends
<1>4. Sourced(q)'
  BY <1>1 DEF Sourced
<1>5. Made(q)'
  <2>1. reg[q].pc \in Making => reg[q].base \in DOMAIN commits /\ MayCommit(q)
    BY <1>1 DEF Made
  <2>2. (reg[q].pc \in Making => MayCommit(q)')
    BY <1>2, <2>1 DEF MayCommit
  <2>3. QED
    BY <1>1, <1>2, <2>2 DEF Made, Misplaced
<1>6. CommitStays(q)'
  <2> SUFFICES ASSUME Landing(q)
               PROVE  /\ reg[q].made \in History'
                      /\ reg[q].entry # NoEntry =>
                           \A j \in History' : j >= reg[q].made =>
                             \/ Contains(commits'[j].list, reg[q].entry)
                             \/ \E k \in History' : k <= j /\ Misplaced(k)'
    BY DEF CommitStays, Landing, HeldFrom
  <2>1. reg[q].made \in History
    BY <1>1 DEF CommitStays
  <2>2. ASSUME reg[q].entry # NoEntry, NEW j \in History, j >= reg[q].made
        PROVE  \/ Contains(commits[j].list, reg[q].entry)
               \/ \E k \in History : k <= j /\ Misplaced(k)
    BY <1>1, <2>2 DEF CommitStays, HeldFrom
  <2>3. \A k \in History : Misplaced(k)' <=> Misplaced(k)
    BY <1>2 DEF Misplaced
  <2>4. ASSUME reg[q].entry # NoEntry, NEW j \in History', j >= reg[q].made
        PROVE  \/ Contains(commits'[j].list, reg[q].entry)
               \/ \E k \in History' : k <= j /\ Misplaced(k)'
    <3>1. CASE j \in History
      BY <1>2, <2>2, <2>3, <2>4, <3>1
    <3>2. CASE j = head' /\ c.base # head
      <4>1. Misplaced(j)' /\ j <= j /\ j \in History'
        BY <1>2, <1>3, <3>2 DEF Misplaced
      <4>2. QED
        BY <4>1
    <3>3. CASE j = head' /\ c.base = head
      <4>1. \/ Contains(commits[head].list, reg[q].entry)
            \/ \E k \in History : k <= head /\ Misplaced(k)
        BY <1>2, <2>1, <2>2, <2>4
      <4>2. CASE Contains(commits[head].list, reg[q].entry)
        BY <1>2, <1>3, <3>3, <4>2, ContainsMore
      <4>3. CASE \E k \in History : k <= head /\ Misplaced(k)
        <5>1. PICK k \in History : k <= head /\ Misplaced(k)
          BY <4>3
        <5>2. k \in History' /\ k <= j /\ Misplaced(k)'
          BY <1>2, <2>3, <3>3, <5>1
        <5>3. QED
          BY <5>2
      <4>4. QED
        BY <4>1, <4>2, <4>3
    <3>4. QED
      BY <1>2, <3>1, <3>2, <3>3
  <2>5. QED
    BY <1>2, <2>1, <2>4
<1>7. ListStays(q)'
  <2>1. ASSUME reg[q].pc \in Syncing \cup {"verify"}, ~reg[q].restoring
        PROVE  \A j \in History' : j >= reg[q].made => commits'[j].list # <<>>
    <3>1. Landing(q)
      BY <2>1 DEF Landing
    <3>2. reg[q].made \in History
      BY <1>1, <3>1 DEF CommitStays
    <3>3. \A j \in History : j >= reg[q].made => commits[j].list # <<>>
      BY <1>1, <2>1 DEF ListStays, ListedFrom
    <3>4. commits[head].list # <<>>
      BY <1>2, <3>2, <3>3
    <3>5. QED
      BY <1>2, <1>3, <3>3, <3>4
  <2>2. QED
    BY <1>1, <2>1 DEF ListStays, ListedFrom
<1>8. StaysBehind(q) /\ \A f \in Files : FileStaysBehind(q, f)
  <2>1. reg[q].pc \in Syncing => reg[q].base # head'
    BY <1>1, <1>2 DEF Made
  <2>2. \A i \in DOMAIN commits : i \in DOMAIN commits' /\ commits'[i] = commits[i]
    BY <1>2
  <2>3. reg[q].made # 0 => reg[q].made \in DOMAIN commits
    BY <1>1 DEF Made
  <2>4. QED
    BY <1>1, <2>1, <2>2, <2>3 DEF StaysBehind, FileStaysBehind, BehindList, BehindIndex,
       BehindFile, Behind, Misplaced
<1>9. QED
  BY <1>4, <1>5, <1>6, <1>7, <1>8
\* git commits over the temporary index, and the registration knows of it or not.
LEMMA GitCommitStep ==
  ASSUME RegistrationInv, NEW r \in Registrars, GitCommit(r) \/ CommitUnseen(r)
  PROVE  RegistrationInv'
<1>1. /\ TypeOK /\ Made(r) /\ Sourced(r) /\ ListStays(r) /\ MayCommit(r)
      /\ reg[r] \in Regs /\ reg \in [Registrars -> Regs] /\ reg[r].pc = "gitCommit"
      /\ reg[r].base \in DOMAIN commits /\ head \in DOMAIN commits /\ commits \in Seq(Commits)
      /\ RowsDistinct /\ UndoingAnswered /\ OutOfStep
  BY DEF RegistrationInv, TypeOK, GitCommit, CommitUnseen, At, Made, Making
<1>2. /\ UNCHANGED <<diskList, files, index, listed, rows, known, crashes, edits, others>>
      /\ UNCHANGED registry
  BY DEF GitCommit, CommitUnseen, registry, database, faults
<1>3. PICK c : c = [list |-> reg[r].list, tree |-> reg[r].content, parent |-> head,
                    base |-> reg[r].base, by |-> r, past |-> PastOverHead]
  OBVIOUS
<1>4. /\ c.list = reg[r].list /\ c.tree = reg[r].content /\ c.parent = head
      /\ c.base = reg[r].base /\ c.by = r /\ c.past = PastOverHead
  BY <1>3
<1>5. c \in Commits
  <2>1. PastOverHead \in SUBSET (Nat \ {0})
    <3>1. commits[head].past \in SUBSET (Nat \ {0})
      <4>1. commits[head] \in Commits
        BY <1>1
      <4>2. QED
        BY <4>1 DEF Commits
    <3>2. Len(commits) + 1 \in Nat \ {0}
      BY <1>1
    <3>3. QED
      BY <3>1, <3>2 DEF PastOverHead
  <2>2. reg[r].base \in Nat /\ head \in Nat
    BY <1>1
  <2>3. reg[r].list \in Seq(Entries) /\ reg[r].content \in Trees
    BY <1>1, FieldTypes
  <2>4. QED
    BY <1>3, <2>1, <2>2, <2>3 DEF Commits
<1>6. PICK pc \in {"verify", "unseen"} :
        /\ commits' = Append(commits, c) /\ head' = Len(commits')
        /\ reg' = [reg EXCEPT ![r] = [reg[r] EXCEPT !.pc = pc, !.made = head']]
  BY <1>3 DEF GitCommit, CommitUnseen, Committed
<1> HIDE <1>3
<1>7. Extends(c)
  <2>1. c.by # Nothing
    BY <1>4, RegistrationAssumption
  <2>2. QED
    BY <1>1, <1>4, <1>5, <1>6, <2>1 DEF Extends, MayCommit
<1>8. /\ History' = History \cup {head'} /\ head' \notin DOMAIN commits
      /\ \A i \in DOMAIN commits : i < head' /\ i \in Nat /\ commits'[i] = commits[i]
      /\ DOMAIN commits' = DOMAIN commits \cup {head'} /\ commits'[head'] = c
      /\ commits' \in Seq(Commits) /\ head' \in Nat
      /\ \A i \in History : i \in DOMAIN commits /\ i <= head
      /\ head \in History
  BY <1>7, ExtendsFacts
<1> DEFINE x == [reg[r] EXCEPT !.pc = pc, !.made = head']
<1>9. /\ x \in Regs /\ x.pc = pc /\ pc \in {"verify", "unseen"} /\ x.newest = reg[r].newest
      /\ x.base = reg[r].base /\ x.list = reg[r].list
      /\ x.content = reg[r].content /\ x.planned = reg[r].planned /\ x.same = reg[r].same
      /\ x.restoring = reg[r].restoring /\ x.entry = reg[r].entry /\ x.made = head'
  BY <1>1, <1>8 DEF Regs, Pcs, Ended
<1>10. reg' = [reg EXCEPT ![r] = x]
  BY <1>6
<1> HIDE DEF x
<1>11. /\ reg' \in [Registrars -> Regs] /\ reg'[r] = x
       /\ \A q \in Registrars \ {r} : reg'[q] = reg[q]
  BY <1>1, <1>9, <1>10
<1>12. TypeOK'
  BY <1>2, <1>8, <1>11, <1>1 DEF TypeOK
<1>13. CommitsOrdered' /\ ListsNumbered' /\ HeadListed'
  BY <1>2, <1>7, ExtendsKeeps
<1>14. RowsDistinct'
  BY <1>1, <1>2 DEF RowsDistinct
<1>15. ASSUME NEW q \in Registrars, q # r
       PROVE  /\ (Sourced(q) /\ Made(q) /\ CommitStays(q) /\ ListStays(q))'
              /\ StaysBehind(q) /\ \A f \in Files : FileStaysBehind(q, f)
  BY <1>2, <1>4, <1>7, <1>11, <1>15, OthersKeep
<1> USE DEF Early, Making, Syncing
<1>16. Sourced(r)'
  BY <1>1, <1>9, <1>11 DEF Sourced
<1>17. Made(r)'
  BY <1>1, <1>4, <1>8, <1>9, <1>11 DEF Made
<1>18. CommitStays(r)'
  <2>1. reg[r].entry # NoEntry => Contains(c.list, reg[r].entry)
    BY <1>1, <1>4 DEF MayCommit
  <2>2. \A j \in History' : j >= head' => j = head'
    BY <1>8
  <2>3. QED
    BY <1>8, <1>9, <1>11, <2>1, <2>2 DEF CommitStays, HeldFrom
<1>19. ListStays(r)'
  <2>1. c.list # <<>>
    BY <1>1, <1>4 DEF MayCommit
  <2>2. \A j \in History' : j >= head' => j = head'
    BY <1>8
  <2>3. QED
    BY <1>1, <1>2, <1>8, <1>9, <1>11, <2>1, <2>2 DEF ListStays, ListedFrom
<1>20. UndoingAnswered'
  <2> SUFFICES ASSUME NEW i \in History', Misplaced(i)'
               PROVE  Answered(i)'
    BY DEF UndoingAnswered
  <2>1. CASE i = head'
    BY <1>4, <1>8, <1>9, <1>11, <2>1 DEF Answered
  <2>2. CASE i \in History
    <3>1. commits'[i] = commits[i]
      BY <1>8, <2>2
    <3>2. Answered(i)
      BY <1>1, <2>2, <3>1 DEF UndoingAnswered, Misplaced
    <3>3. commits[i].by \in Registrars
      BY <1>8, <2>2, <3>1, CommitFacts DEF RegistrationInv, Misplaced
    <3>4. commits[i].by # r
      BY <1>1, <3>2 DEF Answered
    <3>5. reg'[commits'[i].by] = reg[commits[i].by]
      BY <1>11, <3>1, <3>3, <3>4
    <3>6. QED
      BY <3>1, <3>2, <3>5 DEF Answered
  <2>3. QED
    BY <1>8, <2>1, <2>2
<1>21. OutOfStep'
  <2>1. CASE ~reg[r].restoring
    <3>1. BehindList(r)' /\ BehindIndex(r)'
      BY <1>9, <1>11, <2>1 DEF BehindList, BehindIndex, Behind
    <3>2. \A f \in Files : FileLate(f)'
      BY <1>9, <1>11, <2>1 DEF FileLate, BehindFile, BehindList, Behind
    <3>3. ListLate' /\ IndexLate'
      BY <3>1 DEF ListLate, IndexLate
    <3>4. QED
      BY <3>2, <3>3 DEF OutOfStep
  <2>2. CASE reg[r].restoring
    <3>1. ~NoRestores'
      BY <1>9, <1>11, <2>2 DEF NoRestores
    <3>2. CASE reg[r].base # head
      <4>1. BehindList(r)' /\ BehindIndex(r)'
        BY <1>4, <1>8, <1>9, <1>11, <2>2, <3>2 DEF BehindList, BehindIndex, Behind, Misplaced
      <4>2. QED
        BY <3>1, <4>1 DEF OutOfStep, ListLate, IndexLate
    <3>3. CASE reg[r].base = head
      <4>1. commits'[head'].list = commits[head].list
        BY <1>1, <1>4, <1>8, <2>2, <3>3 DEF MayCommit
      <4>2. StaysBehind(r)
        <5>1. reg[r].made # 0 =>
                reg[r].made \in DOMAIN commits' /\ commits'[reg[r].made] = commits[reg[r].made]
                /\ commits[reg[r].made].by = r
          BY <1>1, <1>8 DEF Made
        <5>2. \A i \in DOMAIN commits : i \in DOMAIN commits' /\ commits'[i] = commits[i]
          BY <1>8
        <5>3. Behind(r, {}) => Behind(r, {})'
          BY <1>1, <1>9, <1>11, <2>2, <5>1, <5>2 DEF Behind, Misplaced
        <5>4. QED
          BY <1>1, <1>9, <1>11, <5>3 DEF StaysBehind, BehindList, BehindIndex, Behind
      <4>3. \A q \in Registrars : StaysBehind(q)
        BY <1>15, <4>2
      <4>4. (ListLate => ListLate') /\ (IndexLate => IndexLate')
        BY <4>3 DEF StaysBehind, ListLate, IndexLate
      <4>5. QED
        BY <1>1, <1>2, <3>1, <4>1, <4>4 DEF OutOfStep
    <3>4. QED
      BY <3>2, <3>3
  <2>3. QED
    BY <2>1, <2>2
<1>22. QED
  BY <1>12, <1>13, <1>14, <1>15, <1>16, <1>17, <1>18, <1>19, <1>20, <1>21
  DEF RegistrationInv

\* The user commits something else of the repository.
LEMMA OtherCommitStep ==
  ASSUME RegistrationInv, OtherCommit
  PROVE  RegistrationInv'
<1>1. /\ TypeOK /\ RowsDistinct /\ UndoingAnswered /\ OutOfStep /\ CommitsOrdered
      /\ head \in DOMAIN commits /\ commits \in Seq(Commits) /\ others \in Nat
      /\ ListsNumbered
  BY DEF RegistrationInv, TypeOK
<1>2. /\ UNCHANGED <<diskList, files, index, listed, rows, known, crashes, edits, reg>>
      /\ UNCHANGED registry /\ others' \in Nat
  BY <1>1 DEF OtherCommit, registry, database
<1>3. PICK c : c = [commits[head] EXCEPT !.parent = head, !.base = head,
                                         !.by = Nothing, !.past = PastOverHead]
  OBVIOUS
<1>4. commits[head] \in Commits
  BY <1>1
<1>5. PastOverHead \in SUBSET (Nat \ {0}) /\ head \in Nat
  <2>1. commits[head].past \in SUBSET (Nat \ {0})
    BY <1>4 DEF Commits
  <2>2. Len(commits) + 1 \in Nat \ {0} /\ head \in Nat
    BY <1>1
  <2>3. QED
    BY <2>1, <2>2 DEF PastOverHead
<1>6. /\ c \in Commits
      /\ c.list = commits[head].list /\ c.tree = commits[head].tree /\ c.parent = head
      /\ c.base = head /\ c.by = Nothing /\ c.past = PastOverHead
  BY <1>3, <1>4, <1>5 DEF Commits
<1>7. commits' = Append(commits, c) /\ head' = Len(commits')
  BY <1>3 DEF OtherCommit
<1> HIDE <1>3
<1>8. Extends(c)
  <2>1. Numbered(commits[head].list)
    BY <1>1 DEF ListsNumbered
  <2>2. QED
    BY <1>1, <1>6, <1>7, <2>1 DEF Extends
<1>9. /\ History' = History \cup {head'} /\ head' \notin DOMAIN commits
      /\ \A i \in DOMAIN commits : i < head' /\ i \in Nat /\ commits'[i] = commits[i]
      /\ DOMAIN commits' = DOMAIN commits \cup {head'} /\ commits'[head'] = c
      /\ commits' \in Seq(Commits) /\ head' \in Nat
      /\ \A i \in History : i \in DOMAIN commits /\ i <= head
      /\ head \in History
  BY <1>8, ExtendsFacts
<1>10. TypeOK'
  BY <1>1, <1>2, <1>9 DEF TypeOK
<1>11. CommitsOrdered' /\ ListsNumbered' /\ HeadListed'
  BY <1>2, <1>8, ExtendsKeeps
<1>12. RowsDistinct'
  BY <1>1, <1>2 DEF RowsDistinct
<1>13. ASSUME NEW q \in Registrars
       PROVE  /\ (Sourced(q) /\ Made(q) /\ CommitStays(q) /\ ListStays(q))'
              /\ StaysBehind(q) /\ \A f \in Files : FileStaysBehind(q, f)
  BY <1>2, <1>6, <1>8, <1>13, OthersKeep, RegistrationAssumption
<1>14. UndoingAnswered'
  <2> SUFFICES ASSUME NEW i \in History', Misplaced(i)'
               PROVE  Answered(i)'
    BY DEF UndoingAnswered
  <2>1. i # head'
    BY <1>6, <1>9 DEF Misplaced
  <2>2. i \in History /\ commits'[i] = commits[i]
    BY <1>9, <2>1
  <2>3. Answered(i)
    BY <1>1, <2>2 DEF UndoingAnswered, Misplaced
  <2>4. QED
    BY <1>2, <2>2, <2>3 DEF Answered
<1>15. OutOfStep'
  <2>1. commits'[head'].list = commits[head].list /\ commits'[head'].tree = commits[head].tree
    BY <1>6, <1>9
  <2>2. (ListLate => ListLate') /\ (IndexLate => IndexLate')
    BY <1>13 DEF StaysBehind, ListLate, IndexLate
  <2>3. ASSUME NEW f \in Files, FileLate(f)
        PROVE  FileLate(f)'
    BY <1>13, <2>3 DEF FileStaysBehind, FileLate
  <2>4. NoRestores' => NoRestores
    BY <1>2 DEF NoRestores
  <2>5. NoRestores' => \A f \in Files : files'[f] = commits'[head'].tree \/ FileLate(f)'
    BY <1>1, <1>2, <2>1, <2>3, <2>4 DEF OutOfStep
  <2>6. QED
    BY <1>1, <1>2, <2>1, <2>2, <2>4, <2>5 DEF OutOfStep
<1>16. QED
  BY <1>10, <1>11, <1>12, <1>13, <1>14, <1>15 DEF RegistrationInv
\* A misplaced commit is taken back off HEAD by the registration that made it.
LEMMA TakeBackStep ==
  ASSUME RegistrationInv, NEW r \in Registrars, TakeBack(r)
  PROVE  RegistrationInv'
<1>1. /\ TypeOK /\ CommitsOrdered /\ Made(r) /\ Sourced(r) /\ ListStays(r)
      /\ reg[r].pc = "verify" /\ head = reg[r].made /\ UndoingAnswered /\ HeadListed
      /\ head \in DOMAIN commits
  BY DEF RegistrationInv, TakeBack, At, TypeOK
<1>2. /\ UNCHANGED <<commits, diskList, files, index, listed, rows, known, crashes, edits, others>>
      /\ head' = commits[head].parent
  BY <1>1 DEF TakeBack, registry, database, faults
<1>3. /\ reg' \in [Registrars -> Regs] /\ \A q \in Registrars \ {r} : reg'[q] = reg[q]
      /\ \/ reg'[r].pc = "readHead"
         \/ reg'[r].pc = "gaveUp" /\ ~reg[r].restoring
         \/ reg'[r].pc = "stopped" /\ reg[r].restoring
      /\ reg'[r].entry = NoEntry
      /\ reg'[r].newest = reg[r].newest /\ reg'[r].planned = reg[r].planned
      /\ reg'[r].content = reg[r].content /\ reg'[r].same = reg[r].same
      /\ reg'[r].restoring = reg[r].restoring /\ reg'[r].made = reg[r].made
  BY <1>1, MovedFacts DEF TakeBack
<1>4. /\ reg[r].made # 0 /\ commits[head].by = r /\ Misplaced(head) /\ head # 1
  BY <1>1, RegistrationAssumption DEF TakeBack, Made, Misplaced, CommitsOrdered, Syncing
<1>5. /\ History' = History \ {head} /\ head' \in History' /\ head' < head
      /\ head' \in DOMAIN commits
  BY <1>1, <1>2, <1>4, HistoryShrinks
<1>6. /\ \A i \in History : i \in DOMAIN commits /\ i <= head /\ i \in Nat
      /\ head \in Nat
  BY <1>1, HistoryFacts
<1>7. TypeOK'
  BY <1>1, <1>2, <1>3, <1>5 DEF TypeOK
<1>8. CommitsOrdered' /\ ListsNumbered' /\ RowsDistinct'
  BY <1>1, <1>2 DEF RegistrationInv, CommitsOrdered, Misplaced, ListsNumbered, RowsDistinct
<1>9. ASSUME NEW q \in Registrars, q # r
      PROVE  (Sourced(q) /\ Made(q) /\ CommitStays(q) /\ ListStays(q))'
  <2>1. reg'[q] = reg[q] /\ Sourced(q) /\ Made(q) /\ CommitStays(q) /\ ListStays(q)
    BY <1>3, <1>9 DEF RegistrationInv
  <2>2. Sourced(q)' /\ Made(q)'
    BY <1>2, <2>1 DEF Sourced, Made, MayCommit, Misplaced
  <2>3. CommitStays(q)'
    <3> SUFFICES ASSUME Landing(q)
                 PROVE  /\ reg[q].made \in History'
                        /\ reg[q].entry # NoEntry =>
                             \A j \in History' : j >= reg[q].made =>
                               \/ Contains(commits[j].list, reg[q].entry)
                               \/ \E k \in History' : k <= j /\ Misplaced(k)
      BY <1>2, <2>1 DEF CommitStays, Landing, HeldFrom, Misplaced
    <3>1. reg[q].made \in History
      BY <2>1 DEF CommitStays
    <3>2. reg[q].made # 0
      BY <2>1 DEF Landing, Made
    <3>3. reg[q].made # head
      BY <1>4, <1>9, <2>1, <3>2 DEF Made
    <3>4. ASSUME reg[q].entry # NoEntry, NEW j \in History', j >= reg[q].made
          PROVE  \/ Contains(commits[j].list, reg[q].entry)
                 \/ \E k \in History' : k <= j /\ Misplaced(k)
      <4>1. \/ Contains(commits[j].list, reg[q].entry)
            \/ \E k \in History : k <= j /\ Misplaced(k)
        BY <1>5, <2>1, <3>4 DEF CommitStays, HeldFrom
      <4>2. ASSUME NEW k \in History, k <= j
            PROVE  k \in History'
        BY <1>5, <1>6, <4>2
      <4>3. QED
        BY <4>1, <4>2
    <3>5. QED
      BY <1>5, <3>1, <3>3, <3>4
  <2>4. ListStays(q)'
    BY <1>2, <1>5, <2>1 DEF ListStays, ListedFrom
  <2>5. QED
    BY <2>2, <2>3, <2>4
<1> USE DEF Early, Making, Syncing
<1>10. Sourced(r)'
  BY <1>1, <1>3 DEF Sourced
<1>11. Made(r)'
  BY <1>1, <1>2, <1>3 DEF Made
<1>12. CommitStays(r)'
  BY <1>3 DEF CommitStays, Landing
<1>13. ListStays(r)'
  BY <1>1, <1>2, <1>3 DEF ListStays
<1>14. UndoingAnswered'
  <2> SUFFICES ASSUME NEW i \in History', Misplaced(i)
               PROVE  Answered(i)'
    BY <1>2 DEF UndoingAnswered, Misplaced
  <2>1. i \in History /\ i # head /\ Answered(i)
    BY <1>1, <1>5 DEF UndoingAnswered
  <2>2. commits[i].by \in Registrars \ {r}
    BY <1>1, <1>6, <2>1, CommitFacts DEF Answered
  <2>3. QED
    BY <1>2, <1>3, <2>1, <2>2 DEF Answered
<1>15. HeadListed'
  BY <1>1, <1>2, <1>4, <1>5 DEF HeadListed, ListedFrom, Misplaced
<1>16. OutOfStep'
  <2>1. reg'[r].made # 0 /\ Misplaced(head) /\ reg'[r].made = head
    BY <1>1, <1>3, <1>4
  <2>2. BehindList(r)' /\ BehindIndex(r)'
    BY <1>2, <2>1 DEF BehindList, BehindIndex, Behind, Misplaced
  <2>3. \A f \in Files : FileLate(f)'
    BY <2>2 DEF FileLate, BehindFile
  <2>4. QED
    BY <2>2, <2>3 DEF OutOfStep, ListLate, IndexLate
<1>17. QED
  BY <1>7, <1>8, <1>9, <1>10, <1>11, <1>12, <1>13, <1>14, <1>15, <1>16 DEF RegistrationInv

\* A step by which a registration writes the registry.
LEMMA RegistryStep ==
  ASSUME RegistrationInv, NEW r \in Registrars,
         UNCHANGED <<commits, head, rows, known, crashes, edits, others>>,
         reg' \in [Registrars -> Regs], \A q \in Registrars \ {r} : reg'[q] = reg[q],
         diskList' \in Seq(Entries), Numbered(diskList)',
         files' \in [Files -> Trees \cup {Edited}],
         index' \in [list : Seq(Entries), tree : Trees], Numbered(index.list)',
         listed' \subseteq listed \cup {diskList'},
         diskList # <<>> => diskList' # <<>>, HeadListed', OutOfStep',
         Sourced(r)', Made(r)', CommitStays(r)', ListStays(r)',
         reg[r].pc \notin {"verify", "stuck", "unseen", "dead"}
  PROVE  RegistrationInv'
<1>1. /\ UNCHANGED <<commits, head, rows, known, crashes, edits, others>>
      /\ TypeOK /\ CommitsOrdered
  BY DEF RegistrationInv
<1>2. /\ UNCHANGED History /\ \A i : UNCHANGED Misplaced(i)
      /\ \A i : UNCHANGED ListedFrom(i) /\ \A e : UNCHANGED HeldFrom(e, i)
  BY <1>1 DEF History, Misplaced, ListedFrom, HeldFrom
<1>3. TypeOK'
  BY <1>1 DEF TypeOK
<1>4. CommitsOrdered' /\ ListsNumbered' /\ RowsDistinct'
  <2>1. \A list \in listed' : Numbered(list)
    BY DEF RegistrationInv, ListsNumbered, Numbered
  <2>2. QED
    BY <1>1, <2>1 DEF RegistrationInv, CommitsOrdered, Misplaced, ListsNumbered, RowsDistinct
<1>5. ASSUME NEW q \in Registrars, q # r
      PROVE  (Sourced(q) /\ Made(q) /\ CommitStays(q) /\ ListStays(q))'
  <2>1. reg'[q] = reg[q] /\ Sourced(q) /\ Made(q) /\ CommitStays(q) /\ ListStays(q)
    BY <1>5 DEF RegistrationInv
  <2>2. Sourced(q)' /\ Made(q)'
    BY <1>1, <2>1 DEF Sourced, Made, MayCommit, Misplaced
  <2>3. CommitStays(q)' /\ ListStays(q)'
    BY <1>1, <1>2, <2>1 DEF CommitStays, Landing, ListStays
  <2>4. QED
    BY <2>2, <2>3
<1>6. UndoingAnswered'
  <2> SUFFICES ASSUME NEW i \in History, Misplaced(i)
               PROVE  Answered(i)'
    BY <1>2 DEF UndoingAnswered
  <2>1. Answered(i)
    BY DEF RegistrationInv, UndoingAnswered
  <2>2. commits[i].by \in Registrars
    BY <1>1, HistoryFacts, CommitFacts
  <2>3. QED
    BY <1>1, <2>1, <2>2 DEF Answered
<1>7. QED
  BY <1>3, <1>4, <1>5, <1>6 DEF RegistrationInv

\* A changed snapshot is put back: the files and the index's tree.
LEMMA RestoreStep ==
  ASSUME RegistrationInv, NEW r \in Registrars, Restore(r)
  PROVE  RegistrationInv'
<1>1. /\ TypeOK /\ Made(r) /\ Sourced(r) /\ ListStays(r) /\ OutOfStep /\ HeadListed
      /\ ListsNumbered
      /\ reg[r] \in Regs /\ reg \in [Registrars -> Regs] /\ reg[r].pc = "restore"
      /\ diskList \in Seq(Entries) /\ index \in [list : Seq(Entries), tree : Trees]
  BY DEF RegistrationInv, TypeOK, Restore, At
<1>2. /\ UNCHANGED <<commits, head, diskList, listed, rows, known, crashes, edits, others>>
      /\ files' = [f \in Files |-> reg[r].newest.content]
      /\ index' = [index EXCEPT !.tree = reg[r].newest.content]
  BY DEF Restore, database, faults
<1> DEFINE content == reg[r].newest.content
           x == [reg[r] EXCEPT !.pc = "readHead", !.restoring = TRUE, !.content = content]
<1>3. content \in Trees /\ content # Nothing /\ "readHead" \in Pcs
  <2>1. reg[r].newest \in Entries
    BY <1>1, FieldTypes DEF Sourced
  <2>2. content \in Contents
    BY <2>1 DEF Entries
  <2>3. QED
    BY <2>2, RegistrationAssumption DEF Trees, Pcs
<1>4. reg' = [reg EXCEPT ![r] = x]
  BY DEF Restore
<1> HIDE DEF content
<1>5. /\ files' \in [Files -> Trees \cup {Edited}]
      /\ index' \in [list : Seq(Entries), tree : Trees] /\ index'.list = index.list
  BY <1>1, <1>2, <1>3 DEF content
<1>6. /\ x \in Regs /\ x.pc = "readHead" /\ x.restoring = TRUE /\ x.content = content
      /\ x.newest = reg[r].newest /\ x.planned = reg[r].planned /\ x.same = reg[r].same
      /\ x.entry = reg[r].entry /\ x.made = reg[r].made
  BY <1>1, <1>3 DEF Regs
<1> HIDE DEF x
<1>7. /\ reg' \in [Registrars -> Regs] /\ reg'[r] = x
      /\ \A q \in Registrars \ {r} : reg'[q] = reg[q]
  BY <1>1, <1>4, <1>6
<1> USE DEF Early, Making, Syncing
<1>8. Sourced(r)'
  BY <1>1, <1>3, <1>6, <1>7 DEF Sourced
<1>9. Made(r)'
  BY <1>1, <1>2, <1>6, <1>7 DEF Made, Sourced
<1>10. CommitStays(r)'
  BY <1>6, <1>7 DEF CommitStays, Landing
<1>11. ListStays(r)'
  BY <1>1, <1>2, <1>6, <1>7 DEF ListStays
<1>12. HeadListed'
  BY <1>1, <1>2 DEF HeadListed, History, Misplaced, ListedFrom
<1>13. OutOfStep'
  <2>1. ~NoRestores'
    BY <1>6, <1>7 DEF NoRestores
  <2>2. ~BehindList(r) /\ (BehindIndex(r) => BehindIndex(r)')
    BY <1>1 DEF BehindList, BehindIndex, Behind, Sourced
  <2>3. ASSUME NEW q \in Registrars, q # r
        PROVE  StaysBehind(q)
    BY <1>2, <1>7, <2>3 DEF StaysBehind, BehindList, BehindIndex, Behind, Misplaced
  <2>4. (ListLate => ListLate') /\ (IndexLate => IndexLate')
    BY <2>2, <2>3 DEF ListLate, IndexLate, StaysBehind
  <2>5. QED
    BY <1>1, <1>2, <1>5, <2>1, <2>4 DEF OutOfStep
<1>14. Numbered(diskList)' /\ Numbered(index.list)'
  BY <1>1, <1>2, <1>5 DEF ListsNumbered
<1>15. QED
  BY <1>1, <1>2, <1>5, <1>7, <1>8, <1>9, <1>10, <1>11, <1>12, <1>13, <1>14, RegistryStep
\* Between two writes of the registry a registration rests on what it rested on.
LEMMA WriteKeeps ==
  ASSUME RegistrationInv, NEW r \in Registrars, Kept(r),
         UNCHANGED <<commits, head>>,
         reg[r].pc \in {"syncList", "syncFile", "syncIndex"},
         reg'[r].pc \in {"syncFile", "syncIndex", "syncCheck"},
         diskList # <<>> => diskList' # <<>>
  PROVE  /\ (Sourced(r) /\ Made(r) /\ CommitStays(r) /\ ListStays(r))'
         /\ \A q \in Registrars \ {r} : /\ StaysBehind(q)
                                       /\ \A f \in Files : FileStaysBehind(q, f)
         /\ BehindList(r) /\ reg[r].pc # "syncList" => BehindList(r)'
         /\ reg'[r].base # head => BehindList(r)' /\ BehindIndex(r)'
         /\ NoRestores' /\ edits' = edits => NoRestores
<1>1. /\ Sourced(r) /\ Made(r) /\ CommitStays(r) /\ ListStays(r) /\ TypeOK
  BY DEF RegistrationInv
<1>2. /\ \A q \in Registrars \ {r} : reg'[q] = reg[q]
      /\ reg'[r].newest = reg[r].newest /\ reg'[r].planned = reg[r].planned
      /\ reg'[r].content = reg[r].content /\ reg'[r].same = reg[r].same
      /\ reg'[r].restoring = reg[r].restoring /\ reg'[r].base = reg[r].base
      /\ reg'[r].list = reg[r].list /\ reg'[r].entry = reg[r].entry
      /\ reg'[r].made = reg[r].made
  BY DEF Kept
<1>3. /\ UNCHANGED History /\ \A i : UNCHANGED Misplaced(i)
      /\ \A i : UNCHANGED ListedFrom(i) /\ \A e : UNCHANGED HeldFrom(e, i)
  BY DEF History, Misplaced, ListedFrom, HeldFrom
<1> USE DEF Early, Making, Syncing
<1>4. Sourced(r)' /\ Made(r)'
  BY <1>1, <1>2 DEF Sourced, Made, Misplaced
<1>5. CommitStays(r)' /\ ListStays(r)'
  BY <1>1, <1>2, <1>3 DEF CommitStays, Landing, ListStays
<1>6. ASSUME NEW q \in Registrars \ {r}
      PROVE  StaysBehind(q) /\ \A f \in Files : FileStaysBehind(q, f)
  BY <1>2 DEF StaysBehind, FileStaysBehind, BehindList, BehindIndex, BehindFile, Behind,
     Misplaced
<1>7. BehindList(r) /\ reg[r].pc # "syncList" => BehindList(r)'
  BY <1>1, <1>2 DEF BehindList, Behind, Misplaced
<1>8. reg'[r].base # head => BehindList(r)' /\ BehindIndex(r)'
  BY DEF BehindList, BehindIndex, Behind
<1>9. NoRestores' /\ edits' = edits => NoRestores
  BY <1>2 DEF NoRestores
<1>10. QED
  BY <1>4, <1>5, <1>6, <1>7, <1>8, <1>9

\* The list on disk becomes HEAD's.
LEMMA SyncListStep ==
  ASSUME RegistrationInv, NEW r \in Registrars, SyncList(r)
  PROVE  RegistrationInv'
<1>1. /\ TypeOK /\ CommitsOrdered /\ Made(r) /\ Sourced(r) /\ CommitStays(r) /\ ListStays(r)
      /\ OutOfStep /\ ListsNumbered /\ reg[r].pc = "syncList" /\ diskList \in Seq(Entries)
      /\ index \in [list : Seq(Entries), tree : Trees] /\ files \in [Files -> Trees \cup {Edited}]
  BY DEF RegistrationInv, TypeOK, SyncList, At
<1>2. /\ UNCHANGED <<commits, head, files, index, rows, known, crashes, edits, others>>
      /\ diskList' = IF commits[reg[r].base].list = <<>> THEN diskList
                     ELSE commits[reg[r].base].list
      /\ listed' = listed \cup {diskList'}
      /\ Goto(r, "syncFile")
  BY DEF SyncList, database, faults
<1>3. Kept(r) /\ reg'[r].pc = "syncFile" /\ reg'[r].file = reg[r].file
  BY <1>1, <1>2, GotoKeeps DEF Pcs, Syncing
<1>4. /\ reg[r].base \in DOMAIN commits /\ reg[r].made \in History /\ ~Misplaced(reg[r].made)
      /\ ListedFrom(reg[r].made) /\ reg[r].file = 1
  BY <1>1 DEF Made, CommitStays, Landing, ListStays, Syncing, Sourced
<1>5. commits[head].list # <<>>
  <2>1. head \in History /\ head >= reg[r].made
    BY <1>1, <1>4, HistoryFacts
  <2>2. QED
    BY <1>4, <2>1 DEF ListedFrom
<1>6. /\ diskList' \in Seq(Entries) /\ (diskList # <<>> => diskList' # <<>>)
      /\ Numbered(diskList)' /\ Numbered(index.list)'
  <2>1. commits[reg[r].base].list \in Seq(Entries) /\ Numbered(commits[reg[r].base].list)
    BY <1>1, <1>4, CommitFacts DEF ListsNumbered
  <2>2. diskList' = diskList \/ diskList' = commits[reg[r].base].list
    BY <1>2
  <2>3. diskList' \in Seq(Entries) /\ Numbered(diskList)'
    BY <1>1, <2>1, <2>2 DEF ListsNumbered, Numbered
  <2>4. QED
    BY <1>1, <1>2, <2>3 DEF ListsNumbered, Numbered
<1>7. /\ (Sourced(r) /\ Made(r) /\ CommitStays(r) /\ ListStays(r))'
      /\ \A q \in Registrars \ {r} : /\ StaysBehind(q)
                                    /\ \A f \in Files : FileStaysBehind(q, f)
      /\ reg'[r].base # head => BehindList(r)' /\ BehindIndex(r)'
      /\ NoRestores' /\ edits' = edits => NoRestores
  BY <1>1, <1>2, <1>3, <1>6, WriteKeeps
<1>8. HeadListed'
  BY <1>2, <1>4 DEF HeadListed, History, Misplaced, ListedFrom
<1>9. OutOfStep'
  <2>1. BehindIndex(r)' /\ \A f \in Files : FileLate(f)'
    BY <1>3, <1>4 DEF BehindIndex, FileLate, BehindFile, Behind, Syncing, Files
  <2>2. diskList' = commits[head].list \/ ListLate'
    <3>1. reg'[r].base = reg[r].base
      BY <1>3 DEF Kept
    <3>2. CASE reg[r].base = head
      BY <1>2, <1>5, <3>2
    <3>3. CASE reg[r].base # head
      BY <1>7, <3>1, <3>3 DEF ListLate
    <3>4. QED
      BY <3>2, <3>3
  <2>3. QED
    BY <1>2, <2>1, <2>2 DEF OutOfStep, IndexLate
<1>10. QED
  BY <1>1, <1>2, <1>3, <1>6, <1>7, <1>8, <1>9, RegistryStep DEF Kept

\* A file of the snapshot becomes HEAD's.
LEMMA SyncFileStep ==
  ASSUME RegistrationInv, NEW r \in Registrars, SyncFile(r)
  PROVE  RegistrationInv'
<1>1. /\ TypeOK /\ CommitsOrdered /\ Made(r) /\ Sourced(r) /\ HeadListed
      /\ OutOfStep /\ ListsNumbered /\ reg[r].pc = "syncFile" /\ diskList \in Seq(Entries)
      /\ index \in [list : Seq(Entries), tree : Trees] /\ files \in [Files -> Trees \cup {Edited}]
      /\ reg[r] \in Regs /\ reg \in [Registrars -> Regs]
  BY DEF RegistrationInv, TypeOK, SyncFile, At
<1>2. /\ UNCHANGED <<commits, head, diskList, listed, index, rows, known, crashes, edits, others>>
      /\ files' = [files EXCEPT ![reg[r].file] = commits[reg[r].base].tree]
  BY DEF SyncFile, database, faults
<1>3. /\ reg[r].base \in DOMAIN commits /\ reg[r].file \in Files
      /\ commits[reg[r].base].tree \in Trees
  BY <1>1, CommitFacts, FieldTypes DEF Made, Syncing
<1> DEFINE last == reg[r].file = NFiles
           pc == IF last THEN "syncIndex" ELSE "syncFile"
           file == IF last THEN 1 ELSE reg[r].file + 1
           x == [reg[r] EXCEPT !.pc = pc, !.file = file]
<1>4. /\ pc \in Pcs /\ pc \in {"syncFile", "syncIndex"}
      /\ file \in Files
      /\ \A f \in Files : reg[r].file <= f /\ f # reg[r].file => pc = "syncFile" /\ file <= f
  BY <1>3, RegistrationAssumption DEF Pcs, Syncing, Files
<1>5. reg' = [reg EXCEPT ![r] = x]
  BY DEF SyncFile
<1> HIDE DEF pc, file
<1>6. /\ x \in Regs /\ x.pc = pc /\ x.file = file
      /\ x.newest = reg[r].newest /\ x.planned = reg[r].planned
      /\ x.content = reg[r].content /\ x.same = reg[r].same
      /\ x.restoring = reg[r].restoring /\ x.base = reg[r].base
      /\ x.list = reg[r].list /\ x.entry = reg[r].entry /\ x.made = reg[r].made
  BY <1>1, <1>4 DEF Regs
<1> HIDE DEF x
<1>7. Kept(r) /\ reg'[r].pc = pc /\ reg'[r].file = file
  BY <1>1, <1>5, <1>6 DEF Kept
<1>8. /\ (Sourced(r) /\ Made(r) /\ CommitStays(r) /\ ListStays(r))'
      /\ \A q \in Registrars \ {r} : /\ StaysBehind(q)
                                    /\ \A f \in Files : FileStaysBehind(q, f)
      /\ BehindList(r) => BehindList(r)'
      /\ reg'[r].base # head => BehindList(r)' /\ BehindIndex(r)'
      /\ NoRestores' /\ edits' = edits => NoRestores
  BY <1>1, <1>2, <1>4, <1>7, WriteKeeps
<1>9. files' \in [Files -> Trees \cup {Edited}]
  BY <1>1, <1>2, <1>3
<1>10. HeadListed'
  BY <1>1, <1>2 DEF HeadListed, History, Misplaced, ListedFrom
<1>11. OutOfStep'
  <2>1. BehindIndex(r)'
    BY <1>4, <1>7 DEF BehindIndex, Behind, Syncing
  <2>2. ListLate => ListLate'
    BY <1>8 DEF ListLate, StaysBehind
  <2>3. ASSUME NEW f \in Files, NoRestores'
        PROVE  files'[f] = commits[head].tree \/ FileLate(f)'
    <3>1. reg'[r].base = reg[r].base
      BY <1>7 DEF Kept
    <3>2. CASE f = reg[r].file /\ reg[r].base = head
      BY <1>1, <1>2, <3>2
    <3>3. CASE reg[r].base # head
      BY <1>8, <3>1, <3>3 DEF FileLate, BehindFile
    <3>4. CASE f # reg[r].file
      <4>1. files'[f] = files[f]
        BY <1>1, <1>2, <3>4
      <4>2. files[f] = commits[head].tree \/ FileLate(f)
        BY <1>1, <1>2, <1>8, <2>3 DEF OutOfStep
      <4>3. BehindFile(r, f) => BehindFile(r, f)'
        BY <1>4, <1>7, <1>8, <3>4 DEF BehindFile
      <4>4. FileLate(f) => FileLate(f)'
        BY <1>8, <4>3 DEF FileLate, FileStaysBehind
      <4>5. QED
        BY <4>1, <4>2, <4>4
    <3>5. QED
      BY <3>2, <3>3, <3>4
  <2>4. QED
    BY <1>1, <1>2, <2>1, <2>2, <2>3 DEF OutOfStep, IndexLate
<1>12. Numbered(diskList)' /\ Numbered(index.list)'
  BY <1>1, <1>2 DEF ListsNumbered, Numbered
<1>13. QED
  BY <1>1, <1>2, <1>7, <1>8, <1>9, <1>10, <1>11, <1>12, RegistryStep DEF Kept

\* The index becomes HEAD's.
LEMMA SyncIndexStep ==
  ASSUME RegistrationInv, NEW r \in Registrars, SyncIndex(r)
  PROVE  RegistrationInv'
<1>1. /\ TypeOK /\ CommitsOrdered /\ Made(r) /\ Sourced(r) /\ HeadListed
      /\ OutOfStep /\ ListsNumbered /\ reg[r].pc = "syncIndex" /\ diskList \in Seq(Entries)
      /\ index \in [list : Seq(Entries), tree : Trees] /\ files \in [Files -> Trees \cup {Edited}]
  BY DEF RegistrationInv, TypeOK, SyncIndex, At
<1>2. /\ UNCHANGED <<commits, head, diskList, listed, files, rows, known, crashes, edits, others>>
      /\ index' = [list |-> commits[reg[r].base].list, tree |-> commits[reg[r].base].tree]
      /\ Goto(r, "syncCheck")
  BY DEF SyncIndex, database, faults
<1>3. Kept(r) /\ reg'[r].pc = "syncCheck"
  BY <1>1, <1>2, GotoKeeps DEF Pcs, Syncing
<1>4. /\ commits[reg[r].base].list \in Seq(Entries) /\ commits[reg[r].base].tree \in Trees
      /\ Numbered(commits[reg[r].base].list)
  BY <1>1, CommitFacts DEF Made, Syncing, ListsNumbered
<1>5. /\ index' \in [list : Seq(Entries), tree : Trees]
      /\ Numbered(diskList)' /\ Numbered(index.list)'
  <2>1. index'.list = commits[reg[r].base].list
    BY <1>2
  <2>2. QED
    BY <1>1, <1>2, <1>4, <2>1 DEF ListsNumbered, Numbered
<1>6. /\ (Sourced(r) /\ Made(r) /\ CommitStays(r) /\ ListStays(r))'
      /\ \A q \in Registrars \ {r} : /\ StaysBehind(q)
                                    /\ \A f \in Files : FileStaysBehind(q, f)
      /\ BehindList(r) => BehindList(r)'
      /\ reg'[r].base # head => BehindList(r)' /\ BehindIndex(r)'
      /\ NoRestores' /\ edits' = edits => NoRestores
  BY <1>1, <1>2, <1>3, WriteKeeps
<1>7. HeadListed'
  BY <1>1, <1>2 DEF HeadListed, History, Misplaced, ListedFrom
<1>8. OutOfStep'
  <2>1. ListLate => ListLate'
    BY <1>6 DEF ListLate, StaysBehind
  <2>2. ASSUME NEW f \in Files, FileLate(f)
        PROVE  FileLate(f)'
    <3>1. BehindFile(r, f) => BehindFile(r, f)'
      BY <1>1, <1>6 DEF BehindFile
    <3>2. QED
      BY <1>6, <2>2, <3>1 DEF FileLate, FileStaysBehind
  <2>3. \/ index'.list = commits[head].list /\ index'.tree = commits[head].tree
        \/ IndexLate'
    BY <1>2, <1>3, <1>6 DEF IndexLate, Kept
  <2>4. NoRestores' => NoRestores
    BY <1>2, <1>6
  <2>5. NoRestores' => \A f \in Files : files'[f] = commits[head].tree \/ FileLate(f)'
    BY <1>1, <1>2, <2>2, <2>4 DEF OutOfStep
  <2>6. QED
    BY <1>1, <1>2, <2>1, <2>3, <2>5 DEF OutOfStep
<1>9. QED
  BY <1>1, <1>2, <1>3, <1>5, <1>6, <1>7, <1>8, RegistryStep DEF Kept
\* What the rows are once they are synced with a numbered list: a row per entry, and no two
\* with one label.
LEMMA SyncedFacts ==
  ASSUME NEW list \in Seq(Entries), Numbered(list), RowsDistinct,
         rows \subseteq [entry : Entries, label : Nat, commit : Nat],
         NEW entry, NEW commit \in Nat
  PROVE  LET synced == Synced(list, entry, commit)
         IN  /\ synced \subseteq [entry : Entries, label : Nat, commit : Nat]
             /\ \A a, b \in synced :
                  a.entry = b.entry \/ (a.label = b.label /\ a.label # 0) => a = b
<1> DEFINE CommitOf(row) == IF row.entry = entry /\ row.commit = 0 THEN commit ELSE row.commit
           label(row) == IF Contains(list, row.entry) THEN row.entry.label ELSE 0
           keep(row) == [entry |-> row.entry, commit |-> CommitOf(row), label |-> label(row)]
           missing == {e \in ToSet(list) : \A row \in rows : row.entry # e}
           add(e) == [entry |-> e, label |-> e.label,
                      commit |-> IF e = entry THEN commit ELSE 0]
           kept == {keep(row) : row \in rows}
           added == {add(e) : e \in missing}
           synced == Synced(list, entry, commit)
<1>1. synced = kept \cup added
  BY DEF Synced
<1>2. \A e \in ToSet(list) : e \in Entries /\ Contains(list, e) /\ e.label \in Nat
  <2> SUFFICES ASSUME NEW e \in ToSet(list)
               PROVE  e \in Entries /\ Contains(list, e) /\ e.label \in Nat
    OBVIOUS
  <2>1. PICK i \in DOMAIN list : list[i] = e
    BY DEF ToSet
  <2>2. e \in Entries
    BY <2>1
  <2>3. QED
    BY <2>1, <2>2 DEF Contains, Entries
<1>3. ASSUME NEW a, NEW b, Contains(list, a), Contains(list, b), a.label = b.label
      PROVE  a = b
  <2>1. PICK i \in DOMAIN list : list[i] = a
    BY <1>3 DEF Contains
  <2>2. PICK j \in DOMAIN list : list[j] = b
    BY <1>3 DEF Contains
  <2>3. QED
    BY <1>3, <2>1, <2>2 DEF Numbered
<1>4. ASSUME NEW row \in rows
      PROVE  /\ row.entry \in Entries /\ row.label \in Nat /\ row.commit \in Nat
             /\ label(row) \in Nat /\ CommitOf(row) \in Nat
  BY <1>4 DEF Entries
<1>5. synced \subseteq [entry : Entries, label : Nat, commit : Nat]
  <2>1. \A row \in rows : keep(row) \in [entry : Entries, label : Nat, commit : Nat]
    BY <1>4
  <2>2. \A e \in missing : add(e) \in [entry : Entries, label : Nat, commit : Nat]
    BY <1>2
  <2>3. QED
    BY <1>1, <2>1, <2>2
<1>6. ASSUME NEW a \in synced
      PROVE  /\ a.label # 0 => Contains(list, a.entry) /\ a.label = a.entry.label
             /\ \/ \E row \in rows : a = keep(row) /\ a.entry = row.entry
                \/ \E e \in missing : a = add(e) /\ a.entry = e
  BY <1>1, <1>2, <1>6
<1>7. ASSUME NEW a \in synced, NEW b \in synced, a.entry = b.entry
      PROVE  a = b
  <2>1. CASE \E row \in rows : a = keep(row) /\ a.entry = row.entry
    <3>1. PICK p \in rows : a = keep(p) /\ a.entry = p.entry
      BY <2>1
    <3>2. PICK q \in rows : b = keep(q) /\ b.entry = q.entry
      BY <1>6, <1>7, <3>1
    <3>3. p = q
      BY <1>7, <3>1, <3>2 DEF RowsDistinct
    <3>4. QED
      BY <3>1, <3>2, <3>3
  <2>2. CASE \E e \in missing : a = add(e) /\ a.entry = e
    <3>1. PICK e \in missing : a = add(e) /\ a.entry = e
      BY <2>2
    <3>2. PICK d \in missing : b = add(d) /\ b.entry = d
      BY <1>6, <1>7, <3>1
    <3>3. QED
      BY <1>7, <3>1, <3>2
  <2>3. QED
    BY <1>6, <2>1, <2>2
<1>8. ASSUME NEW a \in synced, NEW b \in synced, a.label = b.label, a.label # 0
      PROVE  a = b
  BY <1>3, <1>6, <1>7, <1>8
<1>9. QED
  BY <1>5, <1>7, <1>8

\* The rows are synced by a registration at its end, or by a reader.
LEMMA RowsStep ==
  ASSUME RegistrationInv, NEW r \in Registrars, Rows(r)
  PROVE  RegistrationInv'
<1>1. /\ TypeOK /\ Made(r) /\ Sourced(r) /\ ListStays(r) /\ RowsDistinct
      /\ reg[r] \in Regs /\ reg[r].pc = "rows" /\ reg \in [Registrars -> Regs]
      /\ diskList \in Seq(Entries) /\ Numbered(diskList) /\ known \in BOOLEAN
      /\ rows \subseteq [entry : Entries, label : Nat, commit : Nat]
  BY DEF RegistrationInv, TypeOK, Rows, At, ListsNumbered
<1>2. /\ UNCHANGED <<commits, head, registry, edits>>
      /\ UNCHANGED <<commits, head, diskList>>
      /\ crashes' \in Nat /\ others' \in Nat
  BY <1>1 DEF Rows, faults, TypeOK, registry
<1>3. reg[r].made \in Nat
  BY <1>1, FieldTypes
<1>4. /\ known' \in BOOLEAN /\ rows' \subseteq [entry : Entries, label : Nat, commit : Nat]
      /\ RowsDistinct'
  <2>1. known' \in BOOLEAN
    BY <1>1 DEF Rows
  <2>2. CASE diskList = <<>>
    BY <1>1, <2>1, <2>2 DEF Rows, RowsDistinct
  <2>3. CASE diskList # <<>>
    <3> DEFINE synced == Synced(diskList, reg[r].entry, reg[r].made)
    <3>1. rows' = synced
      BY <2>3 DEF Rows
    <3>2. /\ synced \subseteq [entry : Entries, label : Nat, commit : Nat]
          /\ \A a, b \in synced :
               a.entry = b.entry \/ (a.label = b.label /\ a.label # 0) => a = b
      BY <1>1, <1>3, SyncedFacts
    <3> HIDE DEF synced
    <3>3. QED
      BY <2>1, <3>1, <3>2 DEF RowsDistinct
  <2>4. QED
    BY <2>2, <2>3
<1>5. PICK pc \in {"refused", "ok"} : Goto(r, pc)
  BY DEF Rows
<1>6. Kept(r) /\ reg'[r].pc = pc
  BY <1>1, <1>5, GotoKeeps DEF Pcs, Ended
<1>7. /\ \A q \in Registrars \ {r} : reg'[q] = reg[q]
      /\ reg'[r].newest = reg[r].newest /\ reg'[r].planned = reg[r].planned
      /\ reg'[r].content = reg[r].content /\ reg'[r].same = reg[r].same
      /\ reg'[r].restoring = reg[r].restoring /\ reg'[r].base = reg[r].base
      /\ reg'[r].list = reg[r].list /\ reg'[r].entry = reg[r].entry
      /\ reg'[r].made = reg[r].made
      /\ reg' \in [Registrars -> Regs]
  BY <1>6 DEF Kept
<1> USE DEF Early, Making, Syncing
<1>8. Sourced(r)'
  BY <1>1, <1>5, <1>6, <1>7 DEF Sourced
<1>9. Made(r)'
  BY <1>1, <1>2, <1>5, <1>6, <1>7 DEF Made, Misplaced
<1>10. Landing(r)' => Landing(r)
  BY <1>1, <1>5, <1>6, <1>7 DEF Landing
<1>11. StaysBehind(r) /\ \A f \in Files : FileStaysBehind(r, f)
  BY <1>1, <1>2, <1>5, <1>6, <1>7 DEF StaysBehind, FileStaysBehind, BehindList, BehindIndex,
     BehindFile, Behind, Misplaced
<1>12. /\ reg'[r].pc \notin Syncing \cup {"verify"}
       /\ reg[r].pc \notin {"verify", "stuck", "unseen", "dead"}
       /\ reg'[r].pc \in {"compare", "restore"} \/ reg'[r].same => diskList # <<>>
  BY <1>1, <1>5, <1>6, <1>7 DEF ListStays
<1>13. QED
  BY <1>2, <1>4, <1>7, <1>8, <1>9, <1>10, <1>11, <1>12, OwnRowsStep

\* A reader of the method's versions syncs the rows.
LEMMA ReadVersionsStep ==
  ASSUME RegistrationInv, ReadVersions
  PROVE  RegistrationInv'
<1>1. PICK list \in listed : rows' = Synced(list, NoEntry, 0)
  BY DEF ReadVersions
<1>2. /\ TypeOK /\ RowsDistinct
      /\ list \in Seq(Entries) /\ Numbered(list)
      /\ rows \subseteq [entry : Entries, label : Nat, commit : Nat]
  BY DEF RegistrationInv, TypeOK, ListsNumbered
<1>3. UNCHANGED <<commits, head, diskList, files, index, listed, known, reg, crashes, edits,
                  others>>
  BY DEF ReadVersions, registry, faults
<1> DEFINE synced == Synced(list, NoEntry, 0)
<1>4. /\ synced \subseteq [entry : Entries, label : Nat, commit : Nat]
      /\ \A a, b \in synced :
           a.entry = b.entry \/ (a.label = b.label /\ a.label # 0) => a = b
  BY <1>2, SyncedFacts
<1> HIDE DEF synced
<1>5. RowsDistinct'
  BY <1>1, <1>4 DEF RowsDistinct, synced
<1>6. TypeOK'
  BY <1>1, <1>2, <1>3, <1>4 DEF TypeOK, synced
<1>7. /\ UNCHANGED History /\ \A i : UNCHANGED Misplaced(i)
      /\ \A i : UNCHANGED ListedFrom(i) /\ \A e : UNCHANGED HeldFrom(e, i)
  BY <1>3 DEF History, Misplaced, ListedFrom, HeldFrom
<1>8. \A r \in Registrars : (Sourced(r) /\ Made(r) /\ CommitStays(r) /\ ListStays(r))'
  BY <1>3, <1>7 DEF RegistrationInv, Sourced, Made, MayCommit, Misplaced, CommitStays, Landing,
     ListStays
<1>9. CommitsOrdered' /\ ListsNumbered' /\ UndoingAnswered' /\ HeadListed'
  BY <1>3, <1>7 DEF RegistrationInv, CommitsOrdered, Misplaced, ListsNumbered,
     UndoingAnswered, Answered, HeadListed
<1>10. OutOfStep'
  <2>1. /\ UNCHANGED ListLate /\ UNCHANGED IndexLate /\ UNCHANGED NoRestores
        /\ \A f : UNCHANGED FileLate(f)
    BY <1>3 DEF ListLate, IndexLate, NoRestores, FileLate, BehindFile, BehindList, BehindIndex,
       Behind, Misplaced
  <2>2. QED
    BY <1>3, <2>1 DEF RegistrationInv, OutOfStep
<1>11. QED
  BY <1>5, <1>6, <1>8, <1>9, <1>10 DEF RegistrationInv

\* A hand edit of a registered file: the snapshot is not known to be HEAD's from then on.
LEMMA EditStep ==
  ASSUME RegistrationInv, NEW f \in Files, Edit(f)
  PROVE  RegistrationInv'
<1>1. /\ TypeOK /\ files \in [Files -> Trees \cup {Edited}] /\ edits \in Nat
  BY DEF RegistrationInv, TypeOK
<1>2. /\ UNCHANGED <<commits, head, diskList, listed, index, rows, known, reg, crashes, others>>
      /\ files' \in [Files -> Trees \cup {Edited}] /\ edits' = edits + 1
  BY <1>1 DEF Edit, database
<1>3. TypeOK'
  BY <1>1, <1>2 DEF TypeOK
<1>4. /\ UNCHANGED History /\ \A i : UNCHANGED Misplaced(i)
      /\ \A i : UNCHANGED ListedFrom(i) /\ \A e : UNCHANGED HeldFrom(e, i)
  BY <1>2 DEF History, Misplaced, ListedFrom, HeldFrom
<1>5. \A r \in Registrars : (Sourced(r) /\ Made(r) /\ CommitStays(r) /\ ListStays(r))'
  BY <1>2, <1>4 DEF RegistrationInv, Sourced, Made, MayCommit, Misplaced, CommitStays, Landing,
     ListStays
<1>6. /\ CommitsOrdered' /\ ListsNumbered' /\ RowsDistinct' /\ UndoingAnswered' /\ HeadListed'
  BY <1>2, <1>4 DEF RegistrationInv, CommitsOrdered, Misplaced, ListsNumbered, RowsDistinct,
     UndoingAnswered, Answered, HeadListed
<1>7. OutOfStep'
  <2>1. ~NoRestores'
    BY <1>1, <1>2 DEF NoRestores
  <2>2. UNCHANGED ListLate /\ UNCHANGED IndexLate
    BY <1>2 DEF ListLate, IndexLate, BehindList, BehindIndex, Behind, Misplaced
  <2>3. QED
    BY <1>2, <2>1, <2>2 DEF RegistrationInv, OutOfStep
<1>8. QED
  BY <1>3, <1>5, <1>6, <1>7 DEF RegistrationInv

\* A step that changes nothing.
LEMMA Stutter ==
  ASSUME RegistrationInv, UNCHANGED vars
  PROVE  RegistrationInv'
<1>1. UNCHANGED <<commits, head, diskList, files, index, listed, rows, known, reg, crashes,
                  edits, others>>
  BY DEF vars
<1>2. /\ UNCHANGED History /\ \A i : UNCHANGED Misplaced(i)
      /\ \A i : UNCHANGED ListedFrom(i) /\ \A e : UNCHANGED HeldFrom(e, i)
  BY <1>1 DEF History, Misplaced, ListedFrom, HeldFrom
<1>3. \A r \in Registrars : (Sourced(r) /\ Made(r) /\ CommitStays(r) /\ ListStays(r))'
  BY <1>1, <1>2 DEF RegistrationInv, Sourced, Made, MayCommit, Misplaced, CommitStays, Landing,
     ListStays
<1>4. /\ TypeOK' /\ CommitsOrdered' /\ ListsNumbered' /\ RowsDistinct' /\ UndoingAnswered'
      /\ HeadListed'
  BY <1>1, <1>2 DEF RegistrationInv, TypeOK, CommitsOrdered, Misplaced, ListsNumbered,
     RowsDistinct, UndoingAnswered, Answered, HeadListed
<1>5. OutOfStep'
  <2>1. /\ UNCHANGED ListLate /\ UNCHANGED IndexLate /\ UNCHANGED NoRestores
        /\ \A f : UNCHANGED FileLate(f)
    BY <1>1 DEF ListLate, IndexLate, NoRestores, FileLate, BehindFile, BehindList, BehindIndex,
       Behind, Misplaced
  <2>2. QED
    BY <1>1, <2>1 DEF RegistrationInv, OutOfStep
<1>6. QED
  BY <1>3, <1>4, <1>5 DEF RegistrationInv

\* Every step keeps the invariant.
LEMMA InvNext == RegistrationInv /\ [Next]_vars => RegistrationInv'
<1> SUFFICES ASSUME RegistrationInv, [Next]_vars
             PROVE  RegistrationInv'
  OBVIOUS
<1>1. ASSUME NEW r \in Registrars, Step(r)
      PROVE  RegistrationInv'
  <2>1. CASE Guard(r)
    BY <2>1, GuardStep
  <2>2. CASE Compare(r) \/ Decline(r) \/ Build(r) \/ CannotTakeBack(r)
    BY <2>2, GotoSteps
  <2>3. CASE Restore(r)
    BY <2>3, RestoreStep
  <2>4. CASE Plan(r)
    BY <2>4, PlanStep
  <2>5. CASE Stage(r)
    BY <2>5, StageStep
  <2>6. CASE ReadHead(r)
    BY <2>6, ReadHeadStep
  <2>7. CASE Check(r)
    BY <2>7, CheckStep
  <2>8. CASE GitCommit(r) \/ CommitUnseen(r)
    BY <2>8, GitCommitStep
  <2>9. CASE Landed(r) \/ SyncCheck(r)
    BY <2>9, LandedStep
  <2>10. CASE TakeBack(r)
    BY <2>10, TakeBackStep
  <2>11. CASE SyncHead(r)
    BY <2>11, SyncHeadStep
  <2>12. CASE SyncList(r)
    BY <2>12, SyncListStep
  <2>13. CASE SyncFile(r)
    BY <2>13, SyncFileStep
  <2>14. CASE SyncIndex(r)
    BY <2>14, SyncIndexStep
  <2>15. CASE Rows(r)
    BY <2>15, RowsStep
  <2>16. CASE HookRefuses(r)
    BY <2>16, HookRefusesStep
  <2>17. QED
    BY <1>1, <2>16, <2>1, <2>2, <2>3, <2>4, <2>5, <2>6, <2>7, <2>8, <2>9, <2>10, <2>11, <2>12, <2>13,
       <2>14, <2>15 DEF Step
<1>2. ASSUME NEW r \in Registrars, Die(r)
      PROVE  RegistrationInv'
  BY <1>2, GotoSteps
<1>3. CASE ReadVersions
  BY <1>3, ReadVersionsStep
<1>4. CASE OtherCommit
  BY <1>4, OtherCommitStep
<1>5. ASSUME NEW f \in Files, Edit(f)
      PROVE  RegistrationInv'
  BY <1>5, EditStep
<1>6. CASE UNCHANGED vars
  BY <1>6, Stutter
<1>7. QED
  BY <1>1, <1>2, <1>3, <1>4, <1>5, <1>6 DEF Next
\* Every version list, in git, in the index and on disk, numbers its entries from 1 with no gap,
\* whatever registrations commit, take back and put in step at once; no two version rows carry
\* one label; a landed commit stays in HEAD's history; and what the registry holds that HEAD does
\* not has a registration that still has to put it there (commit_over_head and _sync_to_head).
THEOREM RegistrationInvariant == Spec => []RegistrationInv
<1>1. RegistrationInv /\ [Next]_vars => RegistrationInv'
  BY InvNext
<1>2. QED
  BY InvInit, <1>1, PTL DEF Spec

\* A version whose commit landed on the HEAD it was built on is never lost: it stays in HEAD's
\* list unless a misplaced commit stands in HEAD's history, and that one's maker is about to take
\* it back, was killed before it could, has told the user, or does not know of it (commit_over_head).
THEOREM VersionsStay == Spec => []VersionsKept
<1>1. ASSUME RegistrationInv
      PROVE  VersionsKept
  <2> SUFFICES ASSUME NEW r \in Registrars,
                      reg[r].entry # NoEntry, reg[r].made # 0,
                      reg[r].pc \in {"syncHead", "syncList", "syncFile", "syncIndex",
                                     "syncCheck", "rows", "ok", "gaveUp"}
               PROVE  \/ Contains(commits[head].list, reg[r].entry)
                      \/ \E i \in History : Misplaced(i) /\ Answered(i)
    BY DEF VersionsKept
  <2>1. Landing(r)
    BY DEF Landing, Syncing
  <2>2. reg[r].made \in History /\ HeldFrom(reg[r].entry, reg[r].made)
    BY <1>1, <2>1 DEF RegistrationInv, CommitStays
  <2>3. head \in History /\ head >= reg[r].made
    BY <1>1, <2>2, HistoryFacts DEF RegistrationInv
  <2>4. \/ Contains(commits[head].list, reg[r].entry)
        \/ \E k \in History : k <= head /\ Misplaced(k)
    BY <2>2, <2>3 DEF HeldFrom
  <2>5. QED
    BY <1>1, <2>4 DEF RegistrationInv, UndoingAnswered
<1>2. QED
  BY <1>1, RegistrationInvariant, PTL

\* Once nobody is registering and whoever had to take a commit back made another, the version
\* list on disk and in the index is HEAD's, and so is the snapshot when none was restored or
\* edited: the last registration to look at HEAD put them in step (_sync_to_head).
THEOREM RegistryInStep == Spec => []InStep
<1>1. ASSUME RegistrationInv, Settled
      PROVE  /\ diskList = commits[head].list /\ index.list = commits[head].list
             /\ NoRestores =>
                  /\ \A f \in Files : files[f] = commits[head].tree
                  /\ index.tree = commits[head].tree
  <2>1. ASSUME NEW r \in Registrars
        PROVE  ~BehindList(r) /\ ~BehindIndex(r) /\ \A f \in Files : ~BehindFile(r, f)
    <3>1. reg[r].pc \in {"idle", "ok", "refused", "stopped"}
      BY <1>1 DEF Settled
    <3>2. ~(reg[r].made # 0 /\ Misplaced(reg[r].made))
      BY <1>1 DEF Settled, RegistrationInv, Made
    <3>3. ~(reg[r].restoring /\ \E i \in DOMAIN commits : commits[i].by = r /\ Misplaced(i))
      BY <1>1 DEF Settled, RegistrationInv, Sourced
    <3>4. QED
      BY <3>1, <3>2, <3>3 DEF BehindList, BehindIndex, BehindFile, Behind, Syncing
  <2>2. ~ListLate /\ ~IndexLate /\ \A f \in Files : ~FileLate(f)
    BY <2>1 DEF ListLate, IndexLate, FileLate
  <2>3. QED
    BY <1>1, <2>2 DEF RegistrationInv, OutOfStep
<1>2. RegistrationInv => InStep
  BY <1>1 DEF InStep
<1>3. QED
  BY <1>2, RegistrationInvariant, PTL

\* What a registration's plan says stands once it has made a commit.
PlanStands(r) ==
  /\ reg'[r].planned = reg[r].planned /\ reg'[r].newest = reg[r].newest
  /\ reg'[r].same = reg[r].same /\ reg'[r].restoring = reg[r].restoring

\* A step of a registration that is past its plan leaves the plan, and a step of another does.
LEMMA PlanKept ==
  ASSUME RegistrationInv, [Next]_vars, NEW r \in Registrars, reg[r].pc \notin Early
  PROVE  PlanStands(r)
<1>1. TypeOK /\ reg[r] \in Regs /\ reg \in [Registrars -> Regs]
  BY DEF RegistrationInv, TypeOK
<1>2. ASSUME NEW pc, Goto(r, pc)
      PROVE  PlanStands(r)
  BY <1>1, <1>2 DEF Goto, PlanStands, Regs
<1>3. CASE Step(r)
  <2>1. CASE CannotTakeBack(r) \/ SyncList(r) \/ SyncIndex(r) \/ Rows(r)
    BY <1>2, <2>1 DEF CannotTakeBack, SyncList, SyncIndex, Rows
  <2>2. CASE Guard(r) \/ Compare(r) \/ Restore(r) \/ Plan(r) \/ Decline(r) \/ Stage(r)
             \/ Build(r)
    BY <2>2 DEF Guard, Compare, Restore, Plan, Decline, Stage, Build, At, Early
  <2>3. CASE Check(r) \/ TakeBack(r) \/ HookRefuses(r)
    <3>1. Moved(r) \/ \E pc : Goto(r, pc)
      BY <2>3 DEF Check, TakeBack, HookRefuses
    <3>2. QED
      BY <1>1, <1>2, <3>1, MovedFacts DEF PlanStands
  <2>4. CASE ReadHead(r)
    <3>1. PICK list, entry :
            reg' = [reg EXCEPT ![r] = [reg[r] EXCEPT !.pc = "check", !.base = head,
                                         !.list = list, !.entry = entry]]
      BY <2>4 DEF ReadHead
    <3>2. QED
      BY <1>1, <3>1 DEF PlanStands, Regs
  <2>5. CASE GitCommit(r) \/ CommitUnseen(r)
    <3>1. PICK pc, made : reg' = [reg EXCEPT ![r] = [reg[r] EXCEPT !.pc = pc, !.made = made]]
      BY <2>5 DEF GitCommit, CommitUnseen, Committed
    <3>2. QED
      BY <1>1, <3>1 DEF PlanStands, Regs
  <2>6. CASE Landed(r) \/ SyncCheck(r)
    <3>1. ASSUME NEW pc, NEW n,
                 reg' = [reg EXCEPT ![r] = [reg[r] EXCEPT !.pc = pc, !.attempts = n]]
          PROVE  PlanStands(r)
      BY <1>1, <3>1 DEF PlanStands, Regs
    <3>2. CASE Landed(r)
      <4>1. reg' = [reg EXCEPT ![r] = [reg[r] EXCEPT
                      !.pc = Stop(r, "syncHead"), !.attempts = 0]]
        BY <3>2 DEF Landed
      <4>2. QED
        BY <3>1, <4>1
    <3>3. CASE SyncCheck(r)
      <4> DEFINE again == reg[r].attempts + 1 < MaxAttempts
                 to == IF head = reg[r].base THEN "rows"
                       ELSE IF again THEN "syncHead" ELSE "gaveUp"
                 n == IF head # reg[r].base /\ again THEN reg[r].attempts + 1 ELSE 0
      <4>1. reg' = [reg EXCEPT ![r] = [reg[r] EXCEPT !.pc = to, !.attempts = n]]
        BY <3>3 DEF SyncCheck
      <4> HIDE DEF to, n
      <4>2. QED
        BY <3>1, <4>1
    <3>4. QED
      BY <2>6, <3>2, <3>3
  <2>7. CASE SyncHead(r)
    <3>1. reg' = [reg EXCEPT ![r] = [reg[r] EXCEPT !.pc = "syncList", !.base = head,
                                                   !.file = 1]]
      BY <2>7 DEF SyncHead
    <3>2. QED
      BY <1>1, <3>1 DEF PlanStands, Regs
  <2>8. CASE SyncFile(r)
    <3>1. ASSUME NEW pc, NEW n,
                 reg' = [reg EXCEPT ![r] = [reg[r] EXCEPT !.pc = pc, !.file = n]]
          PROVE  PlanStands(r)
      BY <1>1, <3>1 DEF PlanStands, Regs
    <3> DEFINE last == reg[r].file = NFiles
               pc == IF last THEN "syncIndex" ELSE "syncFile"
               n == IF last THEN 1 ELSE reg[r].file + 1
    <3>2. reg' = [reg EXCEPT ![r] = [reg[r] EXCEPT !.pc = pc, !.file = n]]
      BY <2>8 DEF SyncFile
    <3> HIDE DEF pc, n
    <3>3. QED
      BY <3>1, <3>2
  <2>9. QED
    BY <1>3, <2>1, <2>2, <2>3, <2>4, <2>5, <2>6, <2>7, <2>8 DEF Step
<1>4. CASE Die(r)
  BY <1>2, <1>4 DEF Die
<1>5. CASE reg'[r] = reg[r]
  BY <1>5 DEF PlanStands
<1>6. ASSUME NEW q \in Registrars, q # r, Step(q) \/ Die(q)
      PROVE  reg'[r] = reg[r]
  BY <1>1, <1>6 DEF Step, Die, Goto, Guard, Compare, Restore, Plan, Decline, Stage, Build,
     ReadHead, Check, GitCommit, CommitUnseen, Committed, HookRefuses, Landed, TakeBack, CannotTakeBack, Moved, SyncHead,
     SyncList, SyncFile, SyncIndex, SyncCheck, Rows
<1>7. QED
  BY <1>3, <1>4, <1>5, <1>6 DEF Next, ReadVersions, OtherCommit, Edit, vars

\* A registration that adds a version commits only the content its plan stated, whatever the
\* source has become since; one that said it adds none commits the tree of the newest version it
\* read when it built the copy again (apply_method_registration and plan_token in method.py).
THEOREM ConfirmedCommitsOnly == Spec => []ConfirmedOnly
<1>1. Init => ConfirmedOnly
  BY DEF Init, ConfirmedOnly, StartCommit
<1>2. RegistrationInv /\ ConfirmedOnly /\ [Next]_vars => ConfirmedOnly'
  <2> SUFFICES ASSUME RegistrationInv, ConfirmedOnly, [Next]_vars,
                      NEW i \in DOMAIN commits', NEW r, r = commits'[i].by,
                      r # Nothing, ~reg'[r].restoring
               PROVE  commits'[i].tree = IF reg'[r].same THEN reg'[r].newest.content
                                                         ELSE reg'[r].planned
    BY DEF ConfirmedOnly
  <2>1. TypeOK /\ CommitsOrdered
    BY DEF RegistrationInv
  <2>2. CASE i \in DOMAIN commits /\ commits'[i] = commits[i]
    <3>1. r \in Registrars /\ commits[i].by = r
      BY <2>1, <2>2, CommitFacts
    <3>2. reg[r].pc \notin Early
      BY <2>2, <3>1 DEF RegistrationInv, Made, Sourced
    <3>3. PlanStands(r)
      BY <3>1, <3>2, PlanKept
    <3>4. QED
      BY <2>2, <3>1, <3>3 DEF PlanStands, ConfirmedOnly
  <2>3. ASSUME NEW q \in Registrars, GitCommit(q) \/ CommitUnseen(q)
        PROVE  \/ i \in DOMAIN commits /\ commits'[i] = commits[i]
               \/ r = q /\ commits'[i].tree = reg[q].content
    <3>1. PICK c : commits' = Append(commits, c) /\ c.by = q /\ c.tree = reg[q].content
      BY <2>3 DEF GitCommit, CommitUnseen, Committed
    <3>2. QED
      BY <2>1, <3>1 DEF TypeOK
  <2>4. ASSUME NEW q \in Registrars, GitCommit(q) \/ CommitUnseen(q), r = q,
               commits'[i].tree = reg[q].content
        PROVE  commits'[i].tree = IF reg'[r].same THEN reg'[r].newest.content
                                                  ELSE reg'[r].planned
    <3>1. reg[q].pc = "gitCommit" /\ Sourced(q)
      BY <2>4 DEF GitCommit, CommitUnseen, At, RegistrationInv
    <3>2. PlanStands(q)
      BY <3>1, PlanKept DEF Early
    <3>3. QED
      BY <2>4, <3>1, <3>2 DEF PlanStands, Sourced, Making
  <2>5. CASE OtherCommit
    <3>1. i \in DOMAIN commits /\ commits'[i] = commits[i]
      <4>1. commits' = Append(commits, [commits[head] EXCEPT !.parent = head, !.base = head,
                                          !.by = Nothing, !.past = PastOverHead])
        BY <2>5 DEF OtherCommit
      <4>2. commits[head] \in Commits
        BY <2>1 DEF TypeOK
      <4>3. [commits[head] EXCEPT !.parent = head, !.base = head,
                                  !.by = Nothing, !.past = PastOverHead].by = Nothing
        BY <4>2 DEF Commits
      <4>4. QED
        BY <2>1, <4>1, <4>3 DEF TypeOK
    <3>2. QED
      BY <2>2, <3>1
  <2>6. CASE UNCHANGED commits
    BY <2>2, <2>6
  <2>7. \/ UNCHANGED commits \/ OtherCommit \/ \E q \in Registrars : GitCommit(q) \/ CommitUnseen(q)
    BY DEF Next, Step, Die, Goto, Guard, Compare, Restore, Plan, Decline, Stage, Build,
       ReadHead, Check, HookRefuses, Landed, TakeBack, CannotTakeBack, Moved, SyncHead,
       SyncList, SyncFile, SyncIndex, SyncCheck, Rows, ReadVersions, Edit, vars
  <2>8. QED
    BY <2>2, <2>3, <2>4, <2>5, <2>6, <2>7
<1>3. QED
  BY <1>1, <1>2, RegistrationInvariant, PTL DEF Spec
=============================================================================
