------------------------ MODULE SnapshotStoreProofs ------------------------
(***************************************************************************)
(* Inv is inductive, and with it what the Go service has claimed survives. *)
(* The argument is NoLostUpdate: a row the open transaction has written    *)
(* stays locked, so its pending write still fits the row when it commits.  *)
(* The same fact makes the store, with its transactions, savepoints and    *)
(* locks, implement AtomicStore.  A step that a reader can see is the      *)
(* abstract step of the same name, the commit of a full save is            *)
(* SaveWorkspace, and the steps inside a transaction or a call stutter.    *)
(***************************************************************************)
EXTENDS SnapshotStore, TLAPS

----------------------------------------------------------------------------
\* Lemmas about the statements.

\* An upsert leaves a well-formed row, keeps the id and the owner of the row it
\* finds, and a protected status (UpsertWorkspaceFeature).
LEMMA UpsertKeeps ==
  ASSUME TypeOK, NEW f \in Features, NEW c \in Content, NEW r \in Upserts(f, c)
  PROVE  /\ r \in Rows
         /\ r # None
         /\ row[f] # None =>
              /\ r.id = row[f].id
              /\ Claimed(f) => r.owner = "go"
              /\ Guarded(row[f]) => r.status = row[f].status
<1>1. r \in Rows
  <2>1. CASE row[f] = None
    <3>1. PICK id \in NewIds(f) : r = NewRow(id, c)
      BY <2>1 DEF Upserts
    <3>2. ids[f] \in Nat
      BY DEF TypeOK
    <3>3. id \in Nat
      BY <3>1, <3>2 DEF NewIds
    <3> QED
      BY <3>1, <3>3 DEF NewRow, Rows, Content
  <2>2. CASE row[f] # None
    <3>1. r = Merged(row[f], c) /\ row[f] \in Rows
      BY <2>2 DEF Upserts, TypeOK
    <3> QED
      BY <3>1 DEF Merged, Rows, Content, Owners
  <2> QED
    BY <2>1, <2>2
<1>2. r # None
  BY <1>1, NoneAssumption
<1>3. ASSUME row[f] # None
      PROVE  /\ r.id = row[f].id
             /\ Claimed(f) => r.owner = "go"
             /\ Guarded(row[f]) => r.status = row[f].status
  <2>1. r = Merged(row[f], c) /\ row[f] \in Rows
    BY <1>3 DEF Upserts, TypeOK
  <2> QED
    BY <2>1 DEF Merged, Rows, Claimed
<1> QED
  BY <1>1, <1>2, <1>3

\* The writes to a feature's tasks leave go's tasks alone and make none of them
\* (UpsertWorkspaceTask, DeleteFeatureTasksNotIn).
LEMMA TaskWritesKeep ==
  ASSUME TypeOK, NEW f \in Features, NEW present \in SUBSET Tasks
  PROVE  /\ TaskWrites(f, present) \in [Tasks -> TaskOwners \cup {"keep"}]
         /\ \A t \in Tasks :
              /\ task[f][t] = "go" =>
                   TaskWrites(f, present)[t] \in {"go", "keep"}
              /\ TaskWrites(f, present)[t] = "go" => task[f][t] = "go"
<1>1. task[f] \in [Tasks -> TaskOwners]
  BY DEF TypeOK
<1>2. ASSUME NEW t \in Tasks
      PROVE  task[f][t] \in TaskOwners
  BY <1>1
<1>3. ASSUME NEW t \in Tasks
      PROVE  TaskWrites(f, present)[t] =
               IF t \in present
               THEN IF task[f][t] = "none" THEN "" ELSE task[f][t]
               ELSE IF task[f][t] = "" THEN "none" ELSE "keep"
  BY DEF TaskWrites
<1>4. ASSUME NEW t \in Tasks
      PROVE  TaskWrites(f, present)[t] \in TaskOwners \cup {"keep"}
  BY <1>2, <1>3 DEF TaskOwners
<1>5. TaskWrites(f, present) \in [Tasks -> TaskOwners \cup {"keep"}]
  BY <1>4 DEF TaskWrites
<1> QED
  BY <1>2, <1>3, <1>5 DEF TaskOwners

\* Applying a write to a feature's tasks, pointwise.
LEMMA AppliedType ==
  ASSUME TypeOK, NEW f \in Features, NEW w \in Writes
  PROVE  /\ Applied(f, w) \in [Tasks -> TaskOwners]
         /\ w.row = None => \A t \in Tasks : Applied(f, w)[t] = "none"
         /\ w.row # None =>
              \A t \in Tasks :
                Applied(f, w)[t] = IF w.tasks[t] = "keep" THEN task[f][t]
                                                          ELSE w.tasks[t]
<1>1. task[f] \in [Tasks -> TaskOwners]
  BY DEF TypeOK
<1>2. w.tasks \in [Tasks -> TaskOwners \cup {"keep"}]
  BY DEF Writes
<1>3. Applied(f, w) \in [Tasks -> TaskOwners]
  BY <1>1, <1>2 DEF Applied, TaskOwners
<1> QED
  BY <1>3 DEF Applied

\* The contents of the saves.
LEMMA ContentTypes == Fetched \subseteq Content /\ Placeholder \in Content
  BY DEF Fetched, Placeholder, Content, Owners

----------------------------------------------------------------------------
\* Each step preserves Inv.  The steps fall into four kinds: those of the open
\* transaction, the two statements that write one feature's row, those that
\* write one task's row, and those that write nothing.

\* A committed write to the row of one unlocked feature: row r, and tasks w.
Written(f, r, w) ==
  /\ row' = [row EXCEPT ![f] = r]
  /\ task' = [task EXCEPT ![f] = w]
  /\ UNCHANGED <<full, pend>>

\* An unlocked feature may get any row, and any tasks.
LEMMA RowWriteKeeps ==
  ASSUME Inv, NEW f \in Features, ~Locked(f),
         NEW r \in Rows, NEW w \in [Tasks -> TaskOwners], Written(f, r, w),
         ids' \in [Features -> Nat], saver' \in [Savers -> Calls \cup {Idle}],
         saves' \in 0..MaxSaves
  PROVE  Inv'
<1> USE DEF Inv
<1>1. row \in [Features -> Rows \cup {None}] /\ task \in [Features -> [Tasks -> TaskOwners]]
  BY DEF TypeOK
<1>2. /\ row' \in [Features -> Rows \cup {None}]
      /\ task' \in [Features -> [Tasks -> TaskOwners]]
      /\ row'[f] = r /\ task'[f] = w
      /\ \A g \in Features \ {f} : row'[g] = row[g] /\ task'[g] = task[g]
      /\ full' = full /\ pend' = pend
  BY <1>1 DEF Written
<1>3. r # None
  BY NoneAssumption
<1>4. TypeOK'
  BY <1>2 DEF TypeOK
<1>5. NoOrphans'
  BY <1>2, <1>3 DEF NoOrphans
<1>6. NoLostUpdate'
  <2>1. ASSUME NEW g \in Features, Locked(g)'
        PROVE  Fits(g)'
    <3>1. g # f /\ Locked(g)
      BY <1>2, <2>1 DEF Locked
    <3>2. Fits(g) /\ row'[g] = row[g] /\ task'[g] = task[g] /\ pend' = pend
      BY <1>2, <3>1 DEF NoLostUpdate
    <3> QED
      BY <3>2 DEF Fits, Claimed
  <2> QED
    BY <2>1 DEF NoLostUpdate
<1>7. LocksAreOwned'
  BY <1>2 DEF LocksAreOwned, Locked, Deleting
<1> QED
  BY <1>4, <1>5, <1>6, <1>7

\* The row of one task may change if the transaction has not touched it.
LEMMA TaskWriteKeeps ==
  ASSUME Inv, NEW f \in Features, NEW t \in Tasks, row[f] # None,
         ~TaskLocked(f, t), NEW o \in TaskOwners,
         task' = [task EXCEPT ![f][t] = o],
         task[f][t] = "go" => o = "go",
         UNCHANGED <<row, ids, full, pend, saves>>, saver' \in [Savers -> Calls \cup {Idle}]
  PROVE  Inv'
<1> USE DEF Inv
<1>1. task \in [Features -> [Tasks -> TaskOwners]]
  BY DEF TypeOK
<1>2. /\ task' \in [Features -> [Tasks -> TaskOwners]]
      /\ task'[f][t] = o
      /\ \A u \in Tasks \ {t} : task'[f][u] = task[f][u]
      /\ \A g \in Features \ {f} : task'[g] = task[g]
  BY <1>1
<1>3. TypeOK'
  BY <1>2 DEF TypeOK
<1>4. NoOrphans'
  BY <1>2 DEF NoOrphans
<1>5. NoLostUpdate'
  <2>1. ASSUME NEW g \in Features, Locked(g)'
        PROVE  Fits(g)'
    <3>1. Locked(g) /\ Fits(g)
      BY <2>1 DEF Locked, NoLostUpdate
    <3>2. CASE g = f
      <4>1. pend[f].tasks[t] = "keep"
        BY <3>1, <3>2 DEF TaskLocked
      <4>2. ASSUME NEW u \in Tasks
            PROVE  /\ task'[f][u] = "go" /\ pend[f].row # None
                        => pend[f].tasks[u] \in {"go", "keep"}
                   /\ pend[f].tasks[u] = "go" => task'[f][u] = "go"
        <5>1. CASE u = t
          BY <4>1, <5>1
        <5>2. CASE u # t
          BY <1>2, <3>1, <3>2, <5>2 DEF Fits
        <5> QED
          BY <5>1, <5>2
      <4> QED
        BY <3>1, <3>2, <4>2 DEF Fits, Claimed
    <3>3. CASE g # f
      <4>1. task'[g] = task[g]
        BY <1>2, <3>3
      <4> QED
        BY <3>1, <4>1 DEF Fits, Claimed
    <3> QED
      BY <3>2, <3>3
  <2> QED
    BY <2>1 DEF NoLostUpdate
<1>6. LocksAreOwned'
  BY DEF LocksAreOwned, Locked, Deleting
<1> QED
  BY <1>3, <1>4, <1>5, <1>6

\* A step that writes nothing changes only the counters and the calls.
LEMMA NoWriteKeeps ==
  ASSUME Inv, UNCHANGED <<row, task, ids, full, pend, saves>>, saver' \in [Savers -> Calls \cup {Idle}]
  PROVE  Inv'
  BY DEF Inv, TypeOK, NoOrphans, NoLostUpdate, LocksAreOwned,
         Fits, Claimed, Locked, Deleting

\* Initially no row exists.
LEMMA InitInv == Init => Inv
<1> SUFFICES ASSUME Init PROVE Inv
  OBVIOUS
<1>1. TypeOK
  BY MaxSavesAssumption DEF Init, TypeOK, Closed, Idle, TaskOwners
<1>2. NoOrphans /\ NoLostUpdate /\ LocksAreOwned
  BY DEF Init, NoOrphans, NoLostUpdate, LocksAreOwned, Locked,
         Closed
<1> QED
  BY <1>1, <1>2 DEF Inv

----------------------------------------------------------------------------
\* SaveSnapshot's transaction.

\* BeginSave, SkipFeature and Rollback write no row.
LEMMA BeginKeeps ==
  ASSUME Inv, NEW keep \in SUBSET Features, BeginSave(keep)
  PROVE  Inv'
<1>1. TypeOK'
  BY MaxSavesAssumption DEF Inv, TypeOK, BeginSave
<1>2. \A f \in Features : ~Locked(f)
  BY DEF Inv, LocksAreOwned, BeginSave
<1>3. NoOrphans'
  BY DEF Inv, NoOrphans, Claimed, BeginSave
<1>4. NoLostUpdate' /\ LocksAreOwned'
  BY <1>2 DEF NoLostUpdate, LocksAreOwned, Locked, BeginSave
<1> QED
  BY <1>1, <1>3, <1>4 DEF Inv

LEMMA SkipKeeps ==
  ASSUME Inv, NEW f \in Features, SkipFeature(f)
  PROVE  Inv'
<1>1. full \in [open : BOOLEAN, keep : SUBSET Features, todo : SUBSET Features,
                pruned : BOOLEAN]
  BY DEF Inv, TypeOK
<1>2. /\ full'.todo = full.todo \ {f} /\ full'.keep = full.keep
      /\ full'.open = full.open /\ full'.pruned = full.pruned
      /\ full' \in [open : BOOLEAN, keep : SUBSET Features,
                    todo : SUBSET Features, pruned : BOOLEAN]
  BY <1>1 DEF SkipFeature
<1>3. TypeOK'
  BY <1>2 DEF Inv, TypeOK, SkipFeature
<1>4. NoOrphans' /\ NoLostUpdate'
  BY DEF Inv, NoOrphans, NoLostUpdate, Fits, Claimed, Locked,
         SkipFeature
<1>5. LocksAreOwned'
  BY <1>2 DEF Inv, LocksAreOwned, Locked, Deleting, SkipFeature
<1> QED
  BY <1>3, <1>4, <1>5 DEF Inv

LEMMA RollbackKeeps ==
  ASSUME Inv, Rollback
  PROVE  Inv'
<1>1. TypeOK'
  BY DEF Inv, TypeOK, Rollback, Closed
<1>2. NoOrphans'
  BY DEF Inv, NoOrphans, Claimed, Rollback
<1>3. \A f \in Features : ~Locked(f)'
  BY DEF Rollback, Locked
<1>4. NoLostUpdate' /\ LocksAreOwned'
  BY <1>3 DEF NoLostUpdate, LocksAreOwned, Rollback, Closed
<1> QED
  BY <1>1, <1>2, <1>4 DEF Inv

\* What SaveFeature leaves pending fits the row: nothing else can have locked it.
LEMMA SaveFeatureKeeps ==
  ASSUME Inv, NEW f \in Features, NEW c \in Fetched,
         NEW present \in SUBSET Tasks, SaveFeature(f, c, present)
  PROVE  Inv'
<1>1. PICK r \in Upserts(f, c) :
        /\ pend' = [pend EXCEPT ![f] = [row |-> r,
                                        tasks |-> TaskWrites(f, present)]]
        /\ Issue(f, r)
  BY DEF SaveFeature
<1>2. /\ r \in Rows /\ r # None
      /\ row[f] # None =>
           /\ r.id = row[f].id
           /\ Claimed(f) => r.owner = "go"
           /\ Guarded(row[f]) => r.status = row[f].status
  BY ContentTypes, UpsertKeeps DEF Inv
<1>3. /\ TaskWrites(f, present) \in [Tasks -> TaskOwners \cup {"keep"}]
      /\ \A t \in Tasks :
           /\ task[f][t] = "go" => TaskWrites(f, present)[t] \in {"go", "keep"}
           /\ TaskWrites(f, present)[t] = "go" => task[f][t] = "go"
  BY TaskWritesKeep DEF Inv
<1> DEFINE w == [row |-> r, tasks |-> TaskWrites(f, present)]
<1>4. w \in Writes /\ w # None
  BY <1>2, <1>3, NoneAssumption DEF Writes
<1>5. w.row = r /\ w.tasks = TaskWrites(f, present)
  OBVIOUS
<1> HIDE DEF w
<1>6. /\ pend \in [Features -> Writes \cup {None}]
      /\ full \in [open : BOOLEAN, keep : SUBSET Features,
                   todo : SUBSET Features, pruned : BOOLEAN]
  BY DEF Inv, TypeOK
<1>7. /\ pend' \in [Features -> Writes \cup {None}]
      /\ pend'[f] = w
      /\ \A g \in Features \ {f} : pend'[g] = pend[g]
  BY <1>1, <1>4, <1>6 DEF w
<1>8. /\ full'.todo = full.todo \ {f} /\ full'.keep = full.keep
      /\ full'.open = full.open /\ full'.pruned = full.pruned
      /\ full' \in [open : BOOLEAN, keep : SUBSET Features,
                    todo : SUBSET Features, pruned : BOOLEAN]
  BY <1>6 DEF SaveFeature
<1>9. UNCHANGED <<row, task, saver, saves>> /\ f \in full.todo
  BY DEF SaveFeature
<1>10. ids' \in [Features -> Nat]
  BY <1>1, <1>2 DEF Inv, TypeOK, Issue, Rows
<1>11. TypeOK'
  BY <1>7, <1>8, <1>9, <1>10 DEF Inv, TypeOK
<1>12. NoOrphans'
  BY <1>9 DEF Inv, NoOrphans, Claimed
<1>13. NoLostUpdate'
  <2>1. ASSUME NEW g \in Features, Locked(g)'
        PROVE  Fits(g)'
    <3>1. CASE g = f
      <4>1. row[f] = None => \A t \in Tasks : task[f][t] = "none"
        BY DEF Inv, NoOrphans
      <4>2. /\ row[f] = None =>
                 /\ w.row # None
                 /\ \A t \in Tasks : w.tasks[t] # "go"
            /\ \A t \in Tasks :
                 /\ task[f][t] = "go" => w.tasks[t] \in {"go", "keep"}
                 /\ w.tasks[t] = "go" => task[f][t] = "go"
        BY <4>1, <1>2, <1>3, <1>5
      <4> QED
        BY <1>2, <1>5, <1>7, <1>9, <3>1, <4>2 DEF Fits, Claimed
    <3>2. CASE g # f
      <4>1. Locked(g) /\ pend'[g] = pend[g]
        BY <1>7, <2>1, <3>2 DEF Locked
      <4>2. Fits(g)
        BY <4>1 DEF Inv, NoLostUpdate
      <4> QED
        BY <1>9, <4>1, <4>2 DEF Fits, Claimed
    <3> QED
      BY <3>1, <3>2
  <2> QED
    BY <2>1 DEF NoLostUpdate
<1>14. LocksAreOwned'
  <2>1. full.open /\ ~full.pruned /\ f \in full.keep
    BY <1>9 DEF Inv, LocksAreOwned
  <2>2. ASSUME NEW g \in Features, Locked(g)'
        PROVE  /\ full'.open
               /\ g \notin full'.todo
               /\ g \notin full'.keep => full'.pruned
               /\ g \in full'.keep <=> ~Deleting(g)'
    <3>1. CASE g = f
      BY <1>2, <1>5, <1>7, <1>8, <2>1, <3>1 DEF Deleting
    <3>2. CASE g # f
      <4>1. Locked(g) /\ pend'[g] = pend[g]
        BY <1>7, <2>2, <3>2 DEF Locked
      <4> QED
        BY <1>8, <4>1 DEF Inv, LocksAreOwned, Deleting, Locked
    <3> QED
      BY <3>1, <3>2
  <2>3. /\ full'.open \/ full'.todo = {}
        /\ full'.pruned => full'.open /\ full'.todo = {}
        /\ full'.todo \subseteq full'.keep
    BY <1>8, <2>1 DEF Inv, LocksAreOwned
  <2> QED
    BY <2>2, <2>3 DEF LocksAreOwned
<1> QED
  BY <1>11, <1>12, <1>13, <1>14 DEF Inv

\* Prune deletes unclaimed rows only, and none that is already locked.
LEMMA PruneKeeps ==
  ASSUME Inv, Prune
  PROVE  Inv'
<1> DEFINE gone == [row |-> None, tasks |-> [t \in Tasks |-> "none"]]
<1>1. gone \in Writes /\ gone # None
  <2>1. [t \in Tasks |-> "none"] \in [Tasks -> TaskOwners \cup {"keep"}]
    BY DEF TaskOwners
  <2>2. gone \in Writes
    BY <2>1 DEF Writes
  <2> QED
    BY <2>2, NoneAssumption
<1>2. gone.row = None /\ \A t \in Tasks : gone.tasks[t] = "none"
  OBVIOUS
<1> HIDE DEF gone
<1>3. /\ pend \in [Features -> Writes \cup {None}]
      /\ full \in [open : BOOLEAN, keep : SUBSET Features,
                   todo : SUBSET Features, pruned : BOOLEAN]
  BY DEF Inv, TypeOK
<1>4. /\ pend' \in [Features -> Writes \cup {None}]
      /\ \A f \in Features : pend'[f] = IF f \in Stale THEN gone ELSE pend[f]
  BY <1>1, <1>3 DEF Prune, gone
<1>5. /\ full'.todo = full.todo /\ full'.keep = full.keep
      /\ full'.open = full.open /\ full'.pruned = TRUE
      /\ full' \in [open : BOOLEAN, keep : SUBSET Features,
                    todo : SUBSET Features, pruned : BOOLEAN]
  BY <1>3 DEF Prune
<1>6. UNCHANGED <<row, task, ids, saver, saves>>
  BY DEF Prune
<1>7. TypeOK'
  BY <1>4, <1>5, <1>6 DEF Inv, TypeOK
<1>8. NoOrphans'
  BY <1>6 DEF Inv, NoOrphans, Claimed
<1>9. NoLostUpdate'
  <2>1. ASSUME NEW f \in Features, Locked(f)'
        PROVE  Fits(f)'
    <3>1. CASE f \in Stale
      <4>1. row[f] # None /\ ~Claimed(f)
        BY <3>1 DEF Stale, Claimed
      <4>2. pend'[f] = gone
        BY <1>4, <3>1
      <4> QED
        BY <1>2, <1>6, <4>1, <4>2 DEF Fits, Claimed
    <3>2. CASE f \notin Stale
      <4>1. Locked(f) /\ pend'[f] = pend[f]
        BY <1>4, <2>1, <3>2 DEF Locked
      <4>2. Fits(f)
        BY <4>1 DEF Inv, NoLostUpdate
      <4> QED
        BY <1>6, <4>1, <4>2 DEF Fits, Claimed
    <3> QED
      BY <3>1, <3>2
  <2> QED
    BY <2>1 DEF NoLostUpdate
<1>10. LocksAreOwned'
  <2>1. full.open /\ full.todo = {}
    BY DEF Prune
  <2>2. ASSUME NEW f \in Features, Locked(f)'
        PROVE  f \in full.keep <=> ~Deleting(f)'
    <3>1. CASE f \in Stale
      <4>1. pend'[f] = gone /\ f \notin full.keep
        BY <1>4, <3>1 DEF Stale
      <4> QED
        BY <1>2, <2>2, <4>1 DEF Deleting
    <3>2. CASE f \notin Stale
      <4>1. pend'[f] = pend[f]
        BY <1>4, <3>2
      <4> QED
        BY <2>2, <4>1 DEF Inv, LocksAreOwned, Locked, Deleting
    <3> QED
      BY <3>1, <3>2
  <2> QED
    BY <1>5, <2>1, <2>2 DEF Inv, LocksAreOwned
<1> QED
  BY <1>7, <1>8, <1>9, <1>10 DEF Inv

\* Commit: a pending write still fits, so the claims of the row it replaces are
\* in it.
LEMMA CommitKeeps ==
  ASSUME Inv, Commit
  PROVE  Inv'
<1>1. /\ row \in [Features -> Rows \cup {None}]
      /\ task \in [Features -> [Tasks -> TaskOwners]]
      /\ pend \in [Features -> Writes \cup {None}]
  BY DEF Inv, TypeOK
<1>2. \A f \in Features :
        /\ row'[f] = IF Locked(f) THEN pend[f].row ELSE row[f]
        /\ task'[f] = IF Locked(f) THEN Applied(f, pend[f]) ELSE task[f]
        /\ pend'[f] = None
  BY DEF Commit
<1>3. ASSUME NEW f \in Features, Locked(f)
      PROVE  /\ pend[f] \in Writes
             /\ pend[f].row \in Rows \cup {None}
             /\ Applied(f, pend[f]) \in [Tasks -> TaskOwners]
             /\ pend[f].row = None =>
                  \A t \in Tasks : Applied(f, pend[f])[t] = "none"
             /\ pend[f].row # None =>
                  \A t \in Tasks :
                    Applied(f, pend[f])[t] =
                      IF pend[f].tasks[t] = "keep" THEN task[f][t]
                                                   ELSE pend[f].tasks[t]
  <2>1. pend[f] \in Writes
    BY <1>1, <1>3 DEF Locked
  <2>2. pend[f].row \in Rows \cup {None}
    BY <2>1 DEF Writes
  <2> QED
    BY <2>1, <2>2, AppliedType DEF Inv
<1>4. row' \in [Features -> Rows \cup {None}]
  BY <1>1, <1>3 DEF Commit
<1>5. task' \in [Features -> [Tasks -> TaskOwners]]
  BY <1>1, <1>3 DEF Commit
<1>6. TypeOK'
  BY <1>4, <1>5 DEF Inv, TypeOK, Commit, Closed
<1>7. NoOrphans'
  <2>1. ASSUME NEW f \in Features, row'[f] = None
        PROVE  \A t \in Tasks : task'[f][t] = "none"
    <3>1. CASE Locked(f)
      BY <1>2, <1>3, <2>1, <3>1
    <3>2. CASE ~Locked(f)
      BY <1>2, <2>1, <3>2 DEF Inv, NoOrphans
    <3> QED
      BY <3>1, <3>2
  <2> QED
    BY <2>1 DEF NoOrphans
<1>8. NoLostUpdate' /\ LocksAreOwned'
  BY <1>2 DEF NoLostUpdate, LocksAreOwned, Locked, Commit, Closed
<1> QED
  BY <1>6, <1>7, <1>8 DEF Inv

----------------------------------------------------------------------------
\* The other writers.

LEMMA SaveFeatureSnapshotKeeps ==
  ASSUME Inv, NEW f \in Features, NEW c \in Fetched,
         NEW present \in SUBSET Tasks, SaveFeatureSnapshot(f, c, present)
  PROVE  Inv'
<1>1. ~Locked(f) /\ UNCHANGED <<full, pend, saver, saves>>
  BY DEF SaveFeatureSnapshot
<1>2. PICK r \in Upserts(f, c) :
        /\ row' = [row EXCEPT ![f] = r]
        /\ Issue(f, r)
        /\ task' = [task EXCEPT ![f] =
                      Applied(f, [row |-> r, tasks |-> TaskWrites(f, present)])]
  BY DEF SaveFeatureSnapshot
<1>3. r \in Rows /\ r # None
  BY ContentTypes, UpsertKeeps DEF Inv
<1>4. TaskWrites(f, present) \in [Tasks -> TaskOwners \cup {"keep"}]
  BY TaskWritesKeep DEF Inv
<1> DEFINE w == [row |-> r, tasks |-> TaskWrites(f, present)]
<1>5. w \in Writes /\ w.row = r /\ w.tasks = TaskWrites(f, present)
  BY <1>3, <1>4 DEF Writes
<1>6. Written(f, r, Applied(f, w))
  BY <1>1, <1>2 DEF Written
<1> HIDE DEF w
<1>7. /\ Applied(f, w) \in [Tasks -> TaskOwners]
      /\ \A t \in Tasks :
           Applied(f, w)[t] = IF w.tasks[t] = "keep" THEN task[f][t]
                                                     ELSE w.tasks[t]
  BY <1>3, <1>5, AppliedType DEF Inv
<1>8. ids' \in [Features -> Nat]
  BY <1>2, <1>3 DEF Inv, TypeOK, Issue, Rows
<1>9. /\ saver' \in [Savers -> Calls \cup {Idle}]
      /\ saves' \in 0..MaxSaves
  BY <1>1 DEF Inv, TypeOK
<1> QED
  BY <1>1, <1>3, <1>6, <1>7, <1>8, <1>9, RowWriteKeeps

\* A row written without its tasks, as by the placeholder and by the Go service.
LEMMA RowOnlyKeeps ==
  ASSUME Inv, NEW f \in Features, ~Locked(f), NEW r \in Rows,
         row' = [row EXCEPT ![f] = r],
         UNCHANGED <<task, full, pend, saves>>,
         ids' \in [Features -> Nat], saver' \in [Savers -> Calls \cup {Idle}]
  PROVE  Inv'
<1>1. task \in [Features -> [Tasks -> TaskOwners]] /\ saves \in 0..MaxSaves
  BY DEF Inv, TypeOK
<1>2. task[f] \in [Tasks -> TaskOwners] /\ task' = [task EXCEPT ![f] = task[f]]
  BY <1>1
<1>3. Written(f, r, task[f])
  BY <1>2 DEF Written
<1>4. saves' \in 0..MaxSaves
  BY <1>1
<1> QED
  BY <1>2, <1>3, <1>4, RowWriteKeeps

\* A call in progress names a feature and a task.
LEMMA SavedFeature ==
  ASSUME Inv, NEW s \in Savers, saver[s].pc # "idle"
  PROVE  /\ saver[s] \in Calls
         /\ saver[s].feature \in Features
         /\ saver[s].task \in Tasks
         /\ row[saver[s].feature] # None => row[saver[s].feature].id \in Nat
<1>1. saver[s] \in Calls
  BY DEF Inv, TypeOK, Idle
<1>2. saver[s].feature \in Features /\ saver[s].task \in Tasks
  BY <1>1 DEF Calls
<1> QED
  BY <1>1, <1>2 DEF Inv, TypeOK, Rows

LEMMA SaverKeeps ==
  ASSUME Inv, NEW s \in Savers, Saver(s)
  PROVE  Inv'
<1>1. /\ saver \in [Savers -> Calls \cup {Idle}]
      /\ row \in [Features -> Rows \cup {None}]
  BY DEF Inv, TypeOK
<1>3. ASSUME NEW f \in Features, NEW t \in Tasks, BeginTask(s, f, t)
      PROVE  Inv'
  <2>1. [pc |-> "resolve", feature |-> f, task |-> t, id |-> 0] \in Calls
    BY DEF Calls
  <2>2. saver' \in [Savers -> Calls \cup {Idle}]
    BY <1>1, <1>3, <2>1 DEF BeginTask
  <2> QED
    BY <1>3, <2>2, NoWriteKeeps DEF BeginTask
<1>4. CASE saver[s].pc # "idle" /\ TaskFails(s)
  <2>1. saver' \in [Savers -> Calls \cup {Idle}]
    BY <1>1, <1>4 DEF TaskFails
  <2> QED
    BY <1>4, <2>1, NoWriteKeeps DEF TaskFails
<1> DEFINE f == saver[s].feature
<1> DEFINE t == saver[s].task
<1>5. CASE ResolveFeature(s)
  <2>1. PICK n \in Nat, pc \in {"absent", "found"} :
          saver' = [saver EXCEPT ![s].pc = pc, ![s].id = n]
    <3>1. CASE row[f] = None
      BY <1>5, <3>1 DEF ResolveFeature
    <3>2. CASE row[f] # None
      <4>1. saver' = [saver EXCEPT ![s].pc = "found", ![s].id = row[f].id]
        BY <1>5, <3>2 DEF ResolveFeature
      <4>2. row[f].id \in Nat
        BY SavedFeature, <1>5, <3>2 DEF ResolveFeature
      <4> QED
        BY <4>1, <4>2
    <3> QED
      BY <3>1, <3>2
  <2>2. saver[s] \in Calls
    BY SavedFeature, <1>5 DEF ResolveFeature
  <2>3. [saver[s] EXCEPT !.pc = pc, !.id = n] \in Calls
    BY <2>2 DEF Calls
  <2>4. saver' \in [Savers -> Calls \cup {Idle}]
    BY <1>1, <2>1, <2>3
  <2> QED
    BY <1>5, <2>4, NoWriteKeeps DEF ResolveFeature
<1>6. CASE CreateFeature(s)
  <2>1. PICK r \in Upserts(f, Placeholder) :
          /\ row' = [row EXCEPT ![f] = r]
          /\ Issue(f, r)
          /\ saver' = [saver EXCEPT ![s].pc = "found", ![s].id = r.id]
    BY <1>6 DEF CreateFeature
  <2>2. f \in Features
    BY SavedFeature, <1>6 DEF CreateFeature
  <2>3. r \in Rows
    BY <2>2, ContentTypes, UpsertKeeps DEF Inv
  <2>4. r.id \in Nat
    BY <2>3 DEF Rows
  <2>5. ids' \in [Features -> Nat]
    BY <2>1, <2>4 DEF Inv, TypeOK, Issue
  <2>6. saver' \in [Savers -> Calls \cup {Idle}]
    <3>1. saver[s] \in Calls
      BY SavedFeature, <1>6 DEF CreateFeature
    <3>2. [saver[s] EXCEPT !.pc = "found", !.id = r.id] \in Calls
      BY <2>4, <3>1 DEF Calls
    <3> QED
      BY <1>1, <2>1, <3>2
  <2>7. ~Locked(f) /\ UNCHANGED <<task, full, pend, saves>>
    BY <1>6 DEF CreateFeature
  <2> HIDE DEF f
  <2> QED
    BY <2>1, <2>2, <2>3, <2>5, <2>6, <2>7, RowOnlyKeeps
<1>7. CASE SaveTask(s)
  <2>1. f \in Features /\ t \in Tasks
    BY SavedFeature, <1>7 DEF SaveTask
  <2>2. task[f][t] \in TaskOwners
    BY <2>1 DEF Inv, TypeOK
  <2> DEFINE o == IF task[f][t] = "none" THEN "" ELSE task[f][t]
  <2>3. o \in TaskOwners /\ (o = "go" <=> task[f][t] = "go")
    BY <2>2 DEF TaskOwners
  <2>4. task' = [task EXCEPT ![f][t] = o]
    BY <1>7, <2>1 DEF SaveTask
  <2>5. saver' \in [Savers -> Calls \cup {Idle}]
    BY <1>1, <1>7 DEF SaveTask
  <2>6. row[f] # None /\ ~TaskLocked(f, t)
        /\ UNCHANGED <<row, ids, full, pend, saves>>
    BY <1>7 DEF SaveTask, Referenced
  <2> HIDE DEF f, t, o
  <2> QED
    BY <2>1, <2>3, <2>4, <2>5, <2>6, TaskWriteKeeps
<1> QED
  BY <1>3, <1>4, <1>5, <1>6, <1>7 DEF Saver, TaskFails

LEMMA GoKeeps ==
  ASSUME Inv, NEW f \in Features
  PROVE  /\ Claim(f) => Inv'
         /\ Advance(f) => Inv'
         /\ \A t \in Tasks : ClaimTask(f, t) => Inv'
<1>1. row[f] \in Rows \cup {None} /\ ids \in [Features -> Nat]
      /\ saver \in [Savers -> Calls \cup {Idle}]
  BY DEF Inv, TypeOK
<1>2. ASSUME Claim(f)
      PROVE  Inv'
  <2> DEFINE r == [row[f] EXCEPT !.owner = "go"]
  <2>1. r \in Rows
    BY <1>1, <1>2 DEF Claim, Rows, Owners
  <2>2. row' = [row EXCEPT ![f] = r] /\ ~Locked(f)
        /\ UNCHANGED <<task, ids, full, pend, saver, saves>>
    BY <1>2 DEF Claim
  <2> HIDE DEF r
  <2> QED
    BY <1>1, <2>1, <2>2, RowOnlyKeeps
<1>3. ASSUME Advance(f)
      PROVE  Inv'
  <2>1. PICK st \in Protected : row' = [row EXCEPT ![f].status = st]
    BY <1>3 DEF Advance
  <2> DEFINE r == [row[f] EXCEPT !.status = st]
  <2>2. r \in Rows
    BY <1>1, <1>3 DEF Advance, Claimed, Rows
  <2>3. row' = [row EXCEPT ![f] = r] /\ ~Locked(f)
        /\ UNCHANGED <<task, ids, full, pend, saver, saves>>
    BY <1>3, <2>1 DEF Advance
  <2> HIDE DEF r
  <2> QED
    BY <1>1, <2>2, <2>3, RowOnlyKeeps
<1>4. ASSUME NEW t \in Tasks, ClaimTask(f, t)
      PROVE  Inv'
  BY <1>1, <1>4, TaskWriteKeeps DEF ClaimTask, TaskOwners
<1> QED
  BY <1>2, <1>3, <1>4

LEMMA StutterKeeps ==
  ASSUME Inv, UNCHANGED vars
  PROVE  Inv'
  BY NoWriteKeeps DEF vars, Inv, TypeOK

LEMMA StepKeeps ==
  ASSUME Inv, [Next]_vars
  PROVE  Inv'
<1>1. ASSUME NEW keep \in SUBSET Features, BeginSave(keep)
      PROVE  Inv'
  BY <1>1, BeginKeeps
<1>2. CASE Prune
  BY <1>2, PruneKeeps
<1>3. CASE Commit
  BY <1>3, CommitKeeps
<1>4. CASE Rollback
  BY <1>4, RollbackKeeps
<1>5. ASSUME NEW f \in Features, Feature(f)
      PROVE  Inv'
  BY <1>5, SaveFeatureKeeps, SaveFeatureSnapshotKeeps, SkipKeeps, GoKeeps
     DEF Feature
<1>6. ASSUME NEW s \in Savers, Saver(s)
      PROVE  Inv'
  BY <1>6, SaverKeeps
<1>7. CASE UNCHANGED vars
  BY <1>7, StutterKeeps
<1> QED
  BY <1>1, <1>2, <1>3, <1>4, <1>5, <1>6, <1>7 DEF Next

\* Inv holds of every behaviour: no orphaned task, no lost update, and locks
\* that belong to the open transaction.
THEOREM InvHolds == Spec => []Inv
  BY InitInv, StepKeeps, PTL DEF Spec

----------------------------------------------------------------------------
\* ClaimedSurvives.

\* A feature whose row a step leaves alone or upserts keeps its claim.
LEMMA UpsertStays ==
  ASSUME Inv, NEW f \in Features, NEW c \in Content, NEW r \in Upserts(f, c),
         row'[f] = r, Claimed(f)
  PROVE  /\ Claimed(f)'
         /\ row'[f].id = row[f].id
         /\ Guarded(row[f]) => row'[f].status = row[f].status
  BY UpsertKeeps DEF Inv, Claimed

\* Commit puts back what fits: the claim is in it, and so are go's tasks unless
\* the feature is deleted.
LEMMA CommitStays ==
  ASSUME Inv, NEW f \in Features, Commit
  PROVE  ClaimsStay(f)
<1>1. /\ row'[f] = IF Locked(f) THEN pend[f].row ELSE row[f]
      /\ task'[f] = IF Locked(f) THEN Applied(f, pend[f]) ELSE task[f]
  BY DEF Commit
<1>2. CASE ~Locked(f)
  BY <1>1, <1>2 DEF ClaimsStay, Claimed
<1>3. CASE Locked(f)
  <2>1. Fits(f)
    BY <1>3 DEF Inv, NoLostUpdate
  <2>2. pend[f] \in Writes
    BY <1>3 DEF Inv, TypeOK, Locked
  <2>3. ASSUME Claimed(f)
        PROVE  /\ pend[f].row # None
               /\ pend[f].row.owner = "go"
               /\ pend[f].row.id = row[f].id
               /\ Guarded(row[f]) => pend[f].row.status = row[f].status
    BY <2>1, <2>3 DEF Fits, Claimed
  <2>4. ASSUME NEW t \in Tasks, task[f][t] = "go"
        PROVE  task'[f][t] = "go" \/ Pruned(f)
    <3>1. CASE Deleting(f)
      <4>1. f \notin full.keep
        BY <1>3, <3>1 DEF Inv, LocksAreOwned
      <4> QED
        BY <1>1, <1>3, <3>1, <4>1 DEF Pruned, Deleting
    <3>2. CASE ~Deleting(f)
      <4>1. pend[f].row # None
        BY <1>3, <3>2 DEF Deleting
      <4>2. pend[f].tasks[t] \in {"go", "keep"}
        BY <2>1, <2>4, <4>1 DEF Fits
      <4>3. Applied(f, pend[f])[t] =
              IF pend[f].tasks[t] = "keep" THEN task[f][t]
                                           ELSE pend[f].tasks[t]
        BY <2>2, <4>1, AppliedType DEF Inv
      <4> QED
        BY <1>1, <1>3, <2>4, <4>2, <4>3
    <3> QED
      BY <3>1, <3>2
  <2> QED
    BY <1>1, <1>3, <2>3, <2>4 DEF ClaimsStay, Claimed
<1> QED
  BY <1>2, <1>3

\* So does SaveFeatureSnapshot.
LEMMA SaveFeatureSnapshotStays ==
  ASSUME Inv, NEW f \in Features, NEW g \in Features, NEW c \in Fetched,
         NEW present \in SUBSET Tasks, SaveFeatureSnapshot(g, c, present)
  PROVE  ClaimsStay(f)
<1>1. PICK r \in Upserts(g, c) :
        /\ row' = [row EXCEPT ![g] = r]
        /\ task' = [task EXCEPT ![g] =
                      Applied(g, [row |-> r, tasks |-> TaskWrites(g, present)])]
  BY DEF SaveFeatureSnapshot
<1>2. /\ row \in [Features -> Rows \cup {None}]
      /\ task \in [Features -> [Tasks -> TaskOwners]]
  BY DEF Inv, TypeOK
<1>3. CASE f # g
  <2>1. row'[f] = row[f] /\ task'[f] = task[f]
    BY <1>1, <1>2, <1>3
  <2> QED
    BY <2>1 DEF ClaimsStay, Claimed
<1>4. CASE f = g
  <2> DEFINE w == [row |-> r, tasks |-> TaskWrites(f, present)]
  <2>1. row'[f] = r /\ task'[f] = Applied(f, w) /\ r \in Upserts(f, c)
    BY <1>1, <1>2, <1>4
  <2>2. r \in Rows /\ r # None
    BY <2>1, ContentTypes, UpsertKeeps DEF Inv
  <2>3. /\ TaskWrites(f, present) \in [Tasks -> TaskOwners \cup {"keep"}]
        /\ \A t \in Tasks : task[f][t] = "go" =>
             TaskWrites(f, present)[t] \in {"go", "keep"}
    BY TaskWritesKeep DEF Inv
  <2>4. w \in Writes /\ w.row = r /\ w.tasks = TaskWrites(f, present)
    BY <2>2, <2>3 DEF Writes
  <2> HIDE DEF w
  <2>5. ASSUME NEW t \in Tasks, task[f][t] = "go"
        PROVE  task'[f][t] = "go"
    <3>1. Applied(f, w)[t] = IF w.tasks[t] = "keep" THEN task[f][t]
                                                    ELSE w.tasks[t]
      BY <2>2, <2>4, AppliedType DEF Inv
    <3> QED
      BY <2>1, <2>3, <2>4, <2>5, <3>1
  <2>6. Claimed(f) => /\ Claimed(f)'
                      /\ row'[f].id = row[f].id
                      /\ Guarded(row[f]) => row'[f].status = row[f].status
    BY <2>1, ContentTypes, UpsertStays
  <2> QED
    BY <2>5, <2>6 DEF ClaimsStay
<1> QED
  BY <1>3, <1>4

\* And the calls of SaveTaskSnapshot.
LEMMA SaverStays ==
  ASSUME Inv, NEW f \in Features, NEW s \in Savers, Saver(s)
  PROVE  ClaimsStay(f)
<1> DEFINE g == saver[s].feature
<1> DEFINE t == saver[s].task
<1>1. /\ row \in [Features -> Rows \cup {None}]
      /\ task \in [Features -> [Tasks -> TaskOwners]]
  BY DEF Inv, TypeOK
<1>2. CASE UNCHANGED <<row, task>>
  BY <1>2 DEF ClaimsStay, Claimed
<1>3. CASE CreateFeature(s)
  <2>1. PICK r \in Upserts(g, Placeholder) : row' = [row EXCEPT ![g] = r]
    BY <1>3 DEF CreateFeature
  <2>2. task' = task
    BY <1>3 DEF CreateFeature
  <2>3. g \in Features
    BY <1>3, SavedFeature DEF CreateFeature
  <2>4. CASE f = g
    <3>1. row'[f] = r /\ r \in Upserts(f, Placeholder)
      BY <1>1, <2>1, <2>4
    <3> QED
      BY <2>2, <3>1, ContentTypes, UpsertStays DEF ClaimsStay
  <2>5. CASE f # g
    <3>1. row'[f] = row[f]
      BY <1>1, <2>1, <2>5
    <3> QED
      BY <2>2, <3>1 DEF ClaimsStay, Claimed
  <2> QED
    BY <2>4, <2>5
<1>4. CASE SaveTask(s)
  <2>1. g \in Features /\ t \in Tasks
    BY <1>4, SavedFeature DEF SaveTask
  <2>2. row' = row
    BY <1>4 DEF SaveTask
  <2>3. ASSUME NEW u \in Tasks, task[f][u] = "go"
        PROVE  task'[f][u] = "go"
    BY <1>1, <1>4, <2>1, <2>3 DEF SaveTask
  <2> QED
    BY <2>2, <2>3 DEF ClaimsStay, Claimed
<1> QED
  BY <1>2, <1>3, <1>4 DEF Saver, BeginTask, ResolveFeature, TaskFails

\* And the Go service itself, save for the status it moves.
LEMMA GoStays ==
  ASSUME Inv, NEW f \in Features, NEW g \in Features,
         Claim(g) \/ Advance(g) \/ \E t \in Tasks : ClaimTask(g, t)
  PROVE  ClaimsStay(f)
<1>1. /\ row \in [Features -> Rows \cup {None}]
      /\ task \in [Features -> [Tasks -> TaskOwners]]
  BY DEF Inv, TypeOK
<1>2. CASE Claim(g)
  <2>1. row'[f] = IF f = g THEN [row[f] EXCEPT !.owner = "go"] ELSE row[f]
    BY <1>1, <1>2 DEF Claim
  <2>2. row[f] # None => row[f] \in Rows
    BY <1>1
  <2>3. task' = task
    BY <1>2 DEF Claim
  <2>4. row[f] # None => /\ [row[f] EXCEPT !.owner = "go"] \in Rows
                         /\ row'[f] \in Rows
                         /\ row'[f].owner \in {row[f].owner, "go"}
                         /\ row'[f].id = row[f].id
                         /\ row'[f].status = row[f].status
    BY <2>1, <2>2 DEF Rows, Owners
  <2>5. row'[f] \in Rows => row'[f] # None
    BY NoneAssumption
  <2>6. Claimed(f) => /\ Claimed(f)'
                      /\ row'[f].id = row[f].id
                      /\ row'[f].status = row[f].status
    BY <2>4, <2>5 DEF Claimed
  <2> QED
    BY <2>3, <2>6 DEF ClaimsStay
<1>3. CASE Advance(g)
  <2>1. PICK st \in Protected : row' = [row EXCEPT ![g].status = st]
    BY <1>3 DEF Advance
  <2>2. task' = task
    BY <1>3 DEF Advance
  <2>3. CASE f = g
    <3>1. row'[f] = [row[f] EXCEPT !.status = st] /\ row[f] \in Rows
      BY <1>1, <1>3, <2>1, <2>3 DEF Advance, Claimed
    <3>2. row'[f] \in Rows /\ row'[f].id = row[f].id /\ row'[f].owner = row[f].owner
      BY <3>1 DEF Rows
    <3>3. Claimed(f)'  /\ Advance(f)
      BY <1>3, <2>3, <3>2, NoneAssumption DEF Advance, Claimed
    <3> QED
      BY <2>2, <3>2, <3>3 DEF ClaimsStay
  <2>4. CASE f # g
    <3>1. row'[f] = row[f]
      BY <1>1, <2>1, <2>4
    <3> QED
      BY <2>2, <3>1 DEF ClaimsStay, Claimed
  <2> QED
    BY <2>3, <2>4
<1>4. ASSUME NEW t \in Tasks, ClaimTask(g, t)
      PROVE  ClaimsStay(f)
  <2>1. row' = row
    BY <1>4 DEF ClaimTask
  <2>2. ASSUME NEW u \in Tasks, task[f][u] = "go"
        PROVE  task'[f][u] = "go"
    BY <1>1, <1>4, <2>2 DEF ClaimTask
  <2> QED
    BY <2>1, <2>2 DEF ClaimsStay, Claimed
<1> QED
  BY <1>2, <1>3, <1>4

LEMMA StepStays ==
  ASSUME Inv, [Next]_vars
  PROVE  [\A f \in Features : ClaimsStay(f)]_vars
<1>1. SUFFICES ASSUME Next, NEW f \in Features
               PROVE  ClaimsStay(f)
  OBVIOUS
<1>2. CASE UNCHANGED <<row, task>>
  BY <1>2 DEF ClaimsStay, Claimed
<1>3. CASE Commit
  BY <1>3, CommitStays
<1>4. ASSUME NEW g \in Features, Feature(g)
      PROVE  ClaimsStay(f)
  <2>1. ASSUME NEW c \in Fetched, NEW present \in SUBSET Tasks,
               SaveFeature(g, c, present)
        PROVE  ClaimsStay(f)
    BY <1>2, <2>1 DEF SaveFeature
  <2>2. CASE SkipFeature(g)
    BY <1>2, <2>2 DEF SkipFeature
  <2> QED
    BY <1>4, <2>1, <2>2, GoStays, SaveFeatureSnapshotStays DEF Feature
<1>5. ASSUME NEW s \in Savers, Saver(s)
      PROVE  ClaimsStay(f)
  BY <1>5, SaverStays
<1> QED
  BY <1>1, <1>2, <1>3, <1>4, <1>5 DEF Next, BeginSave, Prune, Rollback

\* For any features, tasks and overlapping saves, what the Go service has
\* claimed survives every save, but for its tasks of an unclaimed feature that
\* git no longer has.
THEOREM ClaimsHold == Spec => ClaimedSurvives
  BY InitInv, StepKeeps, StepStays, PTL DEF Spec, ClaimedSurvives

----------------------------------------------------------------------------
\* The late features and tasks, told from the rows.

LEMMA LateFeature ==
  ASSUME NEW f \in Features
  PROVE  f \in LateFeatures <=>
           /\ f \notin full.keep
           /\ full.pruned
           /\ ~Locked(f)
           /\ row[f] # None
           /\ row[f].owner = ""
  BY DEF LateFeatures

LEMMA LateTask ==
  ASSUME NEW f \in Features
  PROVE  LateTasks[f] = {t \in Tasks : /\ Locked(f)
                                       /\ ~Deleting(f)
                                       /\ ~TaskLocked(f, t)
                                       /\ task[f][t] = ""}
  BY DEF LateTasks

LEMMA TaskOwner ==
  ASSUME Inv, NEW f \in Features, NEW t \in Tasks
  PROVE  task[f][t] \in {"none", "", "go"}
<1>1. task[f] \in [Tasks -> TaskOwners]
  BY DEF Inv, TypeOK
<1> QED
  BY <1>1 DEF TaskOwners

\* A step that leaves the transaction and the tasks alone makes no task late.
LEMMA TasksAsLate ==
  ASSUME UNCHANGED <<task, pend>>
  PROVE  LateTasks' = LateTasks
  BY DEF LateTasks, Locked, Deleting, TaskLocked

\* A step that rewrites the tasks of one unlocked feature makes none late.
LEMMA UnlockedTasksAsLate ==
  ASSUME Inv, NEW f \in Features, ~Locked(f), pend' = pend,
         \A g \in Features \ {f} : task'[g] = task[g]
  PROVE  LateTasks' = LateTasks
<1>1. ASSUME NEW g \in Features
      PROVE  {t \in Tasks : /\ Locked(g)'
                            /\ ~Deleting(g)'
                            /\ ~TaskLocked(g, t)'
                            /\ task'[g][t] = ""}
             = {t \in Tasks : /\ Locked(g)
                              /\ ~Deleting(g)
                              /\ ~TaskLocked(g, t)
                              /\ task[g][t] = ""}
  <2>1. CASE g = f
    BY <2>1 DEF Locked
  <2>2. CASE g # f
    BY <2>2 DEF Locked, Deleting, TaskLocked
  <2> QED
    BY <2>1, <2>2
<1> QED
  BY <1>1 DEF LateTasks

\* A step that writes the row of one feature, and takes nobody's ownership away,
\* makes at most that feature late, and only if it had no row.
LEMMA RowAsLate ==
  ASSUME Inv, NEW f \in Features, UNCHANGED <<full, pend>>,
         \A g \in Features \ {f} : row'[g] = row[g],
         row[f] # None /\ row[f].owner = "go" => row'[f].owner = "go"
  PROVE  Store!FeatureMayBeLate(f)
<1>1. ASSUME NEW g \in Features
      PROVE  g \in LateFeatures' <=> /\ g \notin full.keep
                                     /\ full.pruned
                                     /\ ~Locked(g)
                                     /\ row'[g] # None
                                     /\ row'[g].owner = ""
  BY DEF LateFeatures, Locked
<1>2. LateFeatures' \ {f} = LateFeatures \ {f}
  <2>1. LateFeatures \subseteq Features /\ LateFeatures' \subseteq Features
    BY DEF LateFeatures
  <2>2. ASSUME NEW g \in Features \ {f}
        PROVE  g \in LateFeatures' <=> g \in LateFeatures
    BY <1>1, LateFeature
  <2> QED
    BY <2>1, <2>2
<1>3. ASSUME f \in LateFeatures', f \notin LateFeatures
      PROVE  full.open /\ row[f] = None
  <2>1. full.open
    BY <1>1, <1>3 DEF Inv, LocksAreOwned
  <2>2. row[f] \in Rows \cup {None}
    BY DEF Inv, TypeOK
  <2>3. row[f] # None => row[f].owner \in {"", "go"}
    BY <2>2 DEF Rows, Owners
  <2> QED
    BY <1>1, <1>3, <2>1, <2>3, LateFeature
<1> QED
  BY <1>2, <1>3 DEF Store!FeatureMayBeLate, Store!Exists

\* A step that writes the owner of one task makes at most that task late, and
\* only if it had no row.
LEMMA TaskAsLate ==
  ASSUME Inv, NEW f \in Features, NEW t \in Tasks, NEW o \in TaskOwners,
         task' = [task EXCEPT ![f][t] = o], task[f][t] = "go" => o = "go",
         UNCHANGED <<full, pend>>
  PROVE  Store!TaskMayBeLate(f, t)
<1>1. /\ task \in [Features -> [Tasks -> TaskOwners]]
      /\ task[f] \in [Tasks -> TaskOwners]
  BY DEF Inv, TypeOK
<1>2. /\ \A g \in Features \ {f} : task'[g] = task[g]
      /\ \A u \in Tasks \ {t} : task'[f][u] = task[f][u]
      /\ task'[f][t] = o
  BY <1>1
<1>3. ASSUME NEW g \in Features
      PROVE  LateTasks'[g] = {u \in Tasks : /\ Locked(g)
                                            /\ ~Deleting(g)
                                            /\ ~TaskLocked(g, u)
                                            /\ task'[g][u] = ""}
  BY DEF LateTasks, Locked, Deleting, TaskLocked
<1>4. ASSUME NEW g \in Features \ {f}
      PROVE  LateTasks'[g] = LateTasks[g]
  <2>1. g \in Features /\ task'[g] = task[g]
    BY <1>2
  <2>2. {u \in Tasks : /\ Locked(g)
                       /\ ~Deleting(g)
                       /\ ~TaskLocked(g, u)
                       /\ task'[g][u] = ""}
        = {u \in Tasks : /\ Locked(g)
                         /\ ~Deleting(g)
                         /\ ~TaskLocked(g, u)
                         /\ task[g][u] = ""}
    BY <2>1
  <2> QED
    BY <1>3, <2>1, <2>2, LateTask
<1>5. LateTasks'[f] \ {t} = LateTasks[f] \ {t}
  <2>1. LateTasks'[f] \subseteq Tasks /\ LateTasks[f] \subseteq Tasks
    BY <1>3, LateTask
  <2>2. ASSUME NEW u \in Tasks \ {t}
        PROVE  u \in LateTasks'[f] <=> u \in LateTasks[f]
    <3>1. task'[f][u] = task[f][u]
      BY <1>2
    <3>2. u \in LateTasks'[f] <=> /\ Locked(f)
                                 /\ ~Deleting(f)
                                 /\ ~TaskLocked(f, u)
                                 /\ task'[f][u] = ""
      BY <1>3
    <3>3. u \in LateTasks[f] <=> /\ Locked(f)
                                /\ ~Deleting(f)
                                /\ ~TaskLocked(f, u)
                                /\ task[f][u] = ""
      BY LateTask
    <3> QED
      BY <3>1, <3>2, <3>3
  <2> QED
    BY <2>1, <2>2
<1>6. ASSUME t \in LateTasks'[f], t \notin LateTasks[f]
      PROVE  full.open /\ task[f][t] = "none"
  <2>1. Locked(f) /\ task'[f][t] = "" /\ task[f][t] # ""
    BY <1>3, <1>6, LateTask
  <2>2. full.open
    BY <2>1 DEF Inv, LocksAreOwned
  <2>3. task[f][t] \in {"none", "", "go"}
    BY <1>1 DEF TaskOwners
  <2> QED
    BY <1>2, <2>1, <2>2, <2>3
<1> QED
  BY <1>4, <1>5, <1>6 DEF Store!TaskMayBeLate

\* What an upsert leaves is what a row written from git may be.
LEMMA UpsertIsWritten ==
  ASSUME Inv, NEW f \in Features, NEW c \in Content, NEW r \in Upserts(f, c),
         row'[f] = r
  PROVE  Store!Written(f)
<1>1. /\ r # None
      /\ row[f] # None =>
           /\ r.id = row[f].id
           /\ Claimed(f) => r.owner = "go"
           /\ Guarded(row[f]) => r.status = row[f].status
  BY UpsertKeeps DEF Inv
<1> QED
  BY <1>1 DEF Store!Written, Store!Exists, Store!Owned, Store!Guarded,
              Claimed, Guarded

----------------------------------------------------------------------------
\* The steps of the full save.

LEMMA BeginImplements ==
  ASSUME Inv, NEW keep \in SUBSET Features, BeginSave(keep)
  PROVE  Store!Begin
<1>1. ~full.open /\ ~full.pruned
  BY DEF BeginSave, Inv, LocksAreOwned
<1>2. full'.open /\ full'.keep = keep /\ ~full'.pruned
  BY DEF BeginSave
<1>3. LateFeatures = {} /\ LateFeatures' = {}
  BY <1>1, <1>2 DEF LateFeatures
<1>4. LateTasks' = LateTasks
  BY TasksAsLate DEF BeginSave
<1> QED
  BY <1>1, <1>2, <1>3, <1>4 DEF Store!Begin, BeginSave

\* What the savepoints do is not seen.
LEMMA SaveFeatureStutters ==
  ASSUME Inv, NEW f \in Features, NEW c \in Fetched,
         NEW present \in SUBSET Tasks, SaveFeature(f, c, present)
  PROVE  UNCHANGED Store!vars
<1>1. /\ f \in full.todo
      /\ UNCHANGED <<row, task>>
      /\ full' = [full EXCEPT !.todo = @ \ {f}]
  BY DEF SaveFeature
<1>2. PICK r \in Upserts(f, c) :
        pend' = [pend EXCEPT ![f] = [row |-> r,
                                     tasks |-> TaskWrites(f, present)]]
  BY DEF SaveFeature
<1>3. /\ pend \in [Features -> Writes \cup {None}]
      /\ full \in [open : BOOLEAN, keep : SUBSET Features,
                   todo : SUBSET Features, pruned : BOOLEAN]
  BY DEF Inv, TypeOK
<1>4. ~full.pruned /\ ~Locked(f)
  BY <1>1 DEF Inv, LocksAreOwned
<1>5. full'.open = full.open /\ full'.keep = full.keep
      /\ full'.pruned = full.pruned
  BY <1>1, <1>3
<1>6. LateFeatures = {} /\ LateFeatures' = {}
  BY <1>4, <1>5 DEF LateFeatures
<1>7. /\ pend'[f].tasks = TaskWrites(f, present)
      /\ \A g \in Features \ {f} : pend'[g] = pend[g]
  BY <1>2, <1>3
<1>8. ASSUME NEW g \in Features
      PROVE  {t \in Tasks : /\ Locked(g)'
                            /\ ~Deleting(g)'
                            /\ ~TaskLocked(g, t)'
                            /\ task'[g][t] = ""}
             = {t \in Tasks : /\ Locked(g)
                              /\ ~Deleting(g)
                              /\ ~TaskLocked(g, t)
                              /\ task[g][t] = ""}
  <2>1. CASE g = f
    <3>1. ASSUME NEW t \in Tasks, task[f][t] = ""
          PROVE  TaskWrites(f, present)[t] # "keep"
      BY <3>1 DEF TaskWrites
    <3>2. ASSUME NEW t \in Tasks, Locked(f)', task[f][t] = ""
          PROVE  TaskLocked(f, t)'
      BY <1>7, <3>1, <3>2 DEF TaskLocked, Locked
    <3> QED
      BY <1>1, <1>4, <2>1, <3>2
  <2>2. CASE g # f
    BY <1>1, <1>7, <2>2 DEF Locked, Deleting, TaskLocked
  <2> QED
    BY <2>1, <2>2
<1>9. LateTasks' = LateTasks
  BY <1>8 DEF LateTasks
<1> QED
  BY <1>1, <1>5, <1>6, <1>9 DEF Store!vars

LEMMA SkipStutters ==
  ASSUME Inv, NEW f \in Features, SkipFeature(f)
  PROVE  UNCHANGED Store!vars
<1>1. UNCHANGED <<row, task, pend>> /\ full' = [full EXCEPT !.todo = @ \ {f}]
  BY DEF SkipFeature
<1>2. full'.open = full.open /\ full'.keep = full.keep
      /\ full'.pruned = full.pruned
  BY <1>1 DEF Inv, TypeOK
<1>3. LateFeatures' = LateFeatures
  BY <1>1, <1>2 DEF LateFeatures, Locked
<1>4. LateTasks' = LateTasks
  BY <1>1, TasksAsLate
<1> QED
  BY <1>1, <1>2, <1>3, <1>4 DEF Store!vars

\* Nor are its deletions, before it commits.
LEMMA PruneStutters ==
  ASSUME Inv, Prune
  PROVE  UNCHANGED Store!vars
<1> DEFINE gone == [row |-> None, tasks |-> [t \in Tasks |-> "none"]]
<1>1. /\ UNCHANGED <<row, task>>
      /\ full' = [full EXCEPT !.pruned = TRUE]
      /\ ~full.pruned
  BY DEF Prune
<1>2. /\ full'.open = full.open /\ full'.keep = full.keep
      /\ full'.pruned = TRUE
  BY <1>1 DEF Inv, TypeOK
<1>3. \A f \in Features : pend'[f] = IF f \in Stale THEN gone ELSE pend[f]
  BY DEF Prune
<1>4. gone \in Writes /\ gone.row = None
  <2>1. [t \in Tasks |-> "none"] \in [Tasks -> TaskOwners \cup {"keep"}]
    BY DEF TaskOwners
  <2> QED
    BY <2>1 DEF Writes
<1>5. gone # None
  BY <1>4, NoneAssumption
<1> HIDE DEF gone
<1>6. LateFeatures = {}
  BY <1>1 DEF LateFeatures
<1>7. LateFeatures' = {}
  <2>1. ASSUME NEW f \in Features \ full.keep, row[f] # None, row[f].owner = ""
        PROVE  Locked(f)'
    BY <1>3, <1>5, <2>1 DEF Stale, Locked
  <2> QED
    BY <1>1, <1>2, <2>1 DEF LateFeatures
<1>8. ASSUME NEW g \in Features
      PROVE  {t \in Tasks : /\ Locked(g)'
                            /\ ~Deleting(g)'
                            /\ ~TaskLocked(g, t)'
                            /\ task'[g][t] = ""}
             = {t \in Tasks : /\ Locked(g)
                              /\ ~Deleting(g)
                              /\ ~TaskLocked(g, t)
                              /\ task[g][t] = ""}
  <2>1. CASE g \in Stale
    <3>1. ~Locked(g)
      BY <1>1, <2>1 DEF Stale, Inv, LocksAreOwned
    <3>2. Deleting(g)'
      BY <1>3, <1>4, <1>5, <2>1 DEF Deleting, Locked
    <3> QED
      BY <3>1, <3>2
  <2>2. CASE g \notin Stale
    BY <1>1, <1>3, <2>2 DEF Locked, Deleting, TaskLocked
  <2> QED
    BY <2>1, <2>2
<1>9. LateTasks' = LateTasks
  BY <1>8 DEF LateTasks
<1> QED
  BY <1>1, <1>2, <1>6, <1>7, <1>9 DEF Store!vars

\* The transaction ends.
LEMMA EndImplements ==
  ASSUME Inv, full.open, full' = Closed, pend' = [f \in Features |-> None]
  PROVE  Store!End
<1>1. ~full'.open /\ full'.keep = {} /\ ~full'.pruned
  BY DEF Closed
<1>2. LateFeatures' = {}
  BY <1>1 DEF LateFeatures
<1>3. \A f \in Features : LateTasks'[f] = {}
  BY DEF LateTasks, Locked
<1> QED
  BY <1>1, <1>2, <1>3 DEF Store!End

LEMMA RollbackImplements ==
  ASSUME Inv, Rollback
  PROVE  Store!Abandon
  BY EndImplements DEF Rollback, Store!Abandon

\* The commit of a feature that the snapshot holds: what was computed from older
\* rows is what would be computed from the rows of now.
LEMMA CommitReplaces ==
  ASSUME Inv, Commit, NEW f \in Features, Locked(f), ~Deleting(f)
  PROVE  Store!Replaced(f, LateTasks[f])
<1>1. row'[f] = pend[f].row /\ task'[f] = Applied(f, pend[f])
  BY DEF Commit
<1>2. pend[f] \in Writes /\ pend[f].row # None /\ Fits(f)
  BY DEF Inv, TypeOK, Locked, Deleting, NoLostUpdate
<1>3. Store!Written(f)
  BY <1>1, <1>2 DEF Store!Written, Store!Exists, Store!Owned, Store!Guarded,
                    Fits, Claimed, Guarded
<1> DEFINE present == {t \in Tasks : pend[f].tasks[t] \in {"", "go"}}
<1>4. ASSUME NEW t \in Tasks
      PROVE  task'[f][t] = IF task[f][t] = "go" THEN "go"
                           ELSE IF t \in present THEN ""
                           ELSE IF t \in LateTasks[f] THEN task[f][t]
                           ELSE "none"
  <2>1. task'[f][t] = IF pend[f].tasks[t] = "keep" THEN task[f][t]
                                                   ELSE pend[f].tasks[t]
    BY <1>1, <1>2, AppliedType DEF Inv
  <2>2. /\ task[f][t] = "go" => pend[f].tasks[t] \in {"go", "keep"}
        /\ pend[f].tasks[t] = "go" => task[f][t] = "go"
    BY <1>2 DEF Fits
  <2>3. /\ task[f][t] \in {"none", "", "go"}
        /\ pend[f].tasks[t] \in {"none", "", "go", "keep"}
    <3>1. pend[f].tasks \in [Tasks -> TaskOwners \cup {"keep"}]
      BY <1>2 DEF Writes
    <3> QED
      BY <3>1, TaskOwner DEF TaskOwners
  <2>4. t \in LateTasks[f] <=> pend[f].tasks[t] = "keep" /\ task[f][t] = ""
    BY LateTask DEF TaskLocked
  <2> QED
    BY <2>1, <2>2, <2>3, <2>4
<1>5. Store!TasksReplaced(f, LateTasks[f])
  <2>1. present \in SUBSET Tasks
    OBVIOUS
  <2> HIDE DEF present
  <2> QED
    BY <1>4, <2>1 DEF Store!TasksReplaced
<1> QED
  BY <1>3, <1>5 DEF Store!Replaced

LEMMA CommitImplements ==
  ASSUME Inv, Commit
  PROVE  Store!SaveWorkspace
<1>1. full.open /\ full.pruned
  BY DEF Commit, Inv, LocksAreOwned
<1>2. Store!End
  BY <1>1, EndImplements DEF Commit
<1>3. ASSUME NEW f \in Features, ~Locked(f)
      PROVE  Store!Same(f)
  BY <1>3 DEF Commit, Store!Same
<1>4. ASSUME NEW f \in full.keep
      PROVE  Store!Replaced(f, LateTasks[f]) \/ Store!Same(f)
  <2>1. f \in Features
    BY DEF Inv, TypeOK
  <2>2. Locked(f) => ~Deleting(f)
    BY <2>1 DEF Inv, LocksAreOwned
  <2> QED
    BY <1>3, <2>1, <2>2, CommitReplaces
<1>5. ASSUME NEW f \in Features \ full.keep
      PROVE  IF Store!Unowned(f) /\ f \notin LateFeatures
             THEN Store!Removed(f) ELSE Store!Same(f)
  <2>1. CASE Locked(f)
    <3>1. Deleting(f) /\ Fits(f) /\ pend[f] \in Writes
      BY <2>1 DEF Inv, LocksAreOwned, NoLostUpdate, TypeOK, Locked
    <3>2. row[f] # None /\ row[f].owner = ""
      <4>1. row[f] # None /\ ~Claimed(f)
        BY <3>1 DEF Fits, Deleting
      <4>2. row[f] \in Rows
        BY <4>1 DEF Inv, TypeOK
      <4> QED
        BY <4>1, <4>2 DEF Claimed, Rows, Owners
    <3>3. Store!Unowned(f) /\ f \notin LateFeatures
      BY <2>1, <3>2, LateFeature DEF Store!Unowned, Store!Exists
    <3>4. row'[f] = None /\ task'[f] = Applied(f, pend[f])
      BY <2>1, <3>1 DEF Commit, Deleting
    <3>5. \A t \in Tasks : task'[f][t] = "none"
      BY <3>1, <3>4, AppliedType DEF Inv, Deleting
    <3> QED
      BY <3>3, <3>4, <3>5 DEF Store!Removed
  <2>2. CASE ~Locked(f)
    <3>1. Store!Unowned(f) => f \in LateFeatures
      BY <1>1, <2>2, LateFeature DEF Store!Unowned, Store!Exists
    <3> QED
      BY <1>3, <2>2, <3>1
  <2> QED
    BY <2>1, <2>2
<1> QED
  BY <1>2, <1>4, <1>5 DEF Store!SaveWorkspace

----------------------------------------------------------------------------
\* The other writers.

LEMMA SaveFeatureSnapshotImplements ==
  ASSUME Inv, NEW f \in Features, NEW c \in Fetched,
         NEW present \in SUBSET Tasks, SaveFeatureSnapshot(f, c, present)
  PROVE  Store!SaveFeature(f)
<1>1. ~Locked(f) /\ UNCHANGED <<full, pend>>
  BY DEF SaveFeatureSnapshot
<1>2. PICK r \in Upserts(f, c) :
        /\ row' = [row EXCEPT ![f] = r]
        /\ task' = [task EXCEPT ![f] =
                      Applied(f, [row |-> r, tasks |-> TaskWrites(f, present)])]
  BY DEF SaveFeatureSnapshot
<1>3. /\ r \in Rows /\ r # None
      /\ row[f] # None => (Claimed(f) => r.owner = "go")
  BY ContentTypes, UpsertKeeps DEF Inv
<1>4. TaskWrites(f, present) \in [Tasks -> TaskOwners \cup {"keep"}]
  BY TaskWritesKeep DEF Inv
<1> DEFINE w == [row |-> r, tasks |-> TaskWrites(f, present)]
<1>5. w \in Writes /\ w.row = r /\ w.tasks = TaskWrites(f, present)
  BY <1>3, <1>4 DEF Writes
<1>6. /\ row'[f] = r /\ task'[f] = Applied(f, w)
      /\ \A g \in Features \ {f} : row'[g] = row[g] /\ task'[g] = task[g]
  BY <1>2 DEF Inv, TypeOK
<1> HIDE DEF w
<1>7. Store!Written(f)
  BY <1>6, ContentTypes, UpsertIsWritten
<1>8. ASSUME NEW t \in Tasks
      PROVE  task'[f][t] = IF task[f][t] = "go" THEN "go"
                           ELSE IF t \in present THEN ""
                           ELSE IF t \in {} THEN task[f][t]
                           ELSE "none"
  <2>1. task'[f][t] = IF w.tasks[t] = "keep" THEN task[f][t] ELSE w.tasks[t]
    BY <1>3, <1>5, <1>6, AppliedType DEF Inv
  <2>2. w.tasks[t] = IF t \in present
                     THEN IF task[f][t] = "none" THEN "" ELSE task[f][t]
                     ELSE IF task[f][t] = "" THEN "none" ELSE "keep"
    BY <1>5 DEF TaskWrites
  <2>3. task[f][t] \in {"none", "", "go"}
    BY TaskOwner
  <2> QED
    BY <2>1, <2>2, <2>3
<1>9. Store!Replaced(f, {})
  BY <1>7, <1>8 DEF Store!Replaced, Store!TasksReplaced
<1>10. Store!FeatureMayBeLate(f)
  BY <1>1, <1>3, <1>6, RowAsLate DEF Claimed
<1>11. LateTasks' = LateTasks
  BY <1>1, <1>6, UnlockedTasksAsLate
<1> QED
  BY <1>1, <1>6, <1>9, <1>10, <1>11
     DEF Store!SaveFeature, Store!OthersSame, Store!Same

\* The calls of SaveTaskSnapshot: the placeholder and the task are seen.
LEMMA CreateFeatureImplements ==
  ASSUME Inv, NEW s \in Savers, CreateFeature(s)
  PROVE  Store!EnsureFeature(saver[s].feature)
<1> DEFINE f == saver[s].feature
<1>1. f \in Features
  BY SavedFeature DEF CreateFeature
<1>2. ~Locked(f) /\ UNCHANGED <<task, full, pend>>
  BY DEF CreateFeature
<1>3. PICK r \in Upserts(f, Placeholder) : row' = [row EXCEPT ![f] = r]
  BY DEF CreateFeature
<1> HIDE DEF f
<1>4. row'[f] = r /\ \A g \in Features \ {f} : row'[g] = row[g]
  BY <1>1, <1>3 DEF Inv, TypeOK
<1>5. row[f] # None => (Claimed(f) => r.owner = "go")
  BY <1>1, ContentTypes, UpsertKeeps DEF Inv
<1>6. Store!Written(f)
  BY <1>1, <1>4, ContentTypes, UpsertIsWritten
<1>7. Store!FeatureMayBeLate(f)
  BY <1>1, <1>2, <1>4, <1>5, RowAsLate DEF Claimed
<1>8. LateTasks' = LateTasks
  BY <1>2, TasksAsLate
<1> QED
  BY <1>2, <1>4, <1>6, <1>7, <1>8
     DEF f, Store!EnsureFeature, Store!OthersSame, Store!Same

LEMMA SaveTaskImplements ==
  ASSUME Inv, NEW s \in Savers, SaveTask(s)
  PROVE  Store!SaveTask(saver[s].feature, saver[s].task)
<1> DEFINE f == saver[s].feature
<1> DEFINE t == saver[s].task
<1>1. f \in Features /\ t \in Tasks
  BY SavedFeature DEF SaveTask
<1>2. row[f] # None /\ UNCHANGED <<row, full, pend>>
  BY DEF SaveTask, Referenced
<1>3. task[f][t] \in {"none", "", "go"}
  BY <1>1, TaskOwner
<1> DEFINE o == IF task[f][t] = "go" THEN "go" ELSE ""
<1>4. task' = [task EXCEPT ![f][t] = o]
  <2>1. (IF task[f][t] = "none" THEN "" ELSE task[f][t]) = o
    BY <1>3
  <2>2. task' = [task EXCEPT ![f][t] = IF @ = "none" THEN "" ELSE @]
    BY DEF SaveTask
  <2> QED
    BY <1>1, <2>1, <2>2
<1>5. o \in TaskOwners /\ (task[f][t] = "go" => o = "go")
  BY DEF TaskOwners
<1>6. task' = [task EXCEPT ![f][t] = IF @ = "go" THEN "go" ELSE ""]
  BY <1>4
<1> HIDE DEF f, t, o
<1>7. Store!TaskMayBeLate(f, t)
  BY <1>1, <1>2, <1>4, <1>5, TaskAsLate
<1>8. LateFeatures' = LateFeatures
  BY <1>2 DEF LateFeatures, Locked
<1> QED
  BY <1>2, <1>6, <1>7, <1>8 DEF f, t, Store!SaveTask, Store!Exists

LEMMA SaverImplements ==
  ASSUME Inv, NEW s \in Savers, Saver(s)
  PROVE  Store!Next \/ UNCHANGED Store!vars
<1>1. CASE UNCHANGED <<row, task, full, pend>>
  BY <1>1 DEF Store!vars, LateFeatures, LateTasks, Locked, Deleting, TaskLocked
<1>2. CASE CreateFeature(s)
  BY <1>2, CreateFeatureImplements, SavedFeature DEF CreateFeature, Store!Next
<1>3. CASE SaveTask(s)
  BY <1>3, SaveTaskImplements, SavedFeature DEF SaveTask, Store!Next
<1> QED
  BY <1>1, <1>2, <1>3 DEF Saver, BeginTask, ResolveFeature, TaskFails

LEMMA ClaimImplements ==
  ASSUME Inv, NEW f \in Features, Claim(f)
  PROVE  Store!Claim(f)
<1>1. /\ row[f] # None
      /\ row' = [row EXCEPT ![f].owner = "go"]
      /\ UNCHANGED <<task, full, pend>>
  BY DEF Claim
<1>2. /\ row'[f] = [row[f] EXCEPT !.owner = "go"]
      /\ row[f] \in Rows
      /\ \A g \in Features \ {f} : row'[g] = row[g]
  BY <1>1 DEF Inv, TypeOK
<1>3. row'[f].owner = "go"
  BY <1>2 DEF Rows
<1>4. Store!FeatureMayBeLate(f)
  BY <1>1, <1>2, <1>3, RowAsLate
<1>5. LateTasks' = LateTasks
  BY <1>1, TasksAsLate
<1> QED
  BY <1>1, <1>4, <1>5 DEF Store!Claim, Store!Exists

LEMMA AdvanceImplements ==
  ASSUME Inv, NEW f \in Features, Advance(f)
  PROVE  Store!Advance(f)
<1>1. Claimed(f) /\ UNCHANGED <<task, full, pend>>
  BY DEF Advance
<1>2. PICK st \in Protected : row' = [row EXCEPT ![f].status = st]
  BY DEF Advance
<1>3. /\ row'[f] = [row[f] EXCEPT !.status = st]
      /\ row[f] \in Rows
      /\ \A g \in Features \ {f} : row'[g] = row[g]
  BY <1>1, <1>2 DEF Inv, TypeOK, Claimed
<1>4. row[f].owner = "go" /\ row'[f].owner = "go"
  BY <1>1, <1>3 DEF Rows, Claimed
<1>5. LateFeatures' = LateFeatures
  <2>1. ASSUME NEW g \in Features
        PROVE  (row'[g] # None /\ row'[g].owner = "")
               <=> (row[g] # None /\ row[g].owner = "")
    BY <1>3, <1>4
  <2> QED
    BY <1>1, <2>1 DEF LateFeatures, Locked
<1>6. LateTasks' = LateTasks
  BY <1>1, TasksAsLate
<1> QED
  BY <1>1, <1>2, <1>5, <1>6
     DEF Store!Advance, Store!Owned, Store!Exists, Claimed

LEMMA ClaimTaskImplements ==
  ASSUME Inv, NEW f \in Features, NEW t \in Tasks, ClaimTask(f, t)
  PROVE  Store!ClaimTask(f, t)
<1>1. /\ row[f] # None
      /\ task' = [task EXCEPT ![f][t] = "go"]
      /\ UNCHANGED <<row, full, pend>>
  BY DEF ClaimTask
<1>2. Store!TaskMayBeLate(f, t)
  BY <1>1, TaskAsLate DEF TaskOwners
<1>3. LateFeatures' = LateFeatures
  BY <1>1 DEF LateFeatures, Locked
<1> QED
  BY <1>1, <1>2, <1>3 DEF Store!ClaimTask, Store!Exists

----------------------------------------------------------------------------
LEMMA InitImplements ==
  ASSUME Init
  PROVE  Store!Init
<1>1. ~full.open /\ full.keep = {} /\ ~full.pruned
  BY DEF Init, Closed
<1>2. LateFeatures = {}
  BY <1>1 DEF LateFeatures
<1>3. LateTasks = [f \in Features |-> {}]
  BY DEF LateTasks, Locked, Init
<1> QED
  BY <1>1, <1>2, <1>3 DEF Init, Store!Init

LEMMA StepImplements ==
  ASSUME Inv, [Next]_vars
  PROVE  [Store!Next]_(Store!vars)
<1>1. ASSUME NEW keep \in SUBSET Features, BeginSave(keep)
      PROVE  Store!Next
  BY <1>1, BeginImplements DEF Store!Next
<1>2. CASE Prune
  BY <1>2, PruneStutters
<1>3. CASE Commit
  BY <1>3, CommitImplements DEF Store!Next
<1>4. CASE Rollback
  BY <1>4, RollbackImplements DEF Store!Next
<1>5. ASSUME NEW f \in Features, Feature(f)
      PROVE  [Store!Next]_(Store!vars)
  <2>1. ASSUME NEW c \in Fetched, NEW present \in SUBSET Tasks,
               SaveFeature(f, c, present)
        PROVE  UNCHANGED Store!vars
    BY <2>1, SaveFeatureStutters
  <2>2. ASSUME NEW c \in Fetched, NEW present \in SUBSET Tasks,
               SaveFeatureSnapshot(f, c, present)
        PROVE  Store!Next
    BY <2>2, SaveFeatureSnapshotImplements DEF Store!Next
  <2>3. CASE SkipFeature(f)
    BY <2>3, SkipStutters
  <2>4. CASE Claim(f)
    BY <2>4, ClaimImplements DEF Store!Next
  <2>5. CASE Advance(f)
    BY <2>5, AdvanceImplements DEF Store!Next
  <2>6. ASSUME NEW t \in Tasks, ClaimTask(f, t)
        PROVE  Store!Next
    BY <2>6, ClaimTaskImplements DEF Store!Next
  <2> QED
    BY <1>5, <2>1, <2>2, <2>3, <2>4, <2>5, <2>6 DEF Feature
<1>6. ASSUME NEW s \in Savers, Saver(s)
      PROVE  [Store!Next]_(Store!vars)
  BY <1>6, SaverImplements
<1>7. CASE UNCHANGED vars
  BY <1>7 DEF vars, Store!vars, LateFeatures, LateTasks, Locked, Deleting,
              TaskLocked
<1> QED
  BY <1>1, <1>2, <1>3, <1>4, <1>5, <1>6, <1>7 DEF Next

\* For any features, tasks and overlapping saves, the three saves are atomic to
\* those who read the rows.
THEOREM StoreIsAtomic == Spec => IsAtomicStore
<1>1. Init => Store!Init
  BY InitImplements
<1>2. Inv /\ [Next]_vars => [Store!Next]_(Store!vars)
  BY StepImplements
<1> QED
  BY <1>1, <1>2, InvHolds, PTL DEF Spec, IsAtomicStore, Store!Spec

=============================================================================
