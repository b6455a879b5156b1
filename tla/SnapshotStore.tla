--------------------------- MODULE SnapshotStore ---------------------------
(***************************************************************************)
(* Inside the database: the rows of one workspace's features and tasks,    *)
(* with the three saves of the sync jobs and the Go service that takes     *)
(* features over from git (owner = 'go').                                  *)
(*                                                                         *)
(* SaveSnapshot is one long transaction at READ COMMITTED: each feature is *)
(* upserted under its own savepoint, then the rows of features that git no *)
(* longer has are deleted.  What it writes stays locked and invisible      *)
(* until it commits.  The other writers touch one feature, so each of      *)
(* their transactions is one step, taken when the rows it needs are not    *)
(* locked.  SaveTaskSnapshot is several of them: it looks the feature up,  *)
(* creates it if it found none, and writes the task.                       *)
(*                                                                         *)
(* Of a feature's columns a row keeps those the writers fight over; its    *)
(* documents and activity are written with it and left out.                *)
(***************************************************************************)
EXTENDS Naturals

CONSTANTS
  Features,
  Tasks,     \* task names
  Savers,    \* SaveTaskSnapshot calls that may overlap
  Protected, \* feature statuses that git may not change once the row is go's
  Statuses,  \* feature statuses git may report
  None,      \* no row, nothing written, no feature
  MaxSaves   \* SaveSnapshot calls (bound)

ASSUME MaxSavesAssumption == MaxSaves \in Nat

VARIABLES
  row,   \* workspace_features
  task,  \* the owner of each workspace_tasks row, "none" without a row
  ids,   \* how many ids each feature name has used up
  full,  \* the SaveSnapshot transaction
  pend,  \* what that transaction has written: a row (None: deleted) and tasks
  saver, \* SaveTaskSnapshot calls
  saves  \* SaveSnapshot calls so far

vars == <<row, task, ids, full, pend, saver, saves>>

Owners == {"", "go"}
TaskOwners == {"none", "", "go"}

\* filled: the columns came from a fetch, not from the task save's placeholder.
Rows == [id : Nat, owner : Owners, status : Statuses \cup Protected \cup {""},
         filled : BOOLEAN]
Content == [owner : Owners, status : Statuses \cup {""}, filled : BOOLEAN]
Fetched == {c \in Content : c.filled}
Placeholder == [owner |-> "", status |-> "", filled |-> FALSE]

\* tasks: "keep" where the transaction has not touched the task's row.
Writes == [row : Rows \cup {None}, tasks : [Tasks -> TaskOwners \cup {"keep"}]]

Calls == [pc : {"resolve", "absent", "found"}, feature : Features,
          task : Tasks, id : Nat]
Idle == [pc |-> "idle", feature |-> None, task |-> None, id |-> 0]

ASSUME NoneAssumption == None \notin Rows \cup Writes \cup Features \cup Tasks

TypeOK ==
  /\ row \in [Features -> Rows \cup {None}]
  /\ task \in [Features -> [Tasks -> TaskOwners]]
  /\ ids \in [Features -> Nat]
  /\ full \in [open : BOOLEAN, keep : SUBSET Features, todo : SUBSET Features,
               pruned : BOOLEAN]
  /\ pend \in [Features -> Writes \cup {None}]
  /\ saver \in [Savers -> Calls \cup {Idle}]
  /\ saves \in 0..MaxSaves

Closed == [open |-> FALSE, keep |-> {}, todo |-> {}, pruned |-> FALSE]
Init ==
  /\ row = [f \in Features |-> None]
  /\ task = [f \in Features |-> [t \in Tasks |-> "none"]]
  /\ ids = [f \in Features |-> 0]
  /\ full = Closed
  /\ pend = [f \in Features |-> None]
  /\ saver = [s \in Savers |-> Idle]
  /\ saves = 0

----------------------------------------------------------------------------
\* Statements.

Locked(f) == pend[f] # None
Deleting(f) == Locked(f) /\ pend[f].row = None
TaskLocked(f, t) == Locked(f) /\ pend[f].tasks[t] # "keep"

Guarded(r) == r.owner = "go" /\ r.status \in Protected

\* Mutant of Merged: the owner comes from git (no COALESCE).
MergedOwner(r, c) ==
  [r EXCEPT !.owner = c.owner,
            !.status = IF Guarded(r) THEN @ ELSE c.status,
            !.filled = c.filled]

\* UpsertWorkspaceFeature, ON CONFLICT: an owner stays, and with it a protected
\* status.
Merged(r, c) ==
  [r EXCEPT !.owner = IF @ = "" THEN c.owner ELSE @,
            !.status = IF Guarded(r) THEN @ ELSE c.status,
            !.filled = c.filled]

\* A statement that looked a row's id up before it was deleted inserts it again
\* under that id.
NewIds(f) == {ids[f] + 1} \cup (IF ids[f] > 0 THEN {ids[f]} ELSE {})

NewRow(id, c) == [id |-> id, owner |-> c.owner, status |-> c.status,
                  filled |-> c.filled]

\* The rows that upserting content c may leave for feature f.
Upserts(f, c) == IF row[f] = None THEN {NewRow(id, c) : id \in NewIds(f)}
                                  ELSE {Merged(row[f], c)}

Issue(f, r) == ids' = [ids EXCEPT ![f] = r.id]

\* upsertTaskSnapshot for each task of the feature, DeleteFeatureTasksNotIn.
TaskWrites(f, present) ==
  [t \in Tasks |->
     IF t \in present THEN IF task[f][t] = "none" THEN "" ELSE task[f][t]
     ELSE IF task[f][t] = "" THEN "none" ELSE "keep"]

Applied(f, w) ==
  [t \in Tasks |-> IF w.row = None THEN "none"
                   ELSE IF w.tasks[t] = "keep" THEN task[f][t] ELSE w.tasks[t]]

----------------------------------------------------------------------------
\* SaveSnapshot.

\* The features in the snapshot, which are those on the keep-list.
BeginSave(keep) ==
  /\ ~full.open
  /\ saves < MaxSaves
  /\ saves' = saves + 1
  /\ full' = [open |-> TRUE, keep |-> keep, todo |-> keep, pruned |-> FALSE]
  /\ UNCHANGED <<row, task, ids, pend, saver>>

\* upsertFeatureSnapshot inside its savepoint.
SaveFeature(f, c, present) ==
  /\ f \in full.todo
  /\ full' = [full EXCEPT !.todo = @ \ {f}]
  /\ \E r \in Upserts(f, c) :
       /\ pend' = [pend EXCEPT ![f] = [row |-> r,
                                       tasks |-> TaskWrites(f, present)]]
       /\ Issue(f, r)
  /\ UNCHANGED <<row, task, saver, saves>>

\* The savepoint is rolled back and the feature skipped; it stays on the list.
SkipFeature(f) ==
  /\ f \in full.todo
  /\ full' = [full EXCEPT !.todo = @ \ {f}]
  /\ UNCHANGED <<row, task, ids, pend, saver, saves>>

\* DeleteWorkspaceFeaturesNotIn: rows outside the keep-list that nobody owns.
Stale == {f \in Features \ full.keep : row[f] # None /\ row[f].owner = ""}

\* Mutant of Prune: the rows are deleted outside the transaction.
PruneAtOnce ==
  /\ full.open
  /\ full.todo = {}
  /\ ~full.pruned
  /\ full' = [full EXCEPT !.pruned = TRUE]
  /\ row' = [f \in Features |-> IF f \in Stale THEN None ELSE row[f]]
  /\ task' = [f \in Features |->
                IF f \in Stale THEN [t \in Tasks |-> "none"] ELSE task[f]]
  /\ UNCHANGED <<ids, pend, saver, saves>>

Prune ==
  /\ full.open
  /\ full.todo = {}
  /\ ~full.pruned
  /\ full' = [full EXCEPT !.pruned = TRUE]
  /\ pend' = [f \in Features |->
                IF f \in Stale
                THEN [row |-> None, tasks |-> [t \in Tasks |-> "none"]]
                ELSE pend[f]]
  /\ UNCHANGED <<row, task, ids, saver, saves>>

\* Tasks go with their feature (ON DELETE CASCADE).
Commit ==
  /\ full.pruned
  /\ full' = Closed
  /\ row' = [f \in Features |-> IF Locked(f) THEN pend[f].row ELSE row[f]]
  /\ task' = [f \in Features |->
                IF Locked(f) THEN Applied(f, pend[f]) ELSE task[f]]
  /\ pend' = [f \in Features |-> None]
  /\ UNCHANGED <<ids, saver, saves>>

\* An error outside a savepoint, an unknown model in the policy, a timeout.
Rollback ==
  /\ full.open
  /\ full' = Closed
  /\ pend' = [f \in Features |-> None]
  /\ UNCHANGED <<row, task, ids, saver, saves>>

----------------------------------------------------------------------------
\* SaveFeatureSnapshot.
SaveFeatureSnapshot(f, c, present) ==
  /\ ~Locked(f)
  /\ \E r \in Upserts(f, c) :
       /\ row' = [row EXCEPT ![f] = r]
       /\ Issue(f, r)
       /\ task' = [task EXCEPT ![f] =
                     Applied(f, [row |-> r, tasks |-> TaskWrites(f, present)])]
  /\ UNCHANGED <<full, pend, saver, saves>>

----------------------------------------------------------------------------
\* SaveTaskSnapshot.

BeginTask(s, f, t) ==
  /\ saver[s].pc = "idle"
  /\ saver' = [saver EXCEPT ![s] = [pc |-> "resolve", feature |-> f,
                                    task |-> t, id |-> 0]]
  /\ UNCHANGED <<row, task, ids, full, pend, saves>>

\* resolveFeature.
ResolveFeature(s) ==
  LET f == saver[s].feature
  IN  /\ saver[s].pc = "resolve"
      /\ saver' = [saver EXCEPT
                     ![s].pc = IF row[f] = None THEN "absent" ELSE "found",
                     ![s].id = IF row[f] = None THEN 0 ELSE row[f].id]
      /\ UNCHANGED <<row, task, ids, full, pend, saves>>

\* The placeholder is upserted, whatever has become of the feature since.
CreateFeature(s) ==
  LET f == saver[s].feature
  IN  /\ saver[s].pc = "absent"
      /\ ~Locked(f)
      /\ \E r \in Upserts(f, Placeholder) :
           /\ row' = [row EXCEPT ![f] = r]
           /\ Issue(f, r)
           /\ saver' = [saver EXCEPT ![s].pc = "found", ![s].id = r.id]
      /\ UNCHANGED <<task, full, pend, saves>>

Referenced(s) ==
  LET f == saver[s].feature IN row[f] # None /\ row[f].id = saver[s].id

\* Mutant of SaveTask: the task's feature is not checked.
SaveTaskUnchecked(s) ==
  LET f == saver[s].feature
      t == saver[s].task
  IN  /\ saver[s].pc = "found"
      /\ ~Deleting(f)
      /\ ~TaskLocked(f, t)
      /\ task' = [task EXCEPT ![f][t] = IF @ = "none" THEN "" ELSE @]
      /\ saver' = [saver EXCEPT ![s] = Idle]
      /\ UNCHANGED <<row, ids, full, pend, saves>>

\* upsertTaskSnapshot.  The reference to the feature is checked against its
\* row, which a delete in progress keeps locked.
SaveTask(s) ==
  LET f == saver[s].feature
      t == saver[s].task
  IN  /\ saver[s].pc = "found"
      /\ Referenced(s)
      /\ ~Deleting(f)
      /\ ~TaskLocked(f, t)
      /\ task' = [task EXCEPT ![f][t] = IF @ = "none" THEN "" ELSE @]
      /\ saver' = [saver EXCEPT ![s] = Idle]
      /\ UNCHANGED <<row, ids, full, pend, saves>>

\* A statement fails, for one because the feature has gone: the job is retried.
TaskFails(s) ==
  /\ saver[s].pc # "idle"
  /\ saver' = [saver EXCEPT ![s] = Idle]
  /\ UNCHANGED <<row, task, ids, full, pend, saves>>

----------------------------------------------------------------------------
\* The Go service.  It is not in this repository: it is taken to claim features
\* and move their status on, and to claim tasks, whoever owns their feature.

Claimed(f) == row[f] # None /\ row[f].owner = "go"

Claim(f) ==
  /\ row[f] # None
  /\ ~Locked(f)
  /\ row' = [row EXCEPT ![f].owner = "go"]
  /\ UNCHANGED <<task, ids, full, pend, saver, saves>>

Advance(f) ==
  /\ Claimed(f)
  /\ ~Locked(f)
  /\ \E st \in Protected : row' = [row EXCEPT ![f].status = st]
  /\ UNCHANGED <<task, ids, full, pend, saver, saves>>

ClaimTask(f, t) ==
  /\ row[f] # None
  /\ ~TaskLocked(f, t)
  /\ task' = [task EXCEPT ![f][t] = "go"]
  /\ UNCHANGED <<row, ids, full, pend, saver, saves>>

----------------------------------------------------------------------------
Feature(f) ==
  \/ \E c \in Fetched, present \in SUBSET Tasks :
       SaveFeature(f, c, present) \/ SaveFeatureSnapshot(f, c, present)
  \/ SkipFeature(f)
  \/ Claim(f)
  \/ Advance(f)
  \/ \E t \in Tasks : ClaimTask(f, t)

Saver(s) ==
  \/ \E f \in Features, t \in Tasks : BeginTask(s, f, t)
  \/ ResolveFeature(s)
  \/ CreateFeature(s)
  \/ SaveTask(s)
  \/ TaskFails(s)

Next ==
  \/ \E keep \in SUBSET Features : BeginSave(keep)
  \/ Prune
  \/ Commit
  \/ Rollback
  \/ \E f \in Features : Feature(f)
  \/ \E s \in Savers : Saver(s)

Spec == Init /\ [][Next]_vars

----------------------------------------------------------------------------
\* Safety.

\* Every task has a feature: no save writes a task for a feature that another
\* is deleting, and a deleted feature leaves none behind.
NoOrphans ==
  \A f \in Features : row[f] = None => \A t \in Tasks : task[f][t] = "none"

\* The transaction writes over the rows as they are when it commits, not as
\* they were when it read them: a pending write still fits the row below it.
Fits(f) ==
  LET p == pend[f]
  IN  /\ row[f] = None =>
           /\ p.row # None
           /\ \A t \in Tasks : p.tasks[t] # "go"
      /\ row[f] # None /\ p.row # None =>
           /\ p.row.id = row[f].id
           /\ Claimed(f) => p.row.owner = "go"
           /\ Guarded(row[f]) => p.row.status = row[f].status
      /\ row[f] # None /\ p.row = None => ~Claimed(f)
      /\ \A t \in Tasks :
           /\ task[f][t] = "go" /\ p.row # None => p.tasks[t] \in {"go", "keep"}
           /\ p.tasks[t] = "go" => task[f][t] = "go"
NoLostUpdate == \A f \in Features : Locked(f) => Fits(f)

\* Locks belong to an open transaction; a feature git still has is never locked
\* twice nor pruned, and one git no longer has is not written.
LocksAreOwned ==
  /\ full.open \/ full.todo = {}
  /\ full.pruned => full.open /\ full.todo = {}
  /\ full.todo \subseteq full.keep
  /\ \A f \in Features : Locked(f) =>
       /\ full.open
       /\ f \notin full.todo
       /\ f \notin full.keep => full.pruned
       /\ f \in full.keep <=> ~Deleting(f)

Inv ==
  /\ TypeOK
  /\ NoOrphans
  /\ NoLostUpdate
  /\ LocksAreOwned

\* A full save deletes feature f, which its snapshot does not have, and the
\* deletion cascades to the tasks, whose owner nothing asks for.
Pruned(f) == row'[f] = None /\ f \notin full.keep

\* What the Go service has claimed stays: the row and its id, the ownership,
\* and the tasks; and only the service itself moves a protected status.  The
\* one exception is a task it claimed of a feature it did not: that goes when
\* git no longer has the feature.
ClaimsStay(f) ==
  /\ Claimed(f) =>
       /\ Claimed(f)'
       /\ row'[f].id = row[f].id
       /\ Guarded(row[f]) => row'[f].status = row[f].status \/ Advance(f)
  /\ \A t \in Tasks :
       task[f][t] = "go" => task'[f][t] = "go" \/ Pruned(f)
ClaimedSurvives == [][\A f \in Features : ClaimsStay(f)]_vars

\* SaveTaskSnapshot's comment: it creates a minimal feature row for later syncs
\* to enrich.  So it never turns a feature that was fetched into one.
KeepsContent ==
  \A f \in Features :
    row[f] # None /\ row[f].filled => row'[f] = None \/ row'[f].filled
PlaceholderOnlyFills == [][KeepsContent]_vars

----------------------------------------------------------------------------
\* Refinement: readers see committed rows only.

\* Once the transaction has looked for features to remove, one that nobody owns
\* and that it does not hold has come since.
LateFeatures ==
  {f \in Features \ full.keep :
     full.pruned /\ ~Locked(f) /\ row[f] # None /\ row[f].owner = ""}

\* A task of a feature it has written, in no snapshot and not the service's.
LateTasks ==
  [f \in Features |->
     {t \in Tasks : /\ Locked(f)
                    /\ ~Deleting(f)
                    /\ ~TaskLocked(f, t)
                    /\ task[f][t] = ""}]

Store == INSTANCE AtomicStore WITH
  saving <- full.open,
  keep <- full.keep,
  lateFeatures <- LateFeatures,
  lateTasks <- LateTasks

\* To readers the saves are atomic: no transaction, savepoint, lock or cascade
\* of the three saves shows, a save works on the rows as they are when it
\* commits, and features are removed only with the rest of a full save.
IsAtomicStore == Store!Spec

=============================================================================
