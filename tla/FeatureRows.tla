---------------------------- MODULE FeatureRows ----------------------------
(***************************************************************************)
(* From a feature's directory to its rows: what the parser makes of the    *)
(* directory, under which name it is saved, which ids its rows keep, the   *)
(* log entries they gather and the runs that are recorded about it.        *)
(*                                                                         *)
(* A directory docs/features/<d> holds status.yaml or only other documents *)
(* and task files with logs.  status.yaml may declare an id that is not    *)
(* the directory's name, and it is the declared id that names the row.     *)
(* Task syncs, and the look-up before a run is recorded, go by directory.  *)
(*                                                                         *)
(* Fetches are single steps (WorkspaceSync has the branch move under them) *)
(* and so are saves (SnapshotStore shows that readers cannot tell), which  *)
(* leaves out what the Go service owns.                                    *)
(***************************************************************************)
EXTENDS Naturals, Sequences, SequencesExt

CONSTANTS
  Dirs,       \* feature directories
  Order,      \* the directories as the tree lists them
  Names,      \* ids a status.yaml may declare
  Tasks,      \* task file names, T1, T2 and so on
  None,       \* no directory, no file, no row
  MaxCommits, \* pushes (bound)
  MaxSyncs    \* attempts (bound)

ASSUME DirsAssumption == Dirs \subseteq Names /\ Order \in Seq(Dirs)
ASSUME BoundsAssumption == MaxCommits \in Nat /\ MaxSyncs \in Nat
ASSUME NoneAssumption == None \notin Seq(Nat) /\ None \notin Names

VARIABLES
  tree,  \* the directories at HEAD
  head,  \* pushes so far
  db,    \* the rows
  saves, \* saves committed so far (history)
  run,   \* the sync run that finished last
  full,  \* the full sync's attempt
  tgt,   \* a targeted sync's attempt
  tsk,   \* a task sync's attempt
  syncs  \* attempts so far

gitVars == <<tree, head>>
rowVars == <<tree, head, db, saves, run, full, tgt, tsk, syncs>>

\* An entry of a log is known by the commit that wrote it, 0 on a task branch.
Logs == Seq(Nat)
Files == [Tasks -> Logs \cup {None}]

\* What a directory holds besides task files: status.yaml, which declares an
\* id, or the product specification or design without it, or only tasks.md.
Holdings == {"status", "document", "tasks"}
Directories == [has : Holdings, id : Names, log : Files]

\* FeatureSnapshot: the files that could be read, under the feature's id.
Snapshots == [name : Names, log : Files]

\* The rows: row is the id of each feature, 0 without a row; ids those used up;
\* task the log each task was saved with; event, for each task name, the
\* activity rows of every id its task has had, the current one last.
Events == [feature : Nat, log : Logs]

Tables ==
  [row : [Names -> Nat],
   ids : [Names -> Nat],
   task : [Names -> [Tasks -> Logs \cup {None}]],
   event : [Names -> [Tasks -> Seq(Events)]]]

Steps == {"idle", "fetched", "saved"}
FullIdle == [step |-> "idle", tree |-> [d \in Dirs |-> None],
             snap |-> [d \in Dirs |-> None], save |-> 0]
TgtIdle == [step |-> "idle", dir |-> None, snap |-> None, save |-> 0]
TskIdle == [step |-> "idle", dir |-> None, task |-> None, log |-> <<>>,
            save |-> 0]

TypeOK ==
  /\ tree \in [Dirs -> Directories \cup {None}]
  /\ head \in 0..MaxCommits
  /\ db \in Tables
  /\ saves \in 0..MaxSyncs
  /\ run \in [ok : BOOLEAN, save : Nat]
  /\ full \in [step : Steps, tree : [Dirs -> Directories \cup {None}],
               snap : [Dirs -> Snapshots \cup {None}], save : Nat]
  /\ tgt \in [step : Steps, dir : Dirs, snap : Snapshots, save : Nat]
             \cup {TgtIdle}
  /\ tsk \in [step : Steps, dir : Dirs, task : Tasks, log : Logs, save : Nat]
             \cup {TskIdle}
  /\ syncs \in 0..MaxSyncs

----------------------------------------------------------------------------
\* GitHub.

\* A task file is left alone, removed, written to, or begun anew.
NewFile(log, entry) ==
  {log, None, <<entry>>}
    \cup (IF log = None THEN {} ELSE {Append(log, entry)})

Pushed(d, c) ==
  /\ head < MaxCommits
  /\ head' = head + 1
  /\ tree' = [tree EXCEPT ![d] = c]
  /\ UNCHANGED <<db, saves, run, full, tgt, tsk, syncs>>

\* A directory's documents change, or it goes.
NewDocuments(d, c) ==
  {[c EXCEPT !.has = h, !.id = IF h = "status" THEN i ELSE d] :
     h \in Holdings, i \in Names} \cup {None}

PushDocuments(d) ==
  /\ tree[d] # None
  /\ \E c \in NewDocuments(d, tree[d]) : Pushed(d, c)

PushTask(d, t) ==
  /\ tree[d] # None
  /\ \E log \in NewFile(tree[d].log[t], head + 2) :
       Pushed(d, [tree[d] EXCEPT !.log[t] = log])

----------------------------------------------------------------------------
\* The parser and the adapter.

\* featureID and firstNonEmpty: the declared id, else the directory.
Declared(d, c) == IF c.has = "status" THEN c.id ELSE d

\* discoverFeatureIDs, extractFeatureID: tasks.md alone does not make a feature.
Discovered(c) == c # None /\ c.has # "tasks"

\* fetchFeature, mapTaskSnapshot: task files that cannot be read or parsed are
\* left out.
Parsed(d, c, readable) ==
  [name |-> Declared(d, c),
   log |-> [t \in Tasks |-> IF t \in readable THEN c.log[t] ELSE None]]

----------------------------------------------------------------------------
\* The snapshot store.

\* Mutant of WithRow: a row is written anew under a new id.
WithNewRow(x, n) == [x EXCEPT !.row[n] = x.ids[n] + 1, !.ids[n] = @ + 1]

\* UpsertWorkspaceFeature: a row keeps its id.
WithRow(x, n) ==
  IF x.row[n] # 0 THEN x
  ELSE [x EXCEPT !.row[n] = x.ids[n] + 1, !.ids[n] = @ + 1]

Longer(m, n) == IF m > n THEN m ELSE n

\* Mutant of Logged: ON CONFLICT DO NOTHING.
LoggedOnce(old, log) ==
  [i \in 1..Longer(Len(old), Len(log)) |->
     IF i <= Len(old) THEN old[i] ELSE log[i]]

\* upsertTaskActivity: entries are written by position, none is deleted.
\* (upsertFeatureActivity does the same with a feature's history.)
Logged(old, log) ==
  [i \in 1..Longer(Len(old), Len(log)) |->
     IF i <= Len(log) THEN log[i] ELSE old[i]]

\* upsertTaskSnapshot: a task keeps its id, a new one starts its activity.
TaskEvents(x, n, t, log) ==
  LET e == x.event[n][t]
  IN  IF x.task[n][t] = None
      THEN Append(e, [feature |-> x.row[n], log |-> log])
      ELSE [e EXCEPT ![Len(e)].log = Logged(@, log)]

\* upsertFeatureSnapshot: the tasks of the snapshot are upserted, the others'
\* rows deleted.
WithFeature(x, s) ==
  LET y == WithRow(x, s.name)
      n == s.name
  IN  [y EXCEPT
         !.task[n] = s.log,
         !.event[n] = [t \in Tasks |-> IF s.log[t] = None THEN @[t]
                                       ELSE TaskEvents(y, n, t, s.log[t])]]

\* The tables after each feature that the tree lists, those of `good' written.
Stages(x, snap, good) ==
  LET after[i \in 0..Len(Order)] ==
        IF i = 0 THEN x
        ELSE IF Order[i] \in good THEN WithFeature(after[i - 1], snap[Order[i]])
        ELSE after[i - 1]
  IN  after
WithFeatures(x, snap, good) == Stages(x, snap, good)[Len(Order)]

\* DeleteWorkspaceFeaturesNotIn; tasks go with their feature, activity stays.
Pruned(x, keep) ==
  [x EXCEPT !.row = [n \in Names |-> IF n \in keep THEN @[n] ELSE 0],
            !.task = [n \in Names |-> IF n \in keep THEN @[n]
                                      ELSE [t \in Tasks |-> None]]]

\* Mutant of WithTask: a task whose feature is not there is passed over.
WithTaskOnly(x, d, t, log) ==
  IF x.row[d] = 0 THEN x
  ELSE [x EXCEPT !.task[d][t] = log, !.event[d][t] = TaskEvents(x, d, t, log)]

\* SaveTaskSnapshot: under the directory's name, in a placeholder if need be.
WithTask(x, d, t, log) ==
  LET y == IF x.row[d] = 0 THEN WithRow(x, d) ELSE x
  IN  [y EXCEPT !.task[d][t] = log,
                !.event[d][t] = TaskEvents(y, d, t, log)]

Committed(x) == db' = x /\ saves' = saves + 1

RunFailed == run' \in {run, [ok |-> FALSE, save |-> 0]}

\* An attempt of any kind fails in its fetch.
FetchFails ==
  /\ syncs < MaxSyncs
  /\ syncs' = syncs + 1
  /\ RunFailed
  /\ UNCHANGED <<gitVars, db, saves, full, tgt, tsk>>

----------------------------------------------------------------------------
\* A full sync.

\* fetchSnapshot; the features of `lost' could not be read or parsed.
FetchFull ==
  /\ full.step = "idle"
  /\ syncs < MaxSyncs
  /\ syncs' = syncs + 1
  /\ \E lost \in SUBSET {d \in Dirs : Discovered(tree[d])},
        readable \in [Dirs -> SUBSET Tasks] :
       full' = [step |-> "fetched", tree |-> tree, save |-> 0,
                snap |-> [d \in Dirs |->
                            IF Discovered(tree[d]) /\ d \notin lost
                            THEN Parsed(d, tree[d], readable[d]) ELSE None]]
  /\ UNCHANGED <<gitVars, db, saves, run, tgt, tsk>>

\* Mutant of KeepList: directories are kept, not the ids they declare.
KeptDirs == {d \in Dirs : full.snap[d] # None}

\* The features the snapshot holds, by their names.
KeepList == {full.snap[d].name : d \in {e \in Dirs : full.snap[e] # None}}

\* SaveSnapshot: feature by feature as the tree lists them, those of `bad'
\* rolled back to their savepoints.
Stored(bad) ==
  LET good == {d \in Dirs : full.snap[d] # None} \ bad
  IN  Pruned(WithFeatures(db, full.snap, good), KeepList)

SaveFull ==
  /\ full.step = "fetched"
  /\ \E bad \in SUBSET {d \in Dirs : full.snap[d] # None} :
       Committed(Stored(bad))
  /\ full' = [FullIdle EXCEPT !.step = "saved", !.save = saves + 1]
  /\ UNCHANGED <<gitVars, run, tgt, tsk, syncs>>

\* Mutant of RecordFull: the run is recorded before the save.
RecordFullFirst ==
  /\ full.step = "fetched"
  /\ run' = [ok |-> TRUE, save |-> saves + 1]
  /\ UNCHANGED <<gitVars, db, saves, full, tgt, tsk, syncs>>

\* recordSuccessfulRun.
RecordFull ==
  /\ full.step = "saved"
  /\ run' = [ok |-> TRUE, save |-> full.save]
  /\ full' = FullIdle
  /\ UNCHANGED <<gitVars, db, saves, tgt, tsk, syncs>>

\* The attempt fails or dies.
FailFull ==
  /\ full.step # "idle"
  /\ full' = FullIdle
  /\ RunFailed
  /\ UNCHANGED <<gitVars, db, saves, tgt, tsk, syncs>>

----------------------------------------------------------------------------
\* A targeted sync (and each feature of an incremental one).

\* FetchFeature by directory: any document will do, tasks.md too.
FetchTarget(d) ==
  /\ tgt.step = "idle"
  /\ syncs < MaxSyncs
  /\ syncs' = syncs + 1
  /\ tree[d] # None
  /\ \E readable \in SUBSET Tasks :
       tgt' = [step |-> "fetched", dir |-> d, save |-> 0,
               snap |-> Parsed(d, tree[d], readable)]
  /\ UNCHANGED <<gitVars, db, saves, run, full, tsk>>

\* SaveFeatureSnapshot.
SaveTarget ==
  /\ tgt.step = "fetched"
  /\ Committed(WithFeature(db, tgt.snap))
  /\ tgt' = [tgt EXCEPT !.step = "saved", !.save = saves + 1]
  /\ UNCHANGED <<gitVars, run, full, tsk, syncs>>

\* ensureSyncRun looks the feature up by the name in the job, the directory's;
\* finishing the run may fail with a warning.
RecordTarget ==
  /\ tgt.step = "saved"
  /\ db.row[tgt.dir] # 0
  /\ run' \in {run, [ok |-> TRUE, save |-> tgt.save]}
  /\ tgt' = TgtIdle
  /\ UNCHANGED <<gitVars, db, saves, full, tsk, syncs>>

\* An attempt that has saved and cannot record its run ends the same way, but
\* leaves no failed run.
FailTarget ==
  /\ tgt.step # "idle"
  /\ tgt' = TgtIdle
  /\ IF tgt.step = "saved" THEN run' = run ELSE RunFailed
  /\ UNCHANGED <<gitVars, db, saves, full, tsk, syncs>>

----------------------------------------------------------------------------
\* A task sync.

\* FetchTask reads the task's branch, which may be an entry ahead.
FetchTask(d, t) ==
  /\ tsk.step = "idle"
  /\ syncs < MaxSyncs
  /\ syncs' = syncs + 1
  /\ LET log == IF tree[d] = None \/ tree[d].log[t] = None
                THEN <<>> ELSE tree[d].log[t]
     IN  \E l \in {log, Append(log, 0)} :
           tsk' = [step |-> "fetched", dir |-> d, task |-> t, log |-> l,
                   save |-> 0]
  /\ UNCHANGED <<gitVars, db, saves, run, full, tgt>>

SaveTask ==
  /\ tsk.step = "fetched"
  /\ Committed(WithTask(db, tsk.dir, tsk.task, tsk.log))
  /\ tsk' = [tsk EXCEPT !.step = "saved", !.save = saves + 1]
  /\ UNCHANGED <<gitVars, run, full, tgt, syncs>>

\* ensureTaskSyncRun looks up the feature and the task.
RecordTask ==
  /\ tsk.step = "saved"
  /\ db.row[tsk.dir] # 0
  /\ db.task[tsk.dir][tsk.task] # None
  /\ run' = [ok |-> TRUE, save |-> tsk.save]
  /\ tsk' = TskIdle
  /\ UNCHANGED <<gitVars, db, saves, full, tgt, syncs>>

FailTask ==
  /\ tsk.step # "idle"
  /\ tsk' = TskIdle
  /\ IF tsk.step = "saved" THEN run' = run ELSE RunFailed
  /\ UNCHANGED <<gitVars, db, saves, full, tgt, syncs>>

----------------------------------------------------------------------------
\* Directories as they are created: status.yaml with the directory's name.
NewDirectory(d) == [has |-> "status", id |-> d, log |-> [t \in Tasks |-> <<1>>]]

NoRows ==
  [row |-> [n \in Names |-> 0],
   ids |-> [n \in Names |-> 0],
   task |-> [n \in Names |-> [t \in Tasks |-> None]],
   event |-> [n \in Names |-> [t \in Tasks |-> <<>>]]]

AllRows ==
  WithFeatures(NoRows, [d \in Dirs |-> Parsed(d, NewDirectory(d), Tasks)], Dirs)

\* Nothing has been synced yet, or everything.
Init ==
  /\ tree = [d \in Dirs |-> NewDirectory(d)]
  /\ head = 0
  /\ db \in {NoRows, AllRows}
  /\ saves = 0
  /\ run = [ok |-> db # NoRows, save |-> 0]
  /\ full = FullIdle
  /\ tgt = TgtIdle
  /\ tsk = TskIdle
  /\ syncs = 0

----------------------------------------------------------------------------
RowsNext ==
  \/ \E d \in Dirs : PushDocuments(d) \/ \E t \in Tasks : PushTask(d, t)
  \/ FetchFails
  \/ FetchFull \/ SaveFull \/ RecordFull \/ FailFull
  \/ \E d \in Dirs : FetchTarget(d)
  \/ SaveTarget \/ RecordTarget \/ FailTarget
  \/ \E d \in Dirs, t \in Tasks : FetchTask(d, t)
  \/ SaveTask \/ RecordTask \/ FailTask

----------------------------------------------------------------------------
\* Safety.

\* The activity kept for a task begins with the log last saved for it: reading
\* a task's activity never shows an overwritten entry where a later one is.
LogsShownIn(x) ==
  \A n \in Names, t \in Tasks :
    x.task[n][t] # None =>
      LET e == x.event[n][t]
      IN  /\ e # <<>>
          /\ IsPrefix(x.task[n][t], Last(e).log)
          /\ Last(e).feature = x.row[n]
LogShown == LogsShownIn(db)

\* A task has a feature, and no id is given to two rows.
IdsFitIn(x) ==
  \A n \in Names :
    /\ x.row[n] = 0 => \A t \in Tasks : x.task[n][t] = None
    /\ x.row[n] <= x.ids[n]
IdsFit == IdsFitIn(db)

RowsInv == TypeOK /\ LogShown /\ IdsFit

\* A sync that has saved can record that it did, unless the feature declares
\* another id than its directory's, or another save has come in between.
SavedIsRecorded ==
  /\ tgt.step = "saved" =>
       \/ db.row[tgt.dir] # 0
       \/ tgt.snap.name # tgt.dir
       \/ saves # tgt.save
  /\ tsk.step = "saved" =>
       \/ db.row[tsk.dir] # 0 /\ db.task[tsk.dir][tsk.task] # None
       \/ saves # tsk.save

\* A feature and its id go only when a full save finds no directory for it: no
\* directory of that commit gives its name, or all that do could not be read
\* or hold nothing but tasks.md.
GoneFromGit(n) ==
  /\ full.step = "fetched" /\ full'.step = "saved"
  /\ \A d \in Dirs :
       \/ full.tree[d] = None
       \/ Declared(d, full.tree[d]) # n
       \/ full.tree[d].has = "tasks"
       \/ full.snap[d] = None

\* A task and its id go only with its feature, or when a directory that gives
\* the feature's name is saved without it: the file is gone, could not be read,
\* or another directory declares the same id.
Saved ==
  IF full.step = "fetched" /\ full'.step = "saved"
  THEN {full.snap[d] : d \in Dirs} \ {None}
  ELSE IF tgt.step = "fetched" /\ tgt'.step = "saved" THEN {tgt.snap} ELSE {}
SavedWithout(n, t) == \E s \in Saved : s.name = n /\ s.log[t] = None

OnlyKnownRemovals ==
  [][\A n \in Names :
       /\ db.row[n] # 0 => db'.row[n] = db.row[n] \/ GoneFromGit(n)
       /\ \A t \in Tasks :
            db.task[n][t] # None =>
              \/ /\ db'.task[n][t] # None
                 /\ Len(db'.event[n][t]) = Len(db.event[n][t])
              \/ GoneFromGit(n)
              \/ SavedWithout(n, t)]_rowVars

=============================================================================
