--------------------------- MODULE SnapshotReads ---------------------------
(***************************************************************************)
(* Those who read the rows of FeatureRows, beside the syncs that write     *)
(* them.                                                                   *)
(*                                                                         *)
(* GetFeature, GetTask and GetWorkspace are several statements without a   *)
(* transaction: each sees what is committed when it runs, so a save may    *)
(* commit between two of them.  GetFeature and GetTask look ids up by name *)
(* and go on by id; GetWorkspace lists everything and puts it together by  *)
(* name.  GetFeature and GetWorkspace read the latest run last.            *)
(* (GetActiveSnapshot is GetWorkspace without the run; documents and       *)
(* activity are read like tasks, between them and the run.)                *)
(***************************************************************************)
EXTENDS FeatureRows

VARIABLE reader

readVars == <<rowVars, reader>>

\* id: the id of each feature found, 0 where there is none; task: the tasks
\* listed, or the one asked for; tid: its id (how many it has had).
\* History: always, the features and tasks asked for that have been there at
\* every moment of the read; at, the saves that had been committed when the
\* features' rows were read; news, a run has been recorded since then; renewed,
\* the tasks of `always' that a save has deleted and given anew, because two
\* directories declare one id.
Asked(n) == IF n = None THEN Names ELSE {n}

Reader(step, n) ==
  [step |-> step, name |-> n, id |-> [m \in Names |-> 0], task |-> {},
   tid |-> 0, at |-> 0, news |-> FALSE, renewed |-> {},
   always |-> [row |-> {m \in Asked(n) : db.row[m] # 0},
               task |-> {p \in Asked(n) \X Tasks :
                           db.task[p[1]][p[2]] # None}]]

Idle == [step |-> "idle"]

ReadInit == Init /\ reader = Idle

----------------------------------------------------------------------------
\* GetFeature: resolveFeature; an unknown name ends the read.
ResolveName(n) ==
  /\ reader.step = "idle"
  /\ db.row[n] # 0
  /\ reader' = [Reader("row", n) EXCEPT !.id[n] = db.row[n]]
  /\ UNCHANGED rowVars

Found(n) == db.row[n] = reader.id[n]

\* GetWorkspaceFeature, by id.
ReadRow ==
  /\ reader.step = "row"
  /\ Found(reader.name)
  /\ reader' = [reader EXCEPT !.step = "tasks", !.at = saves]
  /\ UNCHANGED rowVars

\* ... which is no longer there: not found.
MissRow ==
  /\ reader.step = "row"
  /\ ~Found(reader.name)
  /\ reader' = Idle
  /\ UNCHANGED rowVars

\* GetTask: resolveFeature; then resolveTask, which yields the task's id.
ResolveFeatureOf(n, t) ==
  /\ reader.step = "idle"
  /\ db.row[n] # 0
  /\ reader' = [Reader("resolve", n) EXCEPT !.id[n] = db.row[n],
                                           !.task = {<<n, t>>}]
  /\ UNCHANGED rowVars

There(p) ==
  Found(p[1]) /\ db.task[p[1]][p[2]] # None

ResolveTask ==
  /\ reader.step = "resolve"
  /\ \E p \in reader.task :
       /\ There(p)
       /\ reader' = [reader EXCEPT !.step = "task",
                                   !.tid = Len(db.event[p[1]][p[2]])]
  /\ UNCHANGED rowVars

\* GetWorkspaceTask, by id; the activity follows and cannot fail the read.
SameTask(p) == There(p) /\ Len(db.event[p[1]][p[2]]) = reader.tid

ReadTask ==
  /\ reader.step = "task"
  /\ \E p \in reader.task : SameTask(p)
  /\ reader' = Idle
  /\ UNCHANGED rowVars

\* ... not found, by its name or by its id.
MissTask ==
  /\ \/ reader.step = "resolve" /\ \A p \in reader.task : ~There(p)
     \/ reader.step = "task" /\ \A p \in reader.task : ~SameTask(p)
  /\ reader' = Idle
  /\ UNCHANGED rowVars

\* GetWorkspace: ListWorkspaceFeatures.
ListFeatures ==
  /\ reader.step = "idle"
  /\ reader' = [Reader("tasks", None) EXCEPT !.id = db.row, !.at = saves]
  /\ UNCHANGED rowVars

\* ListFeatureTasks by id, ListWorkspaceTasks.
ListTasks ==
  /\ reader.step = "tasks"
  /\ reader' = [reader EXCEPT
                  !.step = "run",
                  !.task = {p \in Asked(reader.name) \X Tasks :
                              /\ db.task[p[1]][p[2]] # None
                              /\ reader.name # None => Found(p[1])}]
  /\ UNCHANGED rowVars

\* GetLatestSyncRun, and the answer is given.
ReadRun ==
  /\ reader.step = "run"
  /\ reader' = Idle
  /\ UNCHANGED rowVars

\* The rows have been read and the run has not.
RowsRead == reader.step \in {"tasks", "run"}

\* History, at every other step.
Watch ==
  reader' = IF reader.step = "idle" THEN reader
            ELSE [reader EXCEPT
                    !.news = @ \/ (RowsRead /\ run' # run),
                    !.renewed = {p \in @ \cup reader.always.task :
                                   /\ db'.task[p[1]][p[2]] # None
                                   /\ p \in @ \/ SavedWithout(p[1], p[2])},
                    !.always.row = {n \in @ : db'.row[n] # 0},
                    !.always.task = {p \in @ : db'.task[p[1]][p[2]] # None}]

----------------------------------------------------------------------------
ReadNext ==
  \/ \E n \in Names : ResolveName(n)
  \/ \E n \in Names, t \in Tasks : ResolveFeatureOf(n, t)
  \/ ResolveTask \/ ReadTask \/ MissTask
  \/ ReadRow \/ MissRow \/ ListFeatures \/ ListTasks \/ ReadRun

Next ==
  \/ RowsNext /\ Watch
  \/ ReadNext

Spec == ReadInit /\ [][Next]_readVars

----------------------------------------------------------------------------
\* Safety.

Inv == RowsInv

\* A save may commit in the middle of a read, but the ids a read goes on by
\* stay good: what was there all the time is never left out of an answer.  A
\* task that is read by its id may be missed when it was given another one.
Whole ==
  /\ \A n \in reader.always.row : reader.id[n] # 0
  /\ reader.always.task \subseteq reader.task
NothingMissed ==
  [][/\ MissTask => reader.task \cap reader.always.task \subseteq reader.renewed
     /\ MissRow => reader.always.row = {}
     /\ ReadRun => Whole]_readVars

\* An answer that says the workspace was synced by a run whose save its rows do
\* not show yet is given only while that run is news: the run was recorded
\* since the rows were read, so whoever asks again is shown its rows.
OnlyNewLabelsOvertake ==
  [][ReadRun /\ run.ok /\ run.save > reader.at => reader.news]_readVars

=============================================================================
