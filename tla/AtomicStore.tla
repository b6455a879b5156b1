---------------------------- MODULE AtomicStore ----------------------------
(***************************************************************************)
(* What the snapshot store promises those who read its rows, whatever its  *)
(* transactions do inside.                                                 *)
(*                                                                         *)
(* A save of one feature, and a save of the whole workspace, replace the   *)
(* git part of the features they are about in one step, computed from the  *)
(* rows as they are at that step: the service's part is left alone.        *)
(* Features disappear in one way only, at the end of a save of the whole   *)
(* workspace, together with everything else that save does, and only if    *)
(* nobody owns them, whoever owns their tasks.  What appears while such a  *)
(* save is under way may be too late for it, and then it is spared.        *)
(***************************************************************************)
CONSTANTS
  Features,
  Tasks,
  Protected, \* feature statuses that git may not change once the row is go's
  None       \* no row

VARIABLES
  row,          \* the features' rows: at least an id, an owner and a status
  task,         \* the owner of each task, "none" without a row
  saving,       \* a save of the whole workspace is under way
  keep,         \* the features it was given
  lateFeatures, \* features that it will not remove: it has looked already
  lateTasks     \* tasks of each feature that it will not remove

vars == <<row, task, saving, keep, lateFeatures, lateTasks>>

Exists(f) == row[f] # None
Owned(f) == Exists(f) /\ row[f].owner = "go"
Unowned(f) == Exists(f) /\ row[f].owner = ""
Guarded(f) == Owned(f) /\ row[f].status \in Protected

Init ==
  /\ row = [f \in Features |-> None]
  /\ task = [f \in Features |-> [t \in Tasks |-> "none"]]
  /\ saving = FALSE
  /\ keep = {}
  /\ lateFeatures = {}
  /\ lateTasks = [f \in Features |-> {}]

----------------------------------------------------------------------------
\* What a step does to one feature.

Same(f) == row'[f] = row[f] /\ task'[f] = task[f]
OthersSame(f) == \A g \in Features \ {f} : Same(g)

\* A row is written from git: it keeps its id, its owner and, with the owner,
\* a protected status.
Written(f) ==
  /\ row'[f] # None
  /\ Exists(f) => row'[f].id = row[f].id
  /\ Owned(f) => row'[f].owner = "go"
  /\ Guarded(f) => row'[f].status = row[f].status

\* The tasks are those of the snapshot, those of the service and the late ones.
TasksReplaced(f, late) ==
  \E present \in SUBSET Tasks : \A t \in Tasks :
    task'[f][t] = IF task[f][t] = "go" THEN "go"
                  ELSE IF t \in present THEN ""
                  ELSE IF t \in late THEN task[f][t]
                  ELSE "none"

Replaced(f, late) == Written(f) /\ TasksReplaced(f, late)

Removed(f) == row'[f] = None /\ \A t \in Tasks : task'[f][t] = "none"

\* What has just appeared may be late for the save under way.
FeatureMayBeLate(f) ==
  /\ lateFeatures' \ {f} = lateFeatures \ {f}
  /\ f \in lateFeatures' \ lateFeatures => saving /\ ~Exists(f)

TaskMayBeLate(f, t) ==
  /\ \A g \in Features \ {f} : lateTasks'[g] = lateTasks[g]
  /\ lateTasks'[f] \ {t} = lateTasks[f] \ {t}
  /\ t \in lateTasks'[f] \ lateTasks[f] => saving /\ task[f][t] = "none"

----------------------------------------------------------------------------
Begin ==
  /\ ~saving
  /\ saving'
  /\ keep' \subseteq Features
  /\ UNCHANGED <<row, task, lateFeatures, lateTasks>>

End ==
  /\ saving
  /\ ~saving'
  /\ keep' = {}
  /\ lateFeatures' = {}
  /\ \A f \in Features : lateTasks'[f] = {}

\* Every feature of the snapshot is replaced or skipped, every other feature
\* that nobody owns removed.
SaveWorkspace ==
  /\ End
  /\ \A f \in keep : Replaced(f, lateTasks[f]) \/ Same(f)
  /\ \A f \in Features \ keep :
       IF Unowned(f) /\ f \notin lateFeatures THEN Removed(f) ELSE Same(f)

Abandon ==
  /\ End
  /\ UNCHANGED <<row, task>>

SaveFeature(f) ==
  /\ OthersSame(f)
  /\ Replaced(f, {})
  /\ FeatureMayBeLate(f)
  /\ UNCHANGED <<saving, keep, lateTasks>>

\* A task save makes sure of the feature's row, then writes the task's.
EnsureFeature(f) ==
  /\ OthersSame(f)
  /\ task'[f] = task[f]
  /\ Written(f)
  /\ FeatureMayBeLate(f)
  /\ UNCHANGED <<saving, keep, lateTasks>>

SaveTask(f, t) ==
  /\ Exists(f)
  /\ task' = [task EXCEPT ![f][t] = IF @ = "go" THEN "go" ELSE ""]
  /\ TaskMayBeLate(f, t)
  /\ UNCHANGED <<row, saving, keep, lateFeatures>>

\* The service takes a feature, moves its status on, takes a task.
Claim(f) ==
  /\ Exists(f)
  /\ row' = [row EXCEPT ![f].owner = "go"]
  /\ FeatureMayBeLate(f)
  /\ UNCHANGED <<task, saving, keep, lateTasks>>

Advance(f) ==
  /\ Owned(f)
  /\ \E st \in Protected : row' = [row EXCEPT ![f].status = st]
  /\ UNCHANGED <<task, saving, keep, lateFeatures, lateTasks>>

ClaimTask(f, t) ==
  /\ Exists(f)
  /\ task' = [task EXCEPT ![f][t] = "go"]
  /\ TaskMayBeLate(f, t)
  /\ UNCHANGED <<row, saving, keep, lateFeatures>>

----------------------------------------------------------------------------
Next ==
  \/ Begin \/ SaveWorkspace \/ Abandon
  \/ \E f \in Features :
       \/ SaveFeature(f) \/ EnsureFeature(f) \/ Claim(f) \/ Advance(f)
       \/ \E t \in Tasks : SaveTask(f, t) \/ ClaimTask(f, t)

Spec == Init /\ [][Next]_vars

=============================================================================
