------------------------ MODULE SnapshotReadsProofs ------------------------
(***************************************************************************)
(* What holds of the rows under every spec with readers, and what readers  *)
(* are given.                                                              *)
(*                                                                         *)
(* A reader goes on by the ids it has looked up.  A row keeps its id as    *)
(* long as it is there and so does a task, but for those a save renews, so *)
(* the ids of all that was there throughout the read are good (Follows).   *)
(* And since no save writes a run, the latest run is no later than the     *)
(* rows read until a run is recorded (NotOvertaken).                       *)
(***************************************************************************)
EXTENDS SnapshotReads, FeatureRowsProofs

\* A recorded save has been committed.
RunsFollow == run.save \in Nat /\ run.save <= saves

Pairs == Names \X Tasks

ReaderTypes ==
  [step : {"row", "resolve", "task", "tasks", "run"}, name : Names \cup {None},
   id : [Names -> Nat], task : SUBSET Pairs, tid : Nat, at : Nat,
   news : BOOLEAN, renewed : SUBSET Pairs,
   always : [row : SUBSET Names, task : SUBSET Pairs]]

ReaderShape == reader = Idle \/ (reader \in ReaderTypes /\ reader.at <= saves)

\* Until a run is recorded, the latest is no later than the rows read.
NotOvertaken ==
  RowsRead /\ ~reader.news /\ run.ok => run.save <= reader.at

\* What was there throughout is there under the id that was looked up.
Follows ==
  reader.step # "idle" =>
    /\ reader.step = "row" => reader.name \in Names
    /\ reader.always.row \subseteq Asked(reader.name)
    /\ \A n \in reader.always.row : reader.id[n] # 0 /\ Found(n)
    /\ \A p \in reader.always.task :
         p[1] \in reader.always.row /\ db.task[p[1]][p[2]] # None
    /\ reader.step = "run" => reader.always.task \subseteq reader.task
    /\ reader.step \in {"resolve", "task"} => \E p \in Pairs : reader.task = {p}
    /\ reader.step = "task" =>
         \A p \in reader.task \cap reader.always.task :
           Len(db.event[p[1]][p[2]]) = reader.tid \/ p \in reader.renewed

IInv == RowsIInv /\ RunsFollow /\ ReaderShape /\ NotOvertaken /\ Follows

LEMMA InitHolds == ReadInit => IInv
<1> SUFFICES ASSUME ReadInit PROVE IInv
  OBVIOUS
<1>1. RowsIInv
  BY RowsInitHolds DEF ReadInit
<1>2. saves = 0 /\ run.save = 0 /\ reader = Idle /\ reader.step = "idle"
  BY DEF ReadInit, Init, Idle
<1> QED
  BY <1>1, <1>2 DEF IInv, RunsFollow, ReaderShape, NotOvertaken, RowsRead, Follows

\* A successful run is recorded only with a save that was committed before.
LEMMA RunsKept ==
  ASSUME RowsIInv, RunsFollow, RowsNext
  PROVE  RunsFollow' /\ saves' \in Nat /\ saves <= saves'
<1>1. /\ saves \in Nat
      /\ full.save \in Nat /\ tgt.save \in Nat /\ tsk.save \in Nat
      /\ full.save <= saves /\ tgt.save <= saves /\ tsk.save <= saves
  BY Known DEF RowsIInv, SavesKnown
<1>2. saves' \in {saves, saves + 1}
  BY DEF RowsNext, PushDocuments, PushTask, Pushed, FetchFails, FetchFull,
         SaveFull, RecordFull, FailFull, FetchTarget, SaveTarget, RecordTarget,
         FailTarget, FetchTask, SaveTask, RecordTask, FailTask, Committed
<1>3. RunFailed => run' = run \/ run'.save = 0
  BY DEF RunFailed
<1>4. run' = run \/ run'.save \in {0, full.save, tgt.save, tsk.save}
  <2>1. CASE RecordFull \/ RecordTarget \/ RecordTask
    BY <2>1 DEF RecordFull, RecordTarget, RecordTask
  <2>2. CASE FetchFails \/ FailFull \/ FailTarget \/ FailTask
    BY <1>3, <2>2 DEF FetchFails, FailFull, FailTarget, FailTask
  <2>3. CASE ~(\/ RecordFull \/ RecordTarget \/ RecordTask
               \/ FetchFails \/ FailFull \/ FailTarget \/ FailTask)
    <3>1. run' = run
      BY <2>3 DEF RowsNext, PushDocuments, PushTask, Pushed, FetchFull, SaveFull,
                  FetchTarget, SaveTarget, FetchTask, SaveTask
    <3> QED
      BY <3>1
  <2> QED
    BY <2>1, <2>2, <2>3
<1> QED
  BY <1>1, <1>2, <1>4 DEF RunsFollow

----------------------------------------------------------------------------
\* A reader beside a step of the syncs.

LEMMA Watched ==
  ASSUME reader \in ReaderTypes, Watch
  PROVE  /\ reader' \in ReaderTypes
         /\ reader'.step = reader.step /\ reader'.name = reader.name
         /\ reader'.id = reader.id /\ reader'.task = reader.task
         /\ reader'.tid = reader.tid /\ reader'.at = reader.at
         /\ reader'.news = (reader.news \/ (RowsRead /\ run' # run))
         /\ reader'.renewed =
              {p \in reader.renewed \cup reader.always.task :
                 /\ db'.task[p[1]][p[2]] # None
                 /\ p \in reader.renewed \/ SavedWithout(p[1], p[2])}
         /\ reader'.always.row = {n \in reader.always.row : db'.row[n] # 0}
         /\ reader'.always.task =
              {p \in reader.always.task : db'.task[p[1]][p[2]] # None}
<1> DEFINE news == reader.news \/ (RowsRead /\ run' # run)
           renewed == {p \in reader.renewed \cup reader.always.task :
                         /\ db'.task[p[1]][p[2]] # None
                         /\ p \in reader.renewed \/ SavedWithout(p[1], p[2])}
           rows == {n \in reader.always.row : db'.row[n] # 0}
           tasks == {p \in reader.always.task : db'.task[p[1]][p[2]] # None}
<1>1. /\ reader.step # "idle" /\ reader.news \in BOOLEAN
      /\ reader.renewed \in SUBSET Pairs
      /\ reader.always.row \in SUBSET Names
      /\ reader.always.task \in SUBSET Pairs
  BY DEF ReaderTypes
<1>2. reader' = [reader EXCEPT !.news = news, !.renewed = renewed,
                               !.always.row = rows, !.always.task = tasks]
  BY <1>1 DEF Watch, ReaderTypes
<1>3. /\ news \in BOOLEAN /\ renewed \in SUBSET Pairs
      /\ rows \in SUBSET Names /\ tasks \in SUBSET Pairs
  BY <1>1
<1> HIDE DEF news, renewed, rows, tasks
<1>4. reader' = [step |-> reader.step, name |-> reader.name, id |-> reader.id,
                 task |-> reader.task, tid |-> reader.tid, at |-> reader.at,
                 news |-> news, renewed |-> renewed,
                 always |-> [row |-> rows, task |-> tasks]]
  BY <1>2 DEF ReaderTypes
<1>5. reader' \in ReaderTypes
  BY <1>3, <1>4 DEF ReaderTypes
<1> QED
  BY <1>4, <1>5 DEF news, renewed, rows, tasks

LEMMA FollowsKept ==
  ASSUME reader \in ReaderTypes, Follows, Watch, RowsIInv, RowsIInv',
         RowsKept, TasksKept
  PROVE  Follows'
<1>1. /\ reader' \in ReaderTypes
      /\ reader'.step = reader.step /\ reader'.name = reader.name
      /\ reader'.id = reader.id /\ reader'.task = reader.task
      /\ reader'.tid = reader.tid
      /\ reader'.always.row = {n \in reader.always.row : db'.row[n] # 0}
      /\ reader'.always.task =
           {p \in reader.always.task : db'.task[p[1]][p[2]] # None}
      /\ reader'.renewed =
           {p \in reader.renewed \cup reader.always.task :
              /\ db'.task[p[1]][p[2]] # None
              /\ p \in reader.renewed \/ SavedWithout(p[1], p[2])}
  BY Watched
<1>2. /\ reader.step # "idle"
      /\ reader.always.row \subseteq Names
      /\ reader.always.task \subseteq Pairs /\ reader.task \subseteq Pairs
  BY DEF ReaderTypes
<1>3. \A p \in Pairs : p[1] \in Names /\ p[2] \in Tasks
  BY DEF Pairs
<1>4. \A n \in Names : db'.row[n] = 0 => \A t \in Tasks : db'.task[n][t] = None
  BY DEF RowsIInv, RowsInv, IdsFit, IdsFitIn
<1>5. \A n \in reader'.always.row : reader'.id[n] # 0 /\ Found(n)'
  BY <1>1, <1>2 DEF Follows, Found, RowsKept, RowStays, Dropped
<1>6. \A p \in reader'.always.task :
        p[1] \in reader'.always.row /\ db'.task[p[1]][p[2]] # None
  BY <1>1, <1>2, <1>3, <1>4 DEF Follows
<1>7. reader.step = "task" =>
        \A p \in reader'.task \cap reader'.always.task :
          Len(db'.event[p[1]][p[2]]) = reader'.tid \/ p \in reader'.renewed
  <2> SUFFICES ASSUME reader.step = "task",
                      NEW p \in reader'.task \cap reader'.always.task,
                      p \notin reader'.renewed
               PROVE  Len(db'.event[p[1]][p[2]]) = reader'.tid
    OBVIOUS
  <2>1. /\ p \in reader.task \cap reader.always.task
        /\ p[1] \in Names /\ p[2] \in Tasks
        /\ db'.task[p[1]][p[2]] # None
        /\ p \notin reader.renewed /\ ~SavedWithout(p[1], p[2])
    BY <1>1, <1>2, <1>3
  <2>2. /\ Len(db.event[p[1]][p[2]]) = reader.tid
        /\ db.task[p[1]][p[2]] # None
    BY <1>2, <2>1 DEF Follows
  <2>3. TaskStays(db, db', p[1], p[2])
    BY <1>4, <2>1 DEF TasksKept, Dropped
  <2> QED
    BY <1>1, <2>2, <2>3 DEF TaskStays
<1> QED
  BY <1>1, <1>2, <1>5, <1>6, <1>7 DEF Follows, Asked

LEMMA WatchKeeps ==
  ASSUME IInv, RowsNext, Watch PROVE IInv'
<1>1. RowsIInv' /\ RunsFollow' /\ saves <= saves' /\ saves \in Nat /\ saves' \in Nat
  BY RowsStepHolds, RunsKept, Known DEF IInv
<1>2. CASE reader = Idle
  <2>1. reader' = Idle /\ reader'.step = "idle"
    BY <1>2 DEF Watch, Idle
  <2> QED
    BY <1>1, <2>1 DEF IInv, ReaderShape, NotOvertaken, RowsRead, Follows
<1>3. CASE reader \in ReaderTypes /\ reader.at <= saves
  <2>1. /\ reader' \in ReaderTypes
        /\ reader'.step = reader.step /\ reader'.at = reader.at
        /\ reader.at \in Nat
        /\ reader'.news = (reader.news \/ (RowsRead /\ run' # run))
    BY <1>3, Watched DEF ReaderTypes
  <2>2. ReaderShape'
    BY <1>1, <1>3, <2>1 DEF ReaderShape
  <2>3. NotOvertaken'
    BY <2>1 DEF IInv, NotOvertaken, RowsRead
  <2>4. Follows'
    BY <1>1, <1>3, FollowsKept, RowsStepKept DEF IInv
  <2> QED
    BY <1>1, <2>2, <2>3, <2>4 DEF IInv
<1> QED
  BY <1>2, <1>3 DEF IInv, ReaderShape

----------------------------------------------------------------------------
\* The reader's own steps.

\* The syncs' part of the invariant is about their variables only.
LEMMA RowsStand ==
  ASSUME RowsIInv, UNCHANGED rowVars PROVE RowsIInv'
<1>1. UNCHANGED <<tree, head, db, saves, run, full, tgt, tsk, syncs>>
  BY DEF rowVars
<1>2. TypeOK'
  BY <1>1 DEF RowsIInv, RowsInv, TypeOK
<1>3. (LogShown /\ IdsFit)'
  BY <1>1 DEF RowsIInv, RowsInv, LogShown, IdsFit, LogsShownIn, IdsFitIn
<1>4. (AttemptsCounted /\ SavesKnown /\ FullFollows /\ SavedIsRecorded)'
  BY <1>1 DEF RowsIInv, AttemptsCounted, Pending, SavesKnown, FullFollows,
              SavedIsRecorded
<1> QED
  BY <1>2, <1>3, <1>4 DEF RowsIInv, RowsInv

\* A reader that has read no rows yet.
LEMMA Fresh ==
  ASSUME RowsIInv, NEW n \in Names \cup {None},
         NEW s \in {"row", "resolve", "task", "tasks", "run"}
  PROVE  LET r == Reader(s, n)
         IN  /\ r \in ReaderTypes
             /\ r.step = s /\ r.name = n /\ r.at = 0
             /\ r.always.row = {m \in Asked(n) : db.row[m] # 0}
             /\ \A p \in r.always.task :
                  p[1] \in r.always.row /\ db.task[p[1]][p[2]] # None
<1> DEFINE r == Reader(s, n)
           rows == {m \in Asked(n) : db.row[m] # 0}
           tasks == {p \in Asked(n) \X Tasks : db.task[p[1]][p[2]] # None}
<1>1. Asked(n) \subseteq Names
  BY DEF Asked
<1>2. rows \in SUBSET Names /\ tasks \in SUBSET Pairs
  BY <1>1 DEF Pairs
<1>3. \A p \in tasks : p[1] \in rows /\ db.task[p[1]][p[2]] # None
  <2>1. \A p \in tasks : p[1] \in Asked(n) /\ p[2] \in Tasks
    OBVIOUS
  <2>2. \A m \in Names : db.row[m] = 0 => \A t \in Tasks : db.task[m][t] = None
    BY DEF RowsIInv, RowsInv, IdsFit, IdsFitIn
  <2> QED
    BY <1>1, <2>1, <2>2
<1>4. r = [step |-> s, name |-> n, id |-> [m \in Names |-> 0], task |-> {},
           tid |-> 0, at |-> 0, news |-> FALSE, renewed |-> {},
           always |-> [row |-> rows, task |-> tasks]]
  BY DEF Reader
<1> HIDE DEF r, rows, tasks
<1>5. r \in ReaderTypes
  BY <1>2, <1>4 DEF ReaderTypes
<1> QED
  BY <1>3, <1>4, <1>5 DEF r, rows

LEMMA ReadKeeps ==
  ASSUME IInv, ReadNext PROVE IInv'
<1>0. UNCHANGED rowVars
  BY DEF ReadNext, ResolveName, ReadRow, MissRow, ResolveFeatureOf, ResolveTask,
         ReadTask, MissTask, ListFeatures, ListTasks, ReadRun
<1>1. RowsIInv' /\ RunsFollow' /\ UNCHANGED <<db, saves, run>>
  BY <1>0, RowsStand DEF IInv, RunsFollow, rowVars
<1>2. /\ saves \in Nat /\ db.row \in [Names -> Nat]
      /\ db.event \in [Names -> [Tasks -> Seq(Events)]]
  BY Known, TablesType DEF IInv, RowsFit
<1>r. run.save \in Nat /\ run.save <= saves
  BY DEF IInv, RunsFollow
<1>i. ASSUME reader' = Idle PROVE IInv'
  <2>1. reader'.step = "idle"
    BY <1>i DEF Idle
  <2> QED
    BY <1>1, <1>i, <2>1 DEF IInv, ReaderShape, NotOvertaken, RowsRead, Follows
<1>3. ASSUME NEW n \in Names, ResolveName(n) PROVE IInv'
  <2> DEFINE r == Reader("row", n)
             ids == [r.id EXCEPT ![n] = db.row[n]]
  <2>1. reader' = [r EXCEPT !.id = ids]
    BY <1>3 DEF ResolveName
  <2>2. /\ r \in ReaderTypes
        /\ r.step = "row" /\ r.name = n /\ r.at = 0
        /\ r.always.row = {m \in Asked(n) : db.row[m] # 0}
        /\ \A p \in r.always.task :
             p[1] \in r.always.row /\ db.task[p[1]][p[2]] # None
    BY Fresh DEF IInv
  <2>3. n # None /\ Asked(n) = {n}
    BY NoneAssumption DEF Asked
  <2> HIDE DEF r
  <2>4. ids \in [Names -> Nat] /\ ids[n] = db.row[n]
    BY <1>2, <2>2 DEF ReaderTypes
  <2> HIDE DEF ids
  <2>5. /\ reader' \in ReaderTypes
        /\ reader'.step = "row" /\ reader'.name = n /\ reader'.at = 0
        /\ reader'.always = r.always /\ reader'.id = ids
    BY <2>1, <2>2, <2>4 DEF ReaderTypes
  <2>6. ReaderShape' /\ NotOvertaken'
    BY <1>1, <1>2, <2>5 DEF ReaderShape, NotOvertaken, RowsRead
  <2>7. Follows'
    BY <1>1, <2>2, <2>3, <2>4, <2>5 DEF Follows, Found
  <2> QED
    BY <1>1, <2>6, <2>7 DEF IInv
<1>4. ASSUME NEW n \in Names, NEW t \in Tasks, ResolveFeatureOf(n, t) PROVE IInv'
  <2> DEFINE r == Reader("resolve", n)
             ids == [r.id EXCEPT ![n] = db.row[n]]
  <2>1. reader' = [r EXCEPT !.id = ids, !.task = {<<n, t>>}]
    BY <1>4 DEF ResolveFeatureOf
  <2>2. /\ r \in ReaderTypes
        /\ r.step = "resolve" /\ r.name = n /\ r.at = 0
        /\ r.always.row = {m \in Asked(n) : db.row[m] # 0}
        /\ \A p \in r.always.task :
             p[1] \in r.always.row /\ db.task[p[1]][p[2]] # None
    BY Fresh DEF IInv
  <2>3. n # None /\ Asked(n) = {n} /\ <<n, t>> \in Pairs
    BY NoneAssumption DEF Asked, Pairs
  <2> HIDE DEF r
  <2>4. ids \in [Names -> Nat] /\ ids[n] = db.row[n]
    BY <1>2, <2>2 DEF ReaderTypes
  <2> HIDE DEF ids
  <2>5. /\ reader' \in ReaderTypes
        /\ reader'.step = "resolve" /\ reader'.name = n /\ reader'.at = 0
        /\ reader'.always = r.always /\ reader'.id = ids
        /\ reader'.task = {<<n, t>>}
    BY <2>1, <2>2, <2>3, <2>4 DEF ReaderTypes
  <2>6. ReaderShape' /\ NotOvertaken'
    BY <1>1, <1>2, <2>5 DEF ReaderShape, NotOvertaken, RowsRead
  <2>7. Follows'
    BY <1>1, <2>2, <2>3, <2>4, <2>5 DEF Follows, Found
  <2> QED
    BY <1>1, <2>6, <2>7 DEF IInv
<1>5. CASE ListFeatures
  <2> DEFINE r == Reader("tasks", None)
  <2>1. reader' = [r EXCEPT !.id = db.row, !.at = saves]
    BY <1>5 DEF ListFeatures
  <2>2. /\ r \in ReaderTypes
        /\ r.step = "tasks" /\ r.name = None
        /\ r.always.row = {m \in Asked(None) : db.row[m] # 0}
        /\ \A p \in r.always.task :
             p[1] \in r.always.row /\ db.task[p[1]][p[2]] # None
    BY Fresh DEF IInv
  <2>3. Asked(None) = Names
    BY DEF Asked
  <2> HIDE DEF r
  <2>4. /\ reader' \in ReaderTypes
        /\ reader'.step = "tasks" /\ reader'.name = None /\ reader'.at = saves
        /\ reader'.always = r.always /\ reader'.id = db.row
    BY <1>2, <2>1, <2>2 DEF ReaderTypes
  <2>5. ReaderShape' /\ NotOvertaken'
    BY <1>1, <1>2, <1>r, <2>4 DEF ReaderShape, NotOvertaken
  <2>6. Follows'
    BY <1>1, <2>2, <2>3, <2>4 DEF Follows, Found
  <2> QED
    BY <1>1, <2>5, <2>6 DEF IInv
<1>6. CASE ReadRow
  <2>1. /\ reader.step = "row" /\ reader.step # "idle"
        /\ reader' = [reader EXCEPT !.step = "tasks", !.at = saves]
        /\ reader \in ReaderTypes
    BY <1>6 DEF ReadRow, IInv, ReaderShape, Idle
  <2>2. /\ reader' \in ReaderTypes
        /\ reader'.step = "tasks" /\ reader'.at = saves
        /\ reader'.name = reader.name /\ reader'.always = reader.always
        /\ reader'.id = reader.id
    BY <1>2, <2>1 DEF ReaderTypes
  <2>3. ReaderShape' /\ NotOvertaken'
    BY <1>1, <1>2, <1>r, <2>2 DEF ReaderShape, NotOvertaken
  <2>4. Follows'
    BY <1>1, <2>1, <2>2 DEF IInv, Follows, Found, Asked
  <2> QED
    BY <1>1, <2>3, <2>4 DEF IInv
<1>7. CASE ResolveTask
  <2>1. PICK p \in reader.task :
          /\ There(p)
          /\ reader' = [reader EXCEPT !.step = "task",
                                      !.tid = Len(db.event[p[1]][p[2]])]
    BY <1>7 DEF ResolveTask
  <2>2. reader.step = "resolve" /\ reader.step # "idle" /\ reader \in ReaderTypes
    BY <1>7 DEF ResolveTask, IInv, ReaderShape, Idle
  <2>3. PICK q \in Pairs : reader.task = {q}
    BY <2>2 DEF IInv, Follows
  <2>4. q = p /\ p[1] \in Names /\ p[2] \in Tasks
    BY <2>1, <2>3 DEF Pairs
  <2>5. Len(db.event[p[1]][p[2]]) \in Nat
    <3>1. db.event[p[1]][p[2]] \in Seq(Events)
      BY <1>2, <2>4
    <3> QED
      BY <3>1, LenProperties
  <2>6. /\ reader' \in ReaderTypes
        /\ reader'.step = "task" /\ reader'.at = reader.at
        /\ reader'.name = reader.name /\ reader'.always = reader.always
        /\ reader'.id = reader.id /\ reader'.task = reader.task
        /\ reader'.tid = Len(db.event[p[1]][p[2]])
    BY <2>1, <2>2, <2>5 DEF ReaderTypes
  <2>7. ReaderShape' /\ NotOvertaken'
    BY <1>1, <2>2, <2>6 DEF IInv, ReaderShape, NotOvertaken, RowsRead, Idle
  <2>8. Follows'
    BY <1>1, <2>2, <2>3, <2>4, <2>6 DEF IInv, Follows, Found, Asked
  <2> QED
    BY <1>1, <2>7, <2>8 DEF IInv
<1>8. CASE ListTasks
  <2> DEFINE listed == {p \in Asked(reader.name) \X Tasks :
                          /\ db.task[p[1]][p[2]] # None
                          /\ reader.name # None => Found(p[1])}
  <2>1. /\ reader.step = "tasks" /\ reader.step # "idle"
        /\ reader' = [reader EXCEPT !.step = "run", !.task = listed]
        /\ reader \in ReaderTypes
    BY <1>8 DEF ListTasks, IInv, ReaderShape, Idle
  <2>2. Asked(reader.name) \subseteq Names /\ listed \in SUBSET Pairs
    BY <2>1 DEF Asked, ReaderTypes, Pairs
  <2>3. reader.always.task \subseteq listed
    <3> SUFFICES ASSUME NEW p \in reader.always.task PROVE p \in listed
      OBVIOUS
    <3>1. p \in Pairs
      BY <2>1 DEF ReaderTypes
    <3>2. /\ p[1] \in Asked(reader.name) /\ Found(p[1])
          /\ db.task[p[1]][p[2]] # None
      BY <2>1 DEF IInv, Follows
    <3> QED
      BY <3>1, <3>2 DEF Pairs
  <2> HIDE DEF listed
  <2>4. /\ reader' \in ReaderTypes
        /\ reader'.step = "run" /\ reader'.at = reader.at
        /\ reader'.name = reader.name /\ reader'.always = reader.always
        /\ reader'.id = reader.id /\ reader'.task = listed
        /\ reader'.news = reader.news
    BY <2>1, <2>2 DEF ReaderTypes
  <2>5. ReaderShape' /\ NotOvertaken'
    BY <1>1, <2>1, <2>4 DEF IInv, ReaderShape, NotOvertaken, RowsRead, Idle
  <2>6. Follows'
    BY <1>1, <2>1, <2>3, <2>4 DEF IInv, Follows, Found, Asked
  <2> QED
    BY <1>1, <2>5, <2>6 DEF IInv
<1>9. CASE MissRow \/ ReadRun \/ ReadTask \/ MissTask
  BY <1>i, <1>9 DEF MissRow, ReadRun, ReadTask, MissTask
<1> QED
  BY <1>3, <1>4, <1>5, <1>6, <1>7, <1>8, <1>9 DEF ReadNext

LEMMA StepHolds == IInv /\ [Next]_readVars => IInv'
<1> SUFFICES ASSUME IInv, [Next]_readVars PROVE IInv'
  OBVIOUS
<1>1. CASE RowsNext /\ Watch
  BY <1>1, WatchKeeps
<1>2. CASE ReadNext
  BY <1>2, ReadKeeps
<1>3. CASE UNCHANGED readVars
  <2>1. RowsIInv' /\ UNCHANGED <<db, saves, run, reader>>
    BY <1>3, RowsStand DEF readVars, rowVars, IInv
  <2> QED
    BY <2>1 DEF IInv, RunsFollow, ReaderShape, NotOvertaken, RowsRead, Follows,
                Found
<1> QED
  BY <1>1, <1>2, <1>3 DEF Next

LEMMA Invariant == Spec => []IInv
  BY InitHolds, StepHolds, PTL DEF Spec

----------------------------------------------------------------------------
\* Theorems.

\* The rows stay what they should be: a task has a feature, no id is used twice,
\* and the activity kept for a task begins with the log last saved for it.
THEOREM InvHolds == Spec => []Inv
<1>1. IInv => Inv
  BY DEF IInv, RowsIInv, Inv
<1> QED
  BY <1>1, Invariant, PTL

\* A targeted or task sync that has saved finds the rows it has to record its
\* run about, unless another save came in between or the id is another.
THEOREM RecordHolds == Spec => []SavedIsRecorded
<1>1. IInv => SavedIsRecorded
  BY DEF IInv, RowsIInv
<1> QED
  BY <1>1, Invariant, PTL

\* No save takes a row or a task, or gives it another id, but for a reason in
\* the repository.
THEOREM RemovalsHold == Spec => OnlyKnownRemovals
<1> DEFINE A == \A n \in Names :
                  /\ db.row[n] # 0 => db'.row[n] = db.row[n] \/ GoneFromGit(n)
                  /\ \A t \in Tasks :
                       db.task[n][t] # None =>
                         \/ /\ db'.task[n][t] # None
                            /\ Len(db'.event[n][t]) = Len(db.event[n][t])
                         \/ GoneFromGit(n)
                         \/ SavedWithout(n, t)
<1>1. IInv /\ [Next]_readVars => [A]_rowVars
  <2> SUFFICES ASSUME IInv, [Next]_readVars, ~UNCHANGED rowVars PROVE A
    OBVIOUS
  <2>1. RowsNext
    BY DEF Next, readVars, ReadNext, ResolveName, ReadRow, MissRow,
           ResolveFeatureOf, ResolveTask, ReadTask, MissTask, ListFeatures,
           ListTasks, ReadRun
  <2>2. RowsKept /\ TasksKept
    BY <2>1, RowsStepKept DEF IInv
  <2> QED
    BY <2>2, StepRemoves
<1> HIDE DEF A
<1>2. Spec => [][A]_rowVars
  BY <1>1, Invariant, PTL DEF Spec
<1> QED
  BY <1>2 DEF OnlyKnownRemovals, A

\* A reader is never told that what was there throughout its read is not, nor
\* given an answer without it, but for a task that a save renews.
THEOREM ReadsHold == Spec => NothingMissed
<1> DEFINE A == /\ MissTask => reader.task \cap reader.always.task
                                 \subseteq reader.renewed
                /\ MissRow => reader.always.row = {}
                /\ ReadRun => Whole
<1>1. IInv => A
  <2> SUFFICES ASSUME IInv PROVE A
    OBVIOUS
  <2>1. ASSUME reader.step # "idle"
        PROVE  \A p \in reader.always.task : There(p)
    BY <2>1 DEF IInv, Follows, There
  <2>2. ASSUME MissTask
        PROVE  reader.task \cap reader.always.task \subseteq reader.renewed
    <3>1. reader.step # "idle"
      BY <2>2 DEF MissTask
    <3> QED
      BY <2>1, <2>2, <3>1 DEF MissTask, SameTask, IInv, Follows
  <2>3. ASSUME MissRow PROVE reader.always.row = {}
    <3>1. reader.step = "row" /\ ~Found(reader.name) /\ reader.name \in Names
      BY <2>3 DEF MissRow, IInv, Follows
    <3>2. Asked(reader.name) = {reader.name}
      BY <3>1, NoneAssumption DEF Asked
    <3> QED
      BY <3>1, <3>2 DEF IInv, Follows
  <2>4. ASSUME ReadRun PROVE Whole
    BY <2>4 DEF ReadRun, Whole, IInv, Follows
  <2> QED
    BY <2>2, <2>3, <2>4
<1>2. IInv /\ [Next]_readVars => [A]_readVars
  BY <1>1
<1> HIDE DEF A
<1>3. Spec => [][A]_readVars
  BY <1>2, Invariant, PTL DEF Spec
<1> QED
  BY <1>3 DEF NothingMissed, A

\* An answer of GetWorkspace or GetFeature is labelled with a run later than its
\* rows only when that run was recorded after the rows were read.
THEOREM LabelsHold == Spec => OnlyNewLabelsOvertake
<1>1. IInv /\ [Next]_readVars
      => [ReadRun /\ run.ok /\ run.save > reader.at => reader.news]_readVars
  <2> SUFFICES ASSUME IInv, ReadRun, run.ok, run.save > reader.at, ~reader.news
               PROVE FALSE
    OBVIOUS
  <2>1. reader.step = "run" /\ reader \in ReaderTypes
    BY DEF ReadRun, IInv, ReaderShape, Idle
  <2>2. run.save <= reader.at /\ run.save \in Nat /\ reader.at \in Nat
    BY <2>1 DEF IInv, NotOvertaken, RowsRead, ReaderTypes, RunsFollow
  <2> QED
    BY <2>2
<1> QED
  BY <1>1, Invariant, PTL DEF Spec, OnlyNewLabelsOvertake

=============================================================================
