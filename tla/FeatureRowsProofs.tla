------------------------- MODULE FeatureRowsProofs -------------------------
(***************************************************************************)
(* What the saves do to the rows, and that RowsInv is kept by every step.  *)
(*                                                                         *)
(* A full save goes through the features one by one, by a recursive        *)
(* function (Stages), so what it does is shown by induction over the tree. *)
(* The induction is over a set of numbers (Counting), which needs only     *)
(* that every set of naturals has a least element.                         *)
(***************************************************************************)
EXTENDS FeatureRows, SequenceTheorems, WellFoundedInduction, TLAPS

----------------------------------------------------------------------------
\* Induction.

\* A set of naturals has a least element.
LEMMA Least ==
  ASSUME NEW T \in SUBSET Nat, T # {}
  PROVE  \E m \in T : \A n \in T : m <= n
<1>1. PICK m \in T : \A n \in T : <<n, m>> \notin OpToRel(<, Nat)
  BY WFMin, NatLessThanWellFounded, Zenon
<1>2. \A n \in T : ~(n < m)
  BY <1>1, Zenon DEF OpToRel
<1> QED
  BY <1>2

\* A set that holds 0, and with each number below k the next, holds all up to k.
LEMMA Counting ==
  ASSUME NEW k \in Nat, NEW S, 0 \in S,
         \A i \in 0..(k - 1) : i \in S => i + 1 \in S
  PROVE  0..k \subseteq S
<1> DEFINE T == (0..k) \ S
<1> SUFFICES ASSUME T # {} PROVE FALSE
  OBVIOUS
<1>1. PICK m \in T : \A n \in T : m <= n
  <2>1. T \in SUBSET Nat
    OBVIOUS
  <2> HIDE DEF T
  <2> QED
    BY <2>1, Least
<1>2. m # 0 /\ m \in 0..k /\ m \notin S
  OBVIOUS
<1>3. m - 1 \in 0..(k - 1) /\ m - 1 \notin T
  BY <1>1, <1>2
<1> QED
  BY <1>2, <1>3

----------------------------------------------------------------------------
\* Logs.

\* What is kept of a task's activity is a log that begins with the one saved.
LEMMA LoggedBegins ==
  ASSUME NEW old \in Logs, NEW log \in Logs
  PROVE  /\ Logged(old, log) \in Logs
         /\ IsPrefix(log, Logged(old, log))
<1> DEFINE k == Longer(Len(old), Len(log))
           new == Logged(old, log)
<1>1. /\ k \in Nat /\ Len(old) <= k /\ Len(log) <= k /\ Len(log) \in Nat
      /\ k = Len(old) \/ k = Len(log)
  BY DEF Longer, Logs
<1>2. /\ DOMAIN new = 1..k
      /\ \A i \in 1..k : new[i] = IF i <= Len(log) THEN log[i] ELSE old[i]
  BY DEF Logged
<1>3. \A i \in 1..k : (IF i <= Len(log) THEN log[i] ELSE old[i]) \in Nat
  BY <1>1, ElementOfSeq DEF Logs
<1>4. new \in [1..k -> Nat]
  BY <1>3 DEF Logged
<1> HIDE DEF new, k
<1>5. new \in Seq(Nat) /\ Len(new) = k
  BY <1>1, <1>4, <1>2, LenProperties
<1>6. SubSeq(log, 1, Len(log)) = SubSeq(new, 1, Len(log))
  <2> DEFINE a == SubSeq(log, 1, Len(log))
             b == SubSeq(new, 1, Len(log))
  <2>0. \A i \in 1..Len(log) : i \in 1..k /\ i <= Len(log)
    BY <1>1
  <2>1. /\ \A i \in 1..Len(log) : new[i] = log[i]
        /\ \A i \in 1..Len(log) : log[i] \in Nat
        /\ \A i \in 1..Len(log) : new[i] \in Nat
    <3>1. \A i \in 1..Len(log) : new[i] = log[i]
      BY <1>2, <2>0
    <3>2. \A i \in 1..Len(log) : log[i] \in Nat
      BY ElementOfSeq DEF Logs
    <3> QED
      BY <3>1, <3>2
  <2>2. /\ a \in Seq(Nat) /\ b \in Seq(Nat) /\ Len(a) = Len(b)
        /\ \A i \in 1..(Len(log) - 1 + 1) : a[i] = log[1 + i - 1]
        /\ \A i \in 1..(Len(log) - 1 + 1) : b[i] = new[1 + i - 1]
        /\ Len(a) = Len(log)
    BY <1>1, <2>1, SubSeqProperties
  <2> HIDE DEF a, b
  <2>3. \A i \in 1..Len(a) : a[i] = b[i]
    BY <1>1, <2>1, <2>2
  <2>4. a = b
    BY <2>2, <2>3, SeqEqual
  <2> QED
    BY <2>4 DEF a, b
<1> QED
  BY <1>1, <1>5, <1>6 DEF IsPrefix, Logs, new

LEMMA LogBegins ==
  ASSUME NEW log \in Logs
  PROVE  IsPrefix(log, log)
  BY DEF IsPrefix, Logs

----------------------------------------------------------------------------
\* Saves of one feature or task.

RowsFit(x) == x \in Tables /\ LogsShownIn(x) /\ IdsFitIn(x)

\* From x to y a row that stays has its id, and the task t of n its own.
RowStays(x, y, n) == x.row[n] # 0 => y.row[n] = x.row[n]
TaskStays(x, y, n, t) ==
  x.task[n][t] # None => /\ y.task[n][t] # None
                         /\ Len(y.event[n][t]) = Len(x.event[n][t])

LEMMA TablesType ==
  ASSUME NEW x \in Tables
  PROVE  /\ DOMAIN x = {"row", "ids", "task", "event"}
         /\ x = [row |-> x.row, ids |-> x.ids, task |-> x.task, event |-> x.event]
         /\ x.row \in [Names -> Nat] /\ x.ids \in [Names -> Nat]
         /\ x.task \in [Names -> [Tasks -> Logs \cup {None}]]
         /\ x.event \in [Names -> [Tasks -> Seq(Events)]]
  BY DEF Tables

\* The row is there afterwards, under the id it had or a new one.
LEMMA WithRowFits ==
  ASSUME NEW x, RowsFit(x), NEW n \in Names
  PROVE  LET y == WithRow(x, n)
         IN  /\ RowsFit(y)
             /\ y.row[n] # 0
             /\ y.task = x.task /\ y.event = x.event
             /\ \A m \in Names : RowStays(x, y, m)
<1> DEFINE y == WithRow(x, n)
<1>1. x \in Tables
  BY DEF RowsFit
<1>2. CASE x.row[n] # 0
  BY <1>2 DEF WithRow, RowStays
<1>3. CASE x.row[n] = 0
  <2>1. y = [x EXCEPT !.row = [x.row EXCEPT ![n] = x.ids[n] + 1],
                      !.ids = [x.ids EXCEPT ![n] = x.ids[n] + 1]]
    BY <1>1, <1>3, TablesType DEF WithRow
  <2> HIDE DEF y
  <2> DEFINE rows == [x.row EXCEPT ![n] = x.ids[n] + 1]
             used == [x.ids EXCEPT ![n] = x.ids[n] + 1]
  <2>2. rows \in [Names -> Nat] /\ used \in [Names -> Nat]
    BY <1>1, TablesType
  <2>3. y = [row |-> rows, ids |-> used, task |-> x.task, event |-> x.event]
    <3> HIDE DEF rows, used
    <3>1. y = [x EXCEPT !.row = rows, !.ids = used]
      BY <2>1 DEF rows, used
    <3> QED
      BY <3>1, <1>1 DEF Tables
  <2>4. /\ y.row = rows /\ y.ids = used
        /\ y.task = x.task /\ y.event = x.event
        /\ y \in Tables
    <3> HIDE DEF rows, used
    <3> QED
      BY <2>2, <2>3, <1>1, TablesType DEF Tables
  <2>5. y.row[n] # 0 /\ \A m \in Names : RowStays(x, y, m)
    BY <1>1, <1>3, <2>4, TablesType DEF RowStays
  <2>6. IdsFitIn(y)
    BY <1>1, <2>4, <2>5, TablesType DEF RowsFit, IdsFitIn
  <2>7. LogsShownIn(y)
    BY <1>1, <1>3, <2>4, TablesType DEF RowsFit, IdsFitIn, LogsShownIn
  <2> QED
    BY <2>4, <2>5, <2>6, <2>7 DEF RowsFit, y
<1> QED
  BY <1>2, <1>3

\* The activity of a task that is saved begins with the log it is saved with,
\* and goes on under its id if it has one.
LEMMA TaskEventsFit ==
  ASSUME NEW x, RowsFit(x), NEW n \in Names, NEW t \in Tasks, NEW log \in Logs
  PROVE  LET e == TaskEvents(x, n, t, log)
         IN  /\ e \in Seq(Events) /\ e # <<>>
             /\ IsPrefix(log, Last(e).log)
             /\ Last(e).feature = x.row[n]
             /\ x.task[n][t] # None => Len(e) = Len(x.event[n][t])
<1> DEFINE e == x.event[n][t]
           f == TaskEvents(x, n, t, log)
<1>1. x \in Tables /\ e \in Seq(Events) /\ x.row[n] \in Nat
  BY TablesType DEF RowsFit
<1>2. CASE x.task[n][t] = None
  <2> DEFINE new == [feature |-> x.row[n], log |-> log]
  <2>1. f = Append(e, new) /\ new \in Events
    BY <1>1, <1>2 DEF TaskEvents, Events
  <2>2. new.log = log /\ new.feature = x.row[n]
    OBVIOUS
  <2> HIDE DEF e, f, new
  <2>3. f \in Seq(Events) /\ Len(f) = Len(e) + 1 /\ f[Len(e) + 1] = new
    BY <1>1, <2>1, AppendProperties
  <2>4. f # <<>> /\ Last(f) = new
    BY <1>1, <2>3 DEF Last
  <2> QED
    BY <1>2, <2>2, <2>3, <2>4, LogBegins DEF f
<1>3. CASE x.task[n][t] # None
  <2>1. e # <<>> /\ Last(e).feature = x.row[n]
    BY <1>3 DEF RowsFit, LogsShownIn
  <2>2. Len(e) \in 1..Len(e) /\ Last(e) = e[Len(e)] /\ Last(e) \in Events
    BY <1>1, <2>1, ElementOfSeq, EmptySeq DEF Last
  <2> DEFINE new == [Last(e) EXCEPT !.log = Logged(Last(e).log, log)]
  <2>3. f = [e EXCEPT ![Len(e)] = new]
    BY <1>1, <1>3, <2>2 DEF TaskEvents
  <2>4. /\ Last(e).log \in Logs
        /\ new.log = Logged(Last(e).log, log)
        /\ new.feature = x.row[n]
    BY <2>1, <2>2 DEF Events
  <2>5. new.log \in Logs /\ IsPrefix(log, new.log)
    BY <2>4, LoggedBegins
  <2>6. new \in Events
    BY <2>2, <2>5, <2>4 DEF Events
  <2> HIDE DEF e, f, new
  <2>7. f \in Seq(Events) /\ Len(f) = Len(e) /\ f[Len(e)] = new
    BY <1>1, <2>2, <2>3, <2>6, ExceptSeq
  <2>8. f # <<>> /\ Last(f) = new
    BY <2>2, <2>7 DEF Last
  <2> QED
    BY <2>4, <2>5, <2>7, <2>8 DEF f, e
<1> QED
  BY <1>2, <1>3

\* A record of tables is known by its four tables.
LEMMA TablesEqual ==
  ASSUME NEW a, NEW b, NEW c, NEW d,
         a \in [Names -> Nat], b \in [Names -> Nat],
         c \in [Names -> [Tasks -> Logs \cup {None}]],
         d \in [Names -> [Tasks -> Seq(Events)]]
  PROVE  [row |-> a, ids |-> b, task |-> c, event |-> d] \in Tables
  BY DEF Tables

\* A feature that is saved has a row, and no other task loses its id than one
\* that the snapshot does not hold.
LEMMA WithFeatureFits ==
  ASSUME NEW x, RowsFit(x), NEW s \in Snapshots
  PROVE  LET z == WithFeature(x, s)
         IN  /\ RowsFit(z)
             /\ z.row[s.name] # 0
             /\ \A m \in Names : RowStays(x, z, m)
             /\ \A m \in Names, t \in Tasks :
                  TaskStays(x, z, m, t) \/ (s.name = m /\ s.log[t] = None)
<1> DEFINE n == s.name
           y == WithRow(x, n)
           z == WithFeature(x, s)
           new == [t \in Tasks |-> IF s.log[t] = None THEN y.event[n][t]
                                   ELSE TaskEvents(y, n, t, s.log[t])]
           tasks == [y.task EXCEPT ![n] = s.log]
           events == [y.event EXCEPT ![n] = new]
<1>1. n \in Names /\ s.log \in [Tasks -> Logs \cup {None}]
  BY DEF Snapshots, Files
<1>2. /\ RowsFit(y) /\ y.row[n] # 0
      /\ y.task = x.task /\ y.event = x.event
      /\ \A m \in Names : RowStays(x, y, m)
  BY <1>1, WithRowFits
<1>3. z = [y EXCEPT !.task[n] = s.log,
                    !.event[n] = [t \in Tasks |->
                       IF s.log[t] = None THEN @[t]
                       ELSE TaskEvents(y, n, t, s.log[t])]]
  BY DEF WithFeature
<1> HIDE DEF n, y, z
<1>4. /\ y \in Tables /\ y.row \in [Names -> Nat] /\ y.ids \in [Names -> Nat]
      /\ y.task \in [Names -> [Tasks -> Logs \cup {None}]]
      /\ y.event \in [Names -> [Tasks -> Seq(Events)]]
  BY <1>2, TablesType DEF RowsFit
<1>5. z = [row |-> y.row, ids |-> y.ids, task |-> tasks, event |-> events]
  BY <1>3, <1>4, <1>1 DEF Tables
<1>6. \A t \in Tasks : s.log[t] # None =>
        LET e == TaskEvents(y, n, t, s.log[t])
        IN  /\ s.log[t] \in Logs
            /\ e \in Seq(Events) /\ e # <<>>
            /\ IsPrefix(s.log[t], Last(e).log)
            /\ Last(e).feature = y.row[n]
            /\ y.task[n][t] # None => Len(e) = Len(y.event[n][t])
  BY <1>1, <1>2, TaskEventsFit
<1>7. new \in [Tasks -> Seq(Events)]
  BY <1>1, <1>4, <1>6
<1>8. tasks \in [Names -> [Tasks -> Logs \cup {None}]]
      /\ events \in [Names -> [Tasks -> Seq(Events)]]
  <2> HIDE DEF new
  <2> QED
    BY <1>1, <1>4, <1>7
<1>9. /\ z.row = y.row /\ z.ids = y.ids
      /\ z.task = tasks /\ z.event = events /\ z \in Tables
  <2> HIDE DEF tasks, events
  <2> QED
    BY <1>4, <1>5, <1>8, TablesEqual
<1>10. \A m \in Names \ {n} : z.task[m] = y.task[m] /\ z.event[m] = y.event[m]
  BY <1>4, <1>9
<1>11. z.task[n] = s.log /\ z.event[n] = new
  BY <1>1, <1>4, <1>9
<1>12. LogsShownIn(z)
  <2> SUFFICES ASSUME NEW m \in Names, NEW t \in Tasks, z.task[m][t] # None
               PROVE  /\ z.event[m][t] # <<>>
                      /\ IsPrefix(z.task[m][t], Last(z.event[m][t]).log)
                      /\ Last(z.event[m][t]).feature = z.row[m]
    BY DEF LogsShownIn
  <2>1. CASE m = n
    <3>1. s.log[t] # None /\ z.event[n][t] = TaskEvents(y, n, t, s.log[t])
      BY <1>11, <2>1
    <3> QED
      BY <1>6, <1>9, <1>11, <2>1, <3>1
  <2>2. CASE m # n
    BY <1>2, <1>9, <1>10, <2>2 DEF RowsFit, LogsShownIn
  <2> QED
    BY <2>1, <2>2
<1>13. IdsFitIn(z)
  BY <1>2, <1>9, <1>10 DEF RowsFit, IdsFitIn
<1>14. \A m \in Names, t \in Tasks :
         TaskStays(x, z, m, t) \/ (n = m /\ s.log[t] = None)
  BY <1>2, <1>6, <1>10, <1>11 DEF TaskStays
<1> QED
  BY <1>2, <1>9, <1>12, <1>13, <1>14 DEF RowsFit, RowStays, n, z

\* A task that is saved has a row, its feature too, and no row loses its id.
LEMMA WithTaskFits ==
  ASSUME NEW x, RowsFit(x), NEW d \in Names, NEW t \in Tasks, NEW log \in Logs
  PROVE  LET z == WithTask(x, d, t, log)
         IN  /\ RowsFit(z)
             /\ z.row[d] # 0 /\ z.task[d][t] # None
             /\ \A m \in Names : RowStays(x, z, m)
             /\ \A m \in Names, u \in Tasks : TaskStays(x, z, m, u)
<1> DEFINE y == WithRow(x, d)
           z == WithTask(x, d, t, log)
           e == TaskEvents(y, d, t, log)
           tasks == [y.task EXCEPT ![d][t] = log]
           events == [y.event EXCEPT ![d][t] = e]
<1>1. /\ RowsFit(y) /\ y.row[d] # 0
      /\ y.task = x.task /\ y.event = x.event
      /\ \A m \in Names : RowStays(x, y, m)
  BY WithRowFits
<1>2. z = [y EXCEPT !.task[d][t] = log, !.event[d][t] = e]
  <2>1. (IF x.row[d] = 0 THEN WithRow(x, d) ELSE x) = y
    BY DEF WithRow
  <2> HIDE DEF y
  <2> QED
    BY <2>1, Zenon DEF WithTask
<1>3. /\ e \in Seq(Events) /\ e # <<>>
      /\ IsPrefix(log, Last(e).log)
      /\ Last(e).feature = y.row[d]
      /\ y.task[d][t] # None => Len(e) = Len(y.event[d][t])
  <2> HIDE DEF y
  <2> QED
    BY <1>1, TaskEventsFit
<1> HIDE DEF y, z, e
<1>4. /\ y \in Tables /\ y.row \in [Names -> Nat] /\ y.ids \in [Names -> Nat]
      /\ y.task \in [Names -> [Tasks -> Logs \cup {None}]]
      /\ y.event \in [Names -> [Tasks -> Seq(Events)]]
  BY <1>1, TablesType DEF RowsFit
<1>5. z = [row |-> y.row, ids |-> y.ids, task |-> tasks, event |-> events]
  BY <1>2, <1>4 DEF Tables
<1>6. tasks \in [Names -> [Tasks -> Logs \cup {None}]]
      /\ events \in [Names -> [Tasks -> Seq(Events)]]
  BY <1>3, <1>4
<1>7. /\ z.row = y.row /\ z.ids = y.ids
      /\ z.task = tasks /\ z.event = events /\ z \in Tables
  <2> HIDE DEF tasks, events
  <2> QED
    BY <1>4, <1>5, <1>6, TablesEqual
<1>8. \A m \in Names, u \in Tasks : m # d \/ u # t =>
        z.task[m][u] = y.task[m][u] /\ z.event[m][u] = y.event[m][u]
  BY <1>4, <1>7
<1>9. z.task[d][t] = log /\ z.event[d][t] = e /\ log # None
  BY <1>4, <1>7, NoneAssumption DEF Logs
<1>10. LogsShownIn(z)
  <2> SUFFICES ASSUME NEW m \in Names, NEW u \in Tasks, z.task[m][u] # None
               PROVE  /\ z.event[m][u] # <<>>
                      /\ IsPrefix(z.task[m][u], Last(z.event[m][u]).log)
                      /\ Last(z.event[m][u]).feature = z.row[m]
    BY DEF LogsShownIn
  <2>1. CASE m = d /\ u = t
    BY <1>3, <1>7, <1>9, <2>1
  <2>2. CASE m # d \/ u # t
    BY <1>1, <1>7, <1>8, <2>2 DEF RowsFit, LogsShownIn
  <2> QED
    BY <2>1, <2>2
<1>11. IdsFitIn(z)
  BY <1>1, <1>7, <1>8 DEF RowsFit, IdsFitIn
<1>12. \A m \in Names, u \in Tasks : TaskStays(x, z, m, u)
  BY <1>1, <1>3, <1>8, <1>9 DEF TaskStays
<1> QED
  BY <1>1, <1>7, <1>9, <1>10, <1>11, <1>12 DEF RowsFit, RowStays, z

\* The rows of the features that are kept stay as they are, the others go.
LEMMA PrunedFits ==
  ASSUME NEW x, RowsFit(x), NEW keep
  PROVE  LET z == Pruned(x, keep)
         IN  /\ RowsFit(z)
             /\ \A n \in keep \cap Names :
                  z.row[n] = x.row[n] /\ z.task[n] = x.task[n]
             /\ \A n \in Names \ keep : z.row[n] = 0
             /\ z.event = x.event
<1> DEFINE z == Pruned(x, keep)
           rows == [n \in Names |-> IF n \in keep THEN x.row[n] ELSE 0]
           tasks == [n \in Names |-> IF n \in keep THEN x.task[n]
                                     ELSE [t \in Tasks |-> None]]
<1>1. /\ x \in Tables /\ x.row \in [Names -> Nat] /\ x.ids \in [Names -> Nat]
      /\ x.task \in [Names -> [Tasks -> Logs \cup {None}]]
      /\ x.event \in [Names -> [Tasks -> Seq(Events)]]
  BY TablesType DEF RowsFit
<1>2. z = [x EXCEPT !.row = rows, !.task = tasks]
  BY DEF Pruned
<1> HIDE DEF z
<1>3. z = [row |-> rows, ids |-> x.ids, task |-> tasks, event |-> x.event]
  <2> HIDE DEF rows, tasks
  <2> QED
    BY <1>1, <1>2 DEF Tables
<1>4. rows \in [Names -> Nat] /\ tasks \in [Names -> [Tasks -> Logs \cup {None}]]
  BY <1>1
<1>5. /\ z.row = rows /\ z.ids = x.ids
      /\ z.task = tasks /\ z.event = x.event /\ z \in Tables
  <2> HIDE DEF rows, tasks
  <2> QED
    BY <1>1, <1>3, <1>4, TablesEqual
<1>6. \A n \in Names :
        IF n \in keep THEN z.row[n] = x.row[n] /\ z.task[n] = x.task[n]
        ELSE z.row[n] = 0 /\ \A t \in Tasks : z.task[n][t] = None
  BY <1>5
<1>7. LogsShownIn(z)
  BY <1>5, <1>6 DEF RowsFit, LogsShownIn
<1>8. IdsFitIn(z)
  BY <1>1, <1>5, <1>6 DEF RowsFit, IdsFitIn
<1> QED
  BY <1>5, <1>6, <1>7, <1>8 DEF RowsFit, z

----------------------------------------------------------------------------
\* A save of many features.

\* The recursive definition of Stages has a solution, so it is one.
LEMMA StagesEquation ==
  ASSUME NEW x, NEW snap, NEW good
  PROVE  Stages(x, snap, good) =
           [i \in 0..Len(Order) |->
              IF i = 0 THEN x
              ELSE IF Order[i] \in good
              THEN WithFeature(Stages(x, snap, good)[i - 1], snap[Order[i]])
              ELSE Stages(x, snap, good)[i - 1]]
<1> DEFINE After(v, i) ==
             IF Order[i] \in good THEN WithFeature(v, snap[Order[i]]) ELSE v
           Solves(f, k) ==
             f = [i \in 0..k |-> IF i = 0 THEN x ELSE After(f[i - 1], i)]
           S == {k \in Nat : \E f : Solves(f, k)}
           N == Len(Order)
<1>1. N \in Nat
  BY DirsAssumption
<1>2. 0 \in S
  <2> DEFINE f == [i \in 0..0 |-> x]
  <2>1. Solves(f, 0)
    OBVIOUS
  <2> QED
    BY <2>1
<1>3. ASSUME NEW k \in 0..(N - 1), k \in S
      PROVE  k + 1 \in S
  <2>1. PICK f : Solves(f, k)
    BY <1>3
  <2> DEFINE g == [i \in 0..(k + 1) |-> IF i = k + 1 THEN After(f[k], k + 1) ELSE f[i]]
  <2> HIDE DEF After
  <2>2. k \in Nat /\ k + 1 \in Nat
    BY <1>1
  <2>3. \A i \in 0..k : f[i] = IF i = 0 THEN x ELSE After(f[i - 1], i)
    BY <2>1
  <2>4. \A i \in 0..(k + 1) :
          g[i] = IF i = 0 THEN x ELSE After(g[i - 1], i)
    BY <2>2, <2>3
  <2>5. Solves(g, k + 1)
    BY <2>4
  <2> QED
    BY <2>2, <2>5
<1>4. N \in S
  <2> HIDE DEF S, N
  <2>1. 0..N \subseteq S
    BY <1>1, <1>2, <1>3, Counting
  <2> QED
    BY <1>1, <2>1
<1>5. PICK f : Solves(f, N)
  BY <1>4
<1> DEFINE P(g) == g = [i \in 0..Len(Order) |->
                          IF i = 0 THEN x
                          ELSE IF Order[i] \in good
                          THEN WithFeature(g[i - 1], snap[Order[i]])
                          ELSE g[i - 1]]
<1>6. P(f)
  BY <1>5
<1>7. Stages(x, snap, good) = CHOOSE g : P(g)
  BY DEF Stages
<1> HIDE DEF P
<1>8. P(CHOOSE g : P(g))
  BY <1>6
<1>9. P(Stages(x, snap, good))
  BY <1>7, <1>8
<1> QED
  BY <1>9 DEF P

\* A save of many features does to the rows what the saves of each do.
LEMMA WithFeaturesFits ==
  ASSUME NEW x, RowsFit(x), NEW snap, NEW good \in SUBSET Dirs,
         \A d \in good : snap[d] \in Snapshots
  PROVE  LET z == WithFeatures(x, snap, good)
         IN  /\ RowsFit(z)
             /\ \A m \in Names : RowStays(x, z, m)
             /\ \A m \in Names, t \in Tasks :
                  \/ TaskStays(x, z, m, t)
                  \/ \E d \in good : snap[d].name = m /\ snap[d].log[t] = None
<1> DEFINE g == Stages(x, snap, good)
           N == Len(Order)
           Dropped(m, t) == \E d \in good : snap[d].name = m /\ snap[d].log[t] = None
           Fine(z) == /\ RowsFit(z)
                      /\ \A m \in Names : RowStays(x, z, m)
                      /\ \A m \in Names, t \in Tasks :
                           TaskStays(x, z, m, t) \/ Dropped(m, t)
           S == {i \in Nat : i \in 0..N => Fine(g[i])}
<1>1. N \in Nat
  BY DirsAssumption
<1>2. g[0] = x
  BY <1>1, StagesEquation
<1>3. \A i \in 1..N :
        g[i] = IF Order[i] \in good THEN WithFeature(g[i - 1], snap[Order[i]])
               ELSE g[i - 1]
  <2> SUFFICES ASSUME NEW i \in 1..N
               PROVE  g[i] = IF Order[i] \in good
                             THEN WithFeature(g[i - 1], snap[Order[i]])
                             ELSE g[i - 1]
    OBVIOUS
  <2>1. i \in 0..N /\ i # 0
    BY <1>1
  <2> HIDE DEF g, N
  <2> QED
    BY <2>1, StagesEquation DEF g, N
<1> HIDE DEF g, N
<1>4. 0 \in S
  BY <1>2 DEF RowStays, TaskStays
<1>5. ASSUME NEW i \in 0..(N - 1), i \in S
      PROVE  i + 1 \in S
  <2>1. i \in 0..N /\ i + 1 \in 1..N /\ i + 1 \in Nat /\ (i + 1) - 1 = i
    BY <1>1
  <2>2. Fine(g[i])
    BY <1>5, <2>1
  <2> DEFINE d == Order[i + 1]
             y == g[i]
             z == g[i + 1]
  <2>3. z = IF d \in good THEN WithFeature(y, snap[d]) ELSE y
    BY <1>3, <2>1
  <2> HIDE DEF y, z
  <2>4. Fine(y)
    BY <2>2 DEF y
  <2>5. CASE d \notin good
    BY <2>1, <2>3, <2>4, <2>5 DEF z
  <2>6. CASE d \in good
    <3> DEFINE s == snap[d]
    <3>1. s \in Snapshots
      BY <2>6
    <3> HIDE DEF Dropped
    <3>2. /\ RowsFit(z)
          /\ \A m \in Names : RowStays(y, z, m)
          /\ \A m \in Names, t \in Tasks :
               TaskStays(y, z, m, t) \/ (s.name = m /\ s.log[t] = None)
      <4> HIDE DEF s
      <4>1. RowsFit(y)
        BY <2>4
      <4>2. z = WithFeature(y, s)
        BY <2>3, <2>6 DEF s
      <4> QED
        BY <3>1, <4>1, <4>2, WithFeatureFits
    <3>3. \A m \in Names, t \in Tasks : s.name = m /\ s.log[t] = None => Dropped(m, t)
      BY <2>6 DEF Dropped
    <3>4. \A m \in Names : RowStays(x, z, m)
      BY <2>4, <3>2 DEF RowStays
    <3>5. \A m \in Names, t \in Tasks : TaskStays(x, z, m, t) \/ Dropped(m, t)
      <4> HIDE DEF s
      <4> QED
        BY <2>4, <3>2, <3>3 DEF TaskStays
    <3>6. Fine(z)
      BY <3>2, <3>4, <3>5
    <3> QED
      BY <2>1, <3>6 DEF z
  <2> QED
    BY <2>5, <2>6
<1>6. Fine(g[N])
  <2> HIDE DEF S
  <2>1. 0..N \subseteq S
    BY <1>1, <1>4, <1>5, Counting
  <2>2. N \in S /\ N \in 0..N
    BY <1>1, <2>1
  <2> HIDE DEF Fine
  <2> QED
    BY <2>2 DEF S
<1> QED
  BY <1>6 DEF WithFeatures, g, N

----------------------------------------------------------------------------
\* The inductive invariant.

Pending(attempt) == IF attempt.step = "fetched" THEN 1 ELSE 0

\* Each attempt saves once, so there are never more saves than attempts.
AttemptsCounted == saves + Pending(full) + Pending(tgt) + Pending(tsk) <= syncs

\* An attempt names a save that has been committed.
SavesKnown == full.save <= saves /\ tgt.save <= saves /\ tsk.save <= saves

\* A full sync holds snapshots of what the commit it read holds.
FullFollows ==
  full.step = "fetched" =>
    \A d \in Dirs : full.snap[d] # None =>
      /\ full.tree[d] # None
      /\ full.snap[d].name = Declared(d, full.tree[d])

RowsIInv ==
  RowsInv /\ AttemptsCounted /\ SavesKnown /\ FullFollows /\ SavedIsRecorded

FullTypes == [step : Steps, tree : [Dirs -> Directories \cup {None}],
              snap : [Dirs -> Snapshots \cup {None}], save : Nat]
TgtTypes == [step : Steps, dir : Dirs, snap : Snapshots, save : Nat]
TskTypes == [step : Steps, dir : Dirs, task : Tasks, log : Logs, save : Nat]

\* What a step needs to know of the state it starts in.
LEMMA Known ==
  ASSUME RowsIInv
  PROVE  /\ RowsFit(db)
         /\ saves \in Nat /\ syncs \in Nat /\ MaxSyncs \in Nat
         /\ full \in FullTypes
         /\ tgt \in TgtTypes \/ tgt = TgtIdle
         /\ tsk \in TskTypes \/ tsk = TskIdle
         /\ full.save \in Nat /\ tgt.save \in Nat /\ tsk.save \in Nat
         /\ tgt.step # "idle" => tgt \in TgtTypes
         /\ tsk.step # "idle" => tsk \in TskTypes
  BY BoundsAssumption
  DEF RowsIInv, RowsInv, TypeOK, LogShown, IdsFit, RowsFit, TgtIdle, TskIdle,
      FullTypes, TgtTypes, TskTypes

LEMMA IdleTypes ==
  /\ FullIdle \in FullTypes
  /\ FullIdle.step = "idle" /\ FullIdle.save = 0
  /\ TgtIdle.step = "idle" /\ TgtIdle.save = 0
  /\ TskIdle.step = "idle" /\ TskIdle.save = 0
  BY DEF FullIdle, TgtIdle, TskIdle, FullTypes, Steps

\* Declared ids and files make a snapshot.
LEMMA ParsedType ==
  ASSUME NEW d \in Dirs, NEW c \in Directories, NEW readable
  PROVE  /\ Parsed(d, c, readable) \in Snapshots
         /\ Parsed(d, c, readable).name = Declared(d, c)
<1>1. Declared(d, c) \in Names /\ c.log \in Files
  BY DirsAssumption DEF Declared, Directories
<1>2. [t \in Tasks |-> IF t \in readable THEN c.log[t] ELSE None] \in Files
  BY <1>1 DEF Files
<1> QED
  BY <1>1, <1>2 DEF Parsed, Snapshots

\* Nothing has been saved, or each directory as it was created.
LEMMA NoRowsFit == RowsFit(NoRows)
<1>1. NoRows \in Tables
  BY DEF NoRows, Tables
<1> QED
  BY <1>1 DEF RowsFit, LogsShownIn, IdsFitIn, NoRows

LEMMA NewDirectoryType ==
  ASSUME NEW d \in Dirs PROVE NewDirectory(d) \in Directories
<1>1. <<1>> \in Logs
  BY DEF Logs
<1> QED
  BY <1>1, DirsAssumption DEF NewDirectory, Directories, Holdings, Files

LEMMA AllRowsFit == RowsFit(AllRows)
<1> DEFINE snap == [d \in Dirs |-> Parsed(d, NewDirectory(d), Tasks)]
<1>1. \A d \in Dirs : snap[d] \in Snapshots
  BY NewDirectoryType, ParsedType
<1> HIDE DEF snap
<1>2. RowsFit(WithFeatures(NoRows, snap, Dirs))
  BY <1>1, NoRowsFit, WithFeaturesFits
<1> QED
  BY <1>2 DEF AllRows, snap

LEMMA RowsInitHolds == Init => RowsIInv
<1> SUFFICES ASSUME Init PROVE RowsIInv
  OBVIOUS
<1>1. RowsFit(db)
  BY NoRowsFit, AllRowsFit DEF Init
<1>2. /\ saves = 0 /\ syncs = 0 /\ head = 0
      /\ full = FullIdle /\ tgt = TgtIdle /\ tsk = TskIdle
      /\ run \in [ok : BOOLEAN, save : Nat]
      /\ tree \in [Dirs -> Directories \cup {None}]
  BY NewDirectoryType DEF Init
<1>3. TypeOK
  BY <1>1, <1>2, IdleTypes, BoundsAssumption DEF TypeOK, RowsFit, FullTypes
<1>4. AttemptsCounted /\ SavesKnown /\ FullFollows /\ SavedIsRecorded
  BY <1>2, IdleTypes
  DEF AttemptsCounted, Pending, SavesKnown, FullFollows, SavedIsRecorded
<1> QED
  BY <1>1, <1>3, <1>4 DEF RowsIInv, RowsInv, LogShown, IdsFit, RowsFit

----------------------------------------------------------------------------
\* What the saves leave.

Dropped(n) == GoneFromGit(n) /\ db'.row[n] = 0

\* Rows and tasks keep their ids, but for those that a full save finds gone
\* and the tasks of a feature that is saved without them.
RowsKept == \A n \in Names : RowStays(db, db', n) \/ Dropped(n)
TasksKept ==
  \A n \in Names, t \in Tasks :
    TaskStays(db, db', n, t) \/ Dropped(n) \/ SavedWithout(n, t)

LEMMA FullSaved ==
  ASSUME RowsIInv, SaveFull
  PROVE  RowsFit(db)' /\ RowsKept /\ TasksKept
<1> DEFINE held == {d \in Dirs : full.snap[d] # None}
<1>1. PICK bad \in SUBSET held : db' = Stored(bad)
  BY DEF SaveFull, Committed
<1> DEFINE good == held \ bad
           y == WithFeatures(db, full.snap, good)
<1>2. db' = Pruned(y, KeepList)
  BY <1>1 DEF Stored
<1>3. /\ full.step = "fetched" /\ full'.step = "saved"
      /\ full \in FullTypes
  BY Known DEF SaveFull, FullIdle
<1>4. \A d \in held : full.snap[d] \in Snapshots
  BY <1>3 DEF FullTypes
<1>5. good \in SUBSET Dirs /\ RowsFit(db) /\ \A d \in good : full.snap[d] \in Snapshots
  BY <1>4, Known
<1> HIDE DEF good
<1>6. /\ RowsFit(y)
      /\ \A m \in Names : RowStays(db, y, m)
      /\ \A m \in Names, t \in Tasks :
           \/ TaskStays(db, y, m, t)
           \/ \E d \in good : full.snap[d].name = m /\ full.snap[d].log[t] = None
  BY <1>5, WithFeaturesFits
<1> HIDE DEF y
<1>7. /\ RowsFit(db')
      /\ \A n \in KeepList \cap Names :
           db'.row[n] = y.row[n] /\ db'.task[n] = y.task[n]
      /\ \A n \in Names \ KeepList : db'.row[n] = 0
      /\ db'.event = y.event
  BY <1>2, <1>6, PrunedFits
<1>8. \A n \in Names \ KeepList : GoneFromGit(n)
  <2> SUFFICES ASSUME NEW n \in Names \ KeepList, NEW d \in Dirs,
                      full.tree[d] # None, full.snap[d] # None
               PROVE  Declared(d, full.tree[d]) # n
    BY <1>3 DEF GoneFromGit
  <2>1. full.snap[d].name = Declared(d, full.tree[d])
    BY <1>3 DEF RowsIInv, FullFollows
  <2> QED
    BY <2>1 DEF KeepList
<1>9. \A n \in Names \ KeepList : Dropped(n)
  BY <1>7, <1>8 DEF Dropped
<1>10. RowsKept
  BY <1>6, <1>7, <1>9 DEF RowsKept, RowStays
<1>11. \A n \in Names, t \in Tasks :
         (\E d \in good : full.snap[d].name = n /\ full.snap[d].log[t] = None)
           => SavedWithout(n, t)
  <2>1. Saved = {full.snap[d] : d \in Dirs} \ {None}
    BY <1>3 DEF Saved
  <2>2. \A d \in good : full.snap[d] \in Saved
    BY <2>1 DEF good
  <2> QED
    BY <2>2 DEF SavedWithout
<1>12. TasksKept
  BY <1>6, <1>7, <1>9, <1>11 DEF TasksKept, TaskStays
<1>13. RowsFit(db)'
  BY <1>7 DEF RowsFit, LogsShownIn, IdsFitIn
<1> QED
  BY <1>10, <1>12, <1>13

LEMMA TargetSaved ==
  ASSUME RowsIInv, SaveTarget
  PROVE  /\ RowsFit(db)' /\ RowsKept /\ TasksKept
         /\ db'.row[tgt.snap.name] # 0
<1>1. /\ tgt.step = "fetched" /\ tgt \in TgtTypes /\ tgt.snap \in Snapshots
      /\ db' = WithFeature(db, tgt.snap)
      /\ RowsFit(db)
  BY Known DEF SaveTarget, Committed, TgtTypes
<1>2. tgt'.step = "saved" /\ full' = full
  BY <1>1 DEF SaveTarget, TgtTypes
<1>3. /\ RowsFit(db')
      /\ db'.row[tgt.snap.name] # 0
      /\ \A m \in Names : RowStays(db, db', m)
      /\ \A m \in Names, t \in Tasks :
           \/ TaskStays(db, db', m, t)
           \/ tgt.snap.name = m /\ tgt.snap.log[t] = None
  BY <1>1, WithFeatureFits
<1>4. tgt.snap \in Saved
  BY <1>1, <1>2 DEF Saved
<1>5. RowsFit(db)'
  BY <1>3 DEF RowsFit, LogsShownIn, IdsFitIn
<1> QED
  BY <1>3, <1>4, <1>5 DEF RowsKept, TasksKept, SavedWithout

LEMMA TaskSaved ==
  ASSUME RowsIInv, SaveTask
  PROVE  /\ RowsFit(db)' /\ RowsKept /\ TasksKept
         /\ db'.row[tsk.dir] # 0 /\ db'.task[tsk.dir][tsk.task] # None
<1>1. /\ tsk.dir \in Names /\ tsk.task \in Tasks /\ tsk.log \in Logs
      /\ db' = WithTask(db, tsk.dir, tsk.task, tsk.log)
      /\ RowsFit(db)
  BY Known, DirsAssumption DEF SaveTask, Committed, TskTypes
<1>2. /\ RowsFit(db')
      /\ db'.row[tsk.dir] # 0 /\ db'.task[tsk.dir][tsk.task] # None
      /\ \A m \in Names : RowStays(db, db', m)
      /\ \A m \in Names, u \in Tasks : TaskStays(db, db', m, u)
  BY <1>1, WithTaskFits
<1>3. RowsFit(db)'
  BY <1>2 DEF RowsFit, LogsShownIn, IdsFitIn
<1> QED
  BY <1>2, <1>3 DEF RowsKept, TasksKept

LEMMA NothingSaved ==
  ASSUME RowsIInv, UNCHANGED db
  PROVE  RowsFit(db)' /\ RowsKept /\ TasksKept
<1>1. RowsFit(db) /\ db' = db
  BY Known
<1>2. RowsFit(db)'
  BY <1>1 DEF RowsFit, LogsShownIn, IdsFitIn
<1> QED
  BY <1>1, <1>2 DEF RowsKept, TasksKept, RowStays, TaskStays

----------------------------------------------------------------------------
\* Every step keeps the invariant.

RunType == [ok : BOOLEAN, save : Nat]

\* The types, with the tables' left to RowsFit.
LEMMA TypeParts ==
  TypeOK <=> /\ tree \in [Dirs -> Directories \cup {None}]
             /\ head \in 0..MaxCommits
             /\ db \in Tables
             /\ saves \in 0..MaxSyncs
             /\ run \in RunType
             /\ full \in FullTypes
             /\ tgt \in TgtTypes \cup {TgtIdle}
             /\ tsk \in TskTypes \cup {TskIdle}
             /\ syncs \in 0..MaxSyncs
  BY Zenon DEF TypeOK, RunType, FullTypes, TgtTypes, TskTypes

LEMMA RunFailedType ==
  ASSUME RowsIInv, RunFailed PROVE run' \in RunType
<1>1. run \in RunType
  BY TypeParts DEF RowsIInv, RowsInv
<1>2. [ok |-> FALSE, save |-> 0] \in RunType
  BY DEF RunType
<1> QED
  BY <1>1, <1>2, Zenon DEF RunFailed

\* A push moves the branch only.
LEMMA PushKeeps ==
  ASSUME RowsIInv, NEW d \in Dirs, NEW c \in Directories \cup {None}, Pushed(d, c)
  PROVE  RowsIInv'
<1>1. /\ UNCHANGED <<db, saves, run, full, tgt, tsk, syncs>>
      /\ head < MaxCommits /\ head' = head + 1
      /\ tree' = [tree EXCEPT ![d] = c]
  BY DEF Pushed
<1>2. TypeOK
  BY DEF RowsIInv, RowsInv
<1>3. /\ tree' \in [Dirs -> Directories \cup {None}]
      /\ head' \in 0..MaxCommits
  BY <1>1, <1>2, BoundsAssumption DEF TypeOK
<1>4. TypeOK'
  BY <1>1, <1>2, <1>3 DEF TypeOK
<1>5. (LogShown /\ IdsFit)'
  BY <1>1 DEF RowsIInv, RowsInv, LogShown, IdsFit, LogsShownIn, IdsFitIn
<1>6. (AttemptsCounted /\ SavesKnown /\ FullFollows /\ SavedIsRecorded)'
  BY <1>1 DEF RowsIInv, AttemptsCounted, Pending, SavesKnown, FullFollows,
              SavedIsRecorded
<1> QED
  BY <1>4, <1>5, <1>6 DEF RowsIInv, RowsInv

\* A step of the syncs: what has to be seen of the attempts and the rows.
LEMMA SyncKeeps ==
  ASSUME RowsIInv, UNCHANGED gitVars, RowsFit(db)',
         saves' \in Nat, syncs' \in 0..MaxSyncs, run' \in RunType,
         full' \in FullTypes, tgt' \in TgtTypes \cup {TgtIdle},
         tsk' \in TskTypes \cup {TskIdle},
         AttemptsCounted', SavesKnown', FullFollows', SavedIsRecorded'
  PROVE  RowsIInv'
<1>1. Pending(full)' \in Nat /\ Pending(tgt)' \in Nat /\ Pending(tsk)' \in Nat
  BY DEF Pending
<1>2. saves' \in 0..MaxSyncs
  BY <1>1, BoundsAssumption DEF AttemptsCounted
<1>3. /\ tree' \in [Dirs -> Directories \cup {None}]
      /\ head' \in 0..MaxCommits
  BY TypeParts DEF RowsIInv, RowsInv, gitVars
<1>4. (db \in Tables)' /\ (LogShown /\ IdsFit)'
  BY DEF RowsFit, LogShown, IdsFit
<1>5. TypeOK'
  BY <1>2, <1>3, <1>4
  DEF TypeOK, RunType, FullTypes, TgtTypes, TskTypes
<1> QED
  BY <1>4, <1>5 DEF RowsIInv, RowsInv

\* The steps of a full sync.
LEMMA FullKeeps ==
  ASSUME RowsIInv, FetchFull \/ SaveFull \/ RecordFull \/ FailFull
  PROVE  RowsIInv'
<1>0. /\ RowsFit(db) /\ saves \in Nat /\ syncs \in 0..MaxSyncs /\ run \in RunType
      /\ full \in FullTypes
      /\ tgt \in TgtTypes \cup {TgtIdle} /\ tsk \in TskTypes \cup {TskIdle}
      /\ tree \in [Dirs -> Directories \cup {None}]
      /\ AttemptsCounted /\ SavesKnown /\ FullFollows /\ SavedIsRecorded
  BY Known, TypeParts DEF RowsIInv, RowsInv
<1>s. /\ full.save \in Nat /\ tgt.save \in Nat /\ tsk.save \in Nat
      /\ Pending(full) \in Nat /\ Pending(tgt) \in Nat /\ Pending(tsk) \in Nat
  BY Known DEF Pending
<1>1. CASE FetchFull
  <2>1. PICK lost \in SUBSET {d \in Dirs : Discovered(tree[d])},
             readable \in [Dirs -> SUBSET Tasks] :
          full' = [step |-> "fetched", tree |-> tree, save |-> 0,
                   snap |-> [d \in Dirs |->
                               IF Discovered(tree[d]) /\ d \notin lost
                               THEN Parsed(d, tree[d], readable[d]) ELSE None]]
    BY <1>1 DEF FetchFull
  <2> DEFINE snap == [d \in Dirs |->
                        IF Discovered(tree[d]) /\ d \notin lost
                        THEN Parsed(d, tree[d], readable[d]) ELSE None]
  <2>2. \A d \in Dirs : snap[d] # None =>
          /\ tree[d] # None
          /\ snap[d] \in Snapshots
          /\ snap[d].name = Declared(d, tree[d])
    BY <1>0, ParsedType DEF Discovered
  <2>3. snap \in [Dirs -> Snapshots \cup {None}]
    BY <2>2
  <2> HIDE DEF snap
  <2>4. /\ full'.step = "fetched" /\ full'.tree = tree /\ full'.save = 0
        /\ full'.snap = snap
    BY <2>1 DEF snap
  <2>5. full' \in FullTypes
    BY <1>0, <2>1, <2>3 DEF FullTypes, Steps, snap
  <2>6. /\ UNCHANGED <<gitVars, db, saves, run, tgt, tsk>>
        /\ full.step = "idle" /\ syncs < MaxSyncs /\ syncs' = syncs + 1
    BY <1>1 DEF FetchFull
  <2>7. AttemptsCounted' /\ SavesKnown' /\ SavedIsRecorded'
    BY <1>0, <1>s, <2>4, <2>6
    DEF AttemptsCounted, Pending, SavesKnown, SavedIsRecorded
  <2>8. FullFollows'
    BY <2>2, <2>4 DEF FullFollows
  <2>9. syncs' \in 0..MaxSyncs
    BY <1>0, <2>6, BoundsAssumption
  <2> QED
    BY <1>0, <2>5, <2>6, <2>7, <2>8, <2>9, NothingSaved, SyncKeeps
<1>2. CASE SaveFull
  <2>1. /\ UNCHANGED <<gitVars, run, tgt, tsk, syncs>>
        /\ full.step = "fetched" /\ saves' = saves + 1
        /\ full' = [FullIdle EXCEPT !.step = "saved", !.save = saves + 1]
    BY <1>2 DEF SaveFull, Committed
  <2>2. /\ full' \in FullTypes /\ full'.step = "saved" /\ full'.save = saves + 1
    <3>1. full' = [step |-> "saved", tree |-> [d \in Dirs |-> None],
                   snap |-> [d \in Dirs |-> None], save |-> saves + 1]
      BY <2>1 DEF FullIdle
    <3> QED
      BY <1>0, <3>1 DEF FullTypes, Steps
  <2>3. AttemptsCounted' /\ SavesKnown' /\ FullFollows'
    BY <1>0, <1>s, <2>1, <2>2
    DEF AttemptsCounted, Pending, SavesKnown, FullFollows
  <2>4. SavedIsRecorded'
    BY <1>0, <1>s, <2>1 DEF SavesKnown, SavedIsRecorded
  <2> QED
    BY <1>0, <1>2, <2>1, <2>2, <2>3, <2>4, FullSaved, SyncKeeps
<1>3. CASE RecordFull \/ FailFull
  <2>1. /\ UNCHANGED <<gitVars, db, saves, tgt, tsk, syncs>>
        /\ full' = FullIdle
    BY <1>3 DEF RecordFull, FailFull
  <2>2. run' \in RunType
    <3>1. ASSUME RecordFull PROVE run' \in RunType
      BY <1>s, <3>1 DEF RecordFull, RunType
    <3>2. ASSUME FailFull PROVE run' \in RunType
      BY <3>2, RunFailedType DEF FailFull
    <3> QED
      BY <1>3, <3>1, <3>2
  <2>3. AttemptsCounted' /\ SavesKnown' /\ FullFollows' /\ SavedIsRecorded'
    BY <1>0, <1>s, <2>1, IdleTypes
    DEF AttemptsCounted, Pending, SavesKnown, FullFollows, SavedIsRecorded
  <2> QED
    BY <1>0, <2>1, <2>2, <2>3, IdleTypes, NothingSaved, SyncKeeps
<1> QED
  BY <1>1, <1>2, <1>3

\* The steps of a targeted sync.
LEMMA TargetKeeps ==
  ASSUME RowsIInv,
         (\E d \in Dirs : FetchTarget(d)) \/ SaveTarget \/ RecordTarget \/ FailTarget
  PROVE  RowsIInv'
<1>0. /\ RowsFit(db) /\ saves \in Nat /\ syncs \in 0..MaxSyncs /\ run \in RunType
      /\ full \in FullTypes
      /\ tgt \in TgtTypes \cup {TgtIdle} /\ tsk \in TskTypes \cup {TskIdle}
      /\ tree \in [Dirs -> Directories \cup {None}]
      /\ AttemptsCounted /\ SavesKnown /\ FullFollows /\ SavedIsRecorded
  BY Known, TypeParts DEF RowsIInv, RowsInv
<1>s. /\ full.save \in Nat /\ tgt.save \in Nat /\ tsk.save \in Nat
      /\ Pending(full) \in Nat /\ Pending(tgt) \in Nat /\ Pending(tsk) \in Nat
  BY Known DEF Pending
<1>1. ASSUME NEW d \in Dirs, FetchTarget(d) PROVE RowsIInv'
  <2>1. PICK readable \in SUBSET Tasks :
          tgt' = [step |-> "fetched", dir |-> d, save |-> 0,
                  snap |-> Parsed(d, tree[d], readable)]
    BY <1>1 DEF FetchTarget
  <2>2. /\ UNCHANGED <<gitVars, db, saves, run, full, tsk>>
        /\ tgt.step = "idle" /\ tree[d] # None
        /\ syncs < MaxSyncs /\ syncs' = syncs + 1
    BY <1>1 DEF FetchTarget
  <2>3. Parsed(d, tree[d], readable) \in Snapshots
    BY <1>0, <2>2, ParsedType
  <2>4. tgt' \in TgtTypes /\ tgt'.step = "fetched" /\ tgt'.save = 0
    BY <2>1, <2>3 DEF TgtTypes, Steps
  <2>5. AttemptsCounted' /\ SavesKnown' /\ FullFollows' /\ SavedIsRecorded'
    BY <1>0, <1>s, <2>2, <2>4
    DEF AttemptsCounted, Pending, SavesKnown, FullFollows, SavedIsRecorded
  <2>6. syncs' \in 0..MaxSyncs
    BY <1>0, <2>2, BoundsAssumption
  <2> QED
    BY <1>0, <2>2, <2>4, <2>5, <2>6, NothingSaved, SyncKeeps
<1>2. CASE SaveTarget
  <2>1. /\ UNCHANGED <<gitVars, run, full, tsk, syncs>>
        /\ tgt.step = "fetched" /\ saves' = saves + 1
        /\ tgt' = [tgt EXCEPT !.step = "saved", !.save = saves + 1]
        /\ tgt \in TgtTypes
    BY <1>2, Known DEF SaveTarget, Committed
  <2>2. tgt' = [step |-> "saved", dir |-> tgt.dir, snap |-> tgt.snap,
                save |-> saves + 1]
    BY <2>1 DEF TgtTypes
  <2>3. tgt' \in TgtTypes /\ tgt'.step = "saved" /\ tgt'.save = saves + 1
    BY <1>0, <2>1, <2>2 DEF TgtTypes, Steps
  <2>4. AttemptsCounted' /\ SavesKnown' /\ FullFollows'
    BY <1>0, <1>s, <2>1, <2>3
    DEF AttemptsCounted, Pending, SavesKnown, FullFollows
  <2>5. db'.row[tgt'.dir] # 0 \/ tgt'.snap.name # tgt'.dir
    BY <1>2, <2>2, TargetSaved
  <2>6. SavedIsRecorded'
    BY <1>0, <1>s, <2>1, <2>5 DEF SavesKnown, SavedIsRecorded
  <2> QED
    BY <1>0, <1>2, <2>1, <2>3, <2>4, <2>6, TargetSaved, SyncKeeps
<1>3. CASE RecordTarget \/ FailTarget
  <2>1. /\ UNCHANGED <<gitVars, db, saves, full, tsk, syncs>>
        /\ tgt' = TgtIdle
    BY <1>3 DEF RecordTarget, FailTarget
  <2>2. run' \in RunType
    <3>1. ASSUME RecordTarget PROVE run' \in RunType
      <4>1. [ok |-> TRUE, save |-> tgt.save] \in RunType
        BY <1>s DEF RunType
      <4> QED
        BY <1>0, <3>1, <4>1, Zenon DEF RecordTarget
    <3>2. ASSUME FailTarget PROVE run' \in RunType
      BY <1>0, <3>2, RunFailedType DEF FailTarget
    <3> QED
      BY <1>3, <3>1, <3>2
  <2>3. AttemptsCounted' /\ SavesKnown' /\ FullFollows' /\ SavedIsRecorded'
    BY <1>0, <1>s, <2>1, IdleTypes
    DEF AttemptsCounted, Pending, SavesKnown, FullFollows, SavedIsRecorded
  <2> QED
    BY <1>0, <2>1, <2>2, <2>3, IdleTypes, NothingSaved, SyncKeeps
<1> QED
  BY <1>1, <1>2, <1>3

\* The steps of a task sync.
LEMMA TaskKeeps ==
  ASSUME RowsIInv,
         \/ \E d \in Dirs, t \in Tasks : FetchTask(d, t)
         \/ SaveTask \/ RecordTask \/ FailTask
  PROVE  RowsIInv'
<1>0. /\ RowsFit(db) /\ saves \in Nat /\ syncs \in 0..MaxSyncs /\ run \in RunType
      /\ full \in FullTypes
      /\ tgt \in TgtTypes \cup {TgtIdle} /\ tsk \in TskTypes \cup {TskIdle}
      /\ tree \in [Dirs -> Directories \cup {None}]
      /\ AttemptsCounted /\ SavesKnown /\ FullFollows /\ SavedIsRecorded
  BY Known, TypeParts DEF RowsIInv, RowsInv
<1>s. /\ full.save \in Nat /\ tgt.save \in Nat /\ tsk.save \in Nat
      /\ Pending(full) \in Nat /\ Pending(tgt) \in Nat /\ Pending(tsk) \in Nat
  BY Known DEF Pending
<1>1. ASSUME NEW d \in Dirs, NEW t \in Tasks, FetchTask(d, t) PROVE RowsIInv'
  <2> DEFINE log == IF tree[d] = None \/ tree[d].log[t] = None
                    THEN <<>> ELSE tree[d].log[t]
  <2>1. PICK l \in {log, Append(log, 0)} :
          tsk' = [step |-> "fetched", dir |-> d, task |-> t, log |-> l,
                  save |-> 0]
    BY <1>1 DEF FetchTask
  <2>2. /\ UNCHANGED <<gitVars, db, saves, run, full, tgt>>
        /\ tsk.step = "idle"
        /\ syncs < MaxSyncs /\ syncs' = syncs + 1
    BY <1>1 DEF FetchTask
  <2>3. log \in Logs
    BY <1>0 DEF Directories, Files, Logs
  <2> HIDE DEF log
  <2>4. l \in Logs
    BY <2>3, AppendProperties DEF Logs
  <2>5. tsk' \in TskTypes /\ tsk'.step = "fetched" /\ tsk'.save = 0
    BY <2>1, <2>4 DEF TskTypes, Steps
  <2>6. AttemptsCounted' /\ SavesKnown' /\ FullFollows' /\ SavedIsRecorded'
    BY <1>0, <1>s, <2>2, <2>5
    DEF AttemptsCounted, Pending, SavesKnown, FullFollows, SavedIsRecorded
  <2>7. syncs' \in 0..MaxSyncs
    BY <1>0, <2>2, BoundsAssumption
  <2> QED
    BY <1>0, <2>2, <2>5, <2>6, <2>7, NothingSaved, SyncKeeps
<1>2. CASE SaveTask
  <2>1. /\ UNCHANGED <<gitVars, run, full, tgt, syncs>>
        /\ tsk.step = "fetched" /\ saves' = saves + 1
        /\ tsk' = [tsk EXCEPT !.step = "saved", !.save = saves + 1]
        /\ tsk \in TskTypes
    BY <1>2, Known DEF SaveTask, Committed
  <2>2. tsk' = [step |-> "saved", dir |-> tsk.dir, task |-> tsk.task,
                log |-> tsk.log, save |-> saves + 1]
    BY <2>1 DEF TskTypes
  <2>3. tsk' \in TskTypes /\ tsk'.step = "saved" /\ tsk'.save = saves + 1
    BY <1>0, <2>1, <2>2 DEF TskTypes, Steps
  <2>4. AttemptsCounted' /\ SavesKnown' /\ FullFollows'
    BY <1>0, <1>s, <2>1, <2>3
    DEF AttemptsCounted, Pending, SavesKnown, FullFollows
  <2>5. db'.row[tsk'.dir] # 0 /\ db'.task[tsk'.dir][tsk'.task] # None
    BY <1>2, <2>2, TaskSaved
  <2>6. SavedIsRecorded'
    BY <1>0, <1>s, <2>1, <2>5 DEF SavesKnown, SavedIsRecorded
  <2> QED
    BY <1>0, <1>2, <2>1, <2>3, <2>4, <2>6, TaskSaved, SyncKeeps
<1>3. CASE RecordTask \/ FailTask
  <2>1. /\ UNCHANGED <<gitVars, db, saves, full, tgt, syncs>>
        /\ tsk' = TskIdle
    BY <1>3 DEF RecordTask, FailTask
  <2>2. run' \in RunType
    <3>1. ASSUME RecordTask PROVE run' \in RunType
      BY <1>s, <3>1 DEF RecordTask, RunType
    <3>2. ASSUME FailTask PROVE run' \in RunType
      BY <1>0, <3>2, RunFailedType DEF FailTask
    <3> QED
      BY <1>3, <3>1, <3>2
  <2>3. AttemptsCounted' /\ SavesKnown' /\ FullFollows' /\ SavedIsRecorded'
    BY <1>0, <1>s, <2>1, IdleTypes
    DEF AttemptsCounted, Pending, SavesKnown, FullFollows, SavedIsRecorded
  <2> QED
    BY <1>0, <2>1, <2>2, <2>3, IdleTypes, NothingSaved, SyncKeeps
<1> QED
  BY <1>1, <1>2, <1>3

LEMMA FetchFailsKeeps ==
  ASSUME RowsIInv, FetchFails PROVE RowsIInv'
<1>1. /\ UNCHANGED <<gitVars, db, saves, full, tgt, tsk>>
      /\ syncs < MaxSyncs /\ syncs' = syncs + 1
      /\ run' \in RunType
  BY RunFailedType DEF FetchFails
<1>2. /\ saves \in Nat /\ syncs \in 0..MaxSyncs
      /\ full \in FullTypes
      /\ tgt \in TgtTypes \cup {TgtIdle} /\ tsk \in TskTypes \cup {TskIdle}
      /\ AttemptsCounted /\ SavesKnown /\ FullFollows /\ SavedIsRecorded
  BY Known, TypeParts DEF RowsIInv, RowsInv
<1>3. Pending(full) \in Nat /\ Pending(tgt) \in Nat /\ Pending(tsk) \in Nat
  BY DEF Pending
<1>4. AttemptsCounted' /\ SavesKnown' /\ FullFollows' /\ SavedIsRecorded'
  BY <1>1, <1>2, <1>3
  DEF AttemptsCounted, Pending, SavesKnown, FullFollows, SavedIsRecorded
<1>5. syncs' \in 0..MaxSyncs
  BY <1>1, <1>2, BoundsAssumption
<1> QED
  BY <1>1, <1>2, <1>4, <1>5, NothingSaved, SyncKeeps

LEMMA RowsStepHolds ==
  ASSUME RowsIInv, RowsNext PROVE RowsIInv'
<1>1. ASSUME NEW d \in Dirs, PushDocuments(d) PROVE RowsIInv'
  <2>1. tree[d] # None /\ tree[d] \in Directories
    BY <1>1, TypeParts DEF PushDocuments, RowsIInv, RowsInv
  <2>2. ASSUME NEW h \in Holdings, NEW i \in Names
        PROVE  [tree[d] EXCEPT !.has = h, !.id = IF h = "status" THEN i ELSE d]
                 \in Directories
    <3> DEFINE id == IF h = "status" THEN i ELSE d
    <3>1. id \in Names
      BY DirsAssumption
    <3> HIDE DEF id
    <3>2. [tree[d] EXCEPT !.has = h, !.id = id] \in Directories
      BY <2>1, <3>1 DEF Directories
    <3> QED
      BY <3>2 DEF id
  <2>3. NewDocuments(d, tree[d]) \subseteq Directories \cup {None}
    <3> DEFINE new(h, i) ==
          [tree[d] EXCEPT !.has = h, !.id = IF h = "status" THEN i ELSE d]
    <3>1. \A h \in Holdings, i \in Names : new(h, i) \in Directories
      BY <2>2
    <3>2. NewDocuments(d, tree[d]) =
            {new(h, i) : h \in Holdings, i \in Names} \cup {None}
      BY DEF NewDocuments
    <3> HIDE DEF new
    <3> QED
      BY <3>1, <3>2
  <2>4. PICK c \in NewDocuments(d, tree[d]) : Pushed(d, c)
    BY <1>1 DEF PushDocuments
  <2> QED
    BY <2>3, <2>4, PushKeeps
<1>2. ASSUME NEW d \in Dirs, NEW t \in Tasks, PushTask(d, t) PROVE RowsIInv'
  <2>1. /\ tree[d] # None /\ tree[d] \in Directories
        /\ head \in Nat
    BY <1>2, TypeParts DEF PushTask, RowsIInv, RowsInv
  <2>2. \A log \in NewFile(tree[d].log[t], head + 2) : log \in Logs \cup {None}
    <3> DEFINE old == tree[d].log[t]
    <3>1. old \in Logs \cup {None}
      BY <2>1 DEF Directories, Files
    <3> HIDE DEF old
    <3>2. <<head + 2>> \in Logs /\ (old # None => Append(old, head + 2) \in Logs)
      BY <2>1, <3>1, AppendProperties DEF Logs
    <3> QED
      BY <3>1, <3>2 DEF NewFile, old
  <2>3. \A log \in Logs \cup {None} :
          [tree[d] EXCEPT !.log[t] = log] \in Directories
    BY <2>1 DEF Directories, Files
  <2> QED
    BY <1>2, <2>2, <2>3, PushKeeps DEF PushTask
<1> QED
  BY <1>1, <1>2, FetchFailsKeeps, FullKeeps, TargetKeeps, TaskKeeps DEF RowsNext

\* What a step of the syncs leaves of the rows.
LEMMA RowsStepKept ==
  ASSUME RowsIInv, RowsNext PROVE RowsKept /\ TasksKept
<1>1. CASE SaveFull
  BY <1>1, FullSaved
<1>2. CASE SaveTarget
  BY <1>2, TargetSaved
<1>3. CASE SaveTask
  BY <1>3, TaskSaved
<1>4. CASE ~(SaveFull \/ SaveTarget \/ SaveTask)
  <2>1. UNCHANGED db
    BY <1>4 DEF RowsNext, PushDocuments, PushTask, Pushed, FetchFails, FetchFull,
                RecordFull, FailFull, FetchTarget, RecordTarget, FailTarget,
                FetchTask, RecordTask, FailTask
  <2> QED
    BY <2>1, NothingSaved
<1> QED
  BY <1>1, <1>2, <1>3, <1>4

\* That is what OnlyKnownRemovals says of the step.
LEMMA StepRemoves ==
  ASSUME RowsKept, TasksKept
  PROVE  \A n \in Names :
           /\ db.row[n] # 0 => db'.row[n] = db.row[n] \/ GoneFromGit(n)
           /\ \A t \in Tasks :
                db.task[n][t] # None =>
                  \/ /\ db'.task[n][t] # None
                     /\ Len(db'.event[n][t]) = Len(db.event[n][t])
                  \/ GoneFromGit(n)
                  \/ SavedWithout(n, t)
  BY DEF RowsKept, TasksKept, RowStays, TaskStays, Dropped

=============================================================================
