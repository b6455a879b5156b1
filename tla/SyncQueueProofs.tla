-------------------------- MODULE SyncQueueProofs --------------------------
(***************************************************************************)
(* Proofs about SyncQueue for every set of keys, number of slots, retry    *)
(* limit and number of events.                                             *)
(***************************************************************************)
EXTENDS SyncQueue, TLAPS

\* The drain's plans are sequences of queue states.
LEMMA PlansType == DrainPlans \subseteq Seq(QueueNames \X DrainStates)
<1>1. \A q \in QueueNames : PlanOf(q) \in Seq(QueueNames \X DrainStates)
  BY DEF PlanOf, DrainStates
<1>2. <<>> \in Seq(QueueNames \X DrainStates)
  OBVIOUS
<1>3. \A p, q \in Seq(QueueNames \X DrainStates) :
         p \o q \in Seq(QueueNames \X DrainStates)
  OBVIOUS
<1> QED
  BY <1>1, <1>2, <1>3 DEF DrainPlans, QueueNames

\* Removing jobs keeps the types of what it changes.
LEMMA RemoveType ==
  ASSUME TypeOK, NEW S, Remove(S)
  PROVE  /\ state' \in [Jobs -> JobStates]
         /\ tries' \in [Jobs -> 0..MaxRetry]
         /\ lock' \in [TaskKeys -> Copies \cup {Free}]
BY BoundsAssumption DEF TypeOK, Remove, JobStates

\* So do enqueueing and asynq's answer to an error.
LEMMA EnqueueType ==
  ASSUME TypeOK, NEW k \in Keys, Enqueue(k)
  PROVE  /\ state' \in [Jobs -> JobStates]
         /\ tries' \in [Jobs -> 0..MaxRetry]
         /\ lock' \in [TaskKeys -> Copies \cup {Free}]
<1>1. CASE k \in TaskKeys
  BY <1>1 DEF TypeOK, Enqueue, EnqueueUnique, JobStates
<1>2. CASE k \notin TaskKeys
  BY <1>2 DEF TypeOK, Enqueue, EnqueueWithTaskID, JobStates
<1> QED BY <1>1, <1>2

LEMMA RetryType ==
  ASSUME TypeOK, NEW j \in Jobs, RetryOrArchive(j)
  PROVE  /\ state' \in [Jobs -> JobStates]
         /\ tries' \in [Jobs -> 0..MaxRetry]
         /\ lock' \in [TaskKeys -> Copies \cup {Free}]
BY BoundsAssumption DEF TypeOK, RetryOrArchive, JobStates

LEMMA EndAttemptType ==
  ASSUME TypeOK, NEW j \in Jobs, EndAttempt(j)
  PROVE  /\ step' \in [Jobs -> Steps]
         /\ got' \in [Jobs -> [Branches -> Nat]]
        /\ listed' \in [Jobs -> SUBSET Jobs]
BY DEF TypeOK, EndAttempt, Steps, Nothing

----------------------------------------------------------------------------
\* Every step keeps the type invariant.
LEMMA TypeStep == TypeOK /\ [Next]_vars => TypeOK'
<1> SUFFICES ASSUME TypeOK, [Next]_vars
             PROVE  TypeOK'
  OBVIOUS
<1> USE BoundsAssumption
<1>1. CASE UNCHANGED vars
  BY <1>1 DEF vars, TypeOK
<1>2. ASSUME NEW b \in Branches, Push(b)
      PROVE  TypeOK'
  BY <1>2 DEF TypeOK, Push, Event, jobVars
<1>3. ASSUME NEW h \in hooks, LoseHook(h)
      PROVE  TypeOK'
  BY <1>3 DEF TypeOK, LoseHook, jobVars
<1>4. ASSUME NEW b \in Branches, NEW v \in 1..head[b], Redeliver(b, v)
      PROVE  TypeOK'
  BY <1>4 DEF TypeOK, Redeliver, Event, jobVars
<1>5. ASSUME NEW h \in hooks, Webhook(h)
      PROVE  TypeOK'
  <2>1. h[1] \in Branches /\ h[2] \in Nat
    BY DEF TypeOK
  <2>2. h[1] \in Keys
    BY <2>1 DEF Branches, Keys, WsKeys
  <2>3. Enqueue(h[1])
    BY <1>5 DEF Webhook
  <2>4. accepted' \in [Branches -> Nat]
    BY <1>5, <2>1 DEF Webhook, Larger, TypeOK
  <2> QED BY <1>5, <2>2, <2>3, <2>4, EnqueueType DEF Webhook, TypeOK
<1>6. ASSUME NEW k \in FullKeys, SyncWorkspace(k)
      PROVE  TypeOK'
  <2>1. k \in Keys /\ k \notin TaskKeys
    BY KeysAssumption DEF Keys, WsKeys
  <2>2. Enqueue(k)
    BY <1>6, <2>1 DEF SyncWorkspace, Enqueue
  <2>3. accepted' \in [Branches -> Nat]
    BY <1>6 DEF SyncWorkspace, TypeOK
  <2>4. events' \in 0..MaxEvents
    BY <1>6 DEF SyncWorkspace, Event, TypeOK
  <2> QED BY <1>6, <2>1, <2>2, <2>3, <2>4, EnqueueType DEF SyncWorkspace, TypeOK
<1>7. ASSUME NEW j \in Jobs, Dequeue(j)
      PROVE  TypeOK'
  BY <1>7 DEF Dequeue, TypeOK, JobStates, Steps
<1>8. ASSUME NEW j \in Jobs, Attempt(j)
      PROVE  TypeOK'
  <2>1. CASE Refuse(j)
    BY <2>1, EndAttemptType DEF Refuse, TypeOK, JobStates
  <2>2. ASSUME NEW t \in Jobs, DeleteListed(j, t)
        PROVE  TypeOK'
    <3>1. listed' \in [Jobs -> SUBSET Jobs]
      BY <2>2 DEF DeleteListed, TypeOK
    <3> QED BY <2>2, <3>1, RemoveType DEF DeleteListed, TypeOK
  <2>3. CASE ListPendingTasks(j)
    <3>1. listed' \in [Jobs -> SUBSET Jobs] /\ step' \in [Jobs -> Steps]
      BY <2>3 DEF ListPendingTasks, TypeOK, Steps
    <3> QED BY <2>3, <3>1 DEF ListPendingTasks, TypeOK
  <2>4. CASE Fetch(j)
    BY <2>4 DEF Fetch, TypeOK, Steps
  <2>5. CASE Save(j)
    BY <2>5 DEF Save, TypeOK, Steps, Larger
  <2>6. CASE Complete(j)
    BY <2>6, RemoveType, EndAttemptType DEF Complete, TypeOK
  <2>7. CASE Fail(j)
    BY <2>7, RetryType, EndAttemptType DEF Fail, TypeOK
  <2> QED BY <1>8, <2>1, <2>2, <2>3, <2>4, <2>5, <2>6, <2>7 DEF Attempt
<1>9. ASSUME NEW j \in Jobs, Forward(j)
      PROVE  TypeOK'
  BY <1>9 DEF Forward, TypeOK, JobStates
<1>10. ASSUME NEW j \in Jobs, Recover(j)
       PROVE  TypeOK'
  BY <1>10, RetryType, EndAttemptType DEF Recover, TypeOK
<1>11. CASE Crash
  BY <1>11 DEF Crash, Event, TypeOK, Steps, Nothing
<1>12. CASE Stop
  BY <1>12 DEF Stop, Event, TypeOK, Steps, JobStates, Nothing
<1>13. CASE Start
  BY <1>13, PlansType DEF Start, TypeOK, jobVars
<1>14. CASE DrainStep
  <2>1. drain' \in Seq(QueueNames \X DrainStates)
    BY <1>14 DEF DrainStep, TypeOK
  <2>2. /\ state' \in [Jobs -> JobStates]
        /\ tries' \in [Jobs -> 0..MaxRetry]
        /\ lock' \in [TaskKeys -> Copies \cup {Free}]
    BY <1>14, RemoveType DEF DrainStep, TypeOK
  <2> QED BY <1>14, <2>1, <2>2 DEF DrainStep, TypeOK
<1>15. ASSUME NEW j \in Jobs, Cleanup(j)
       PROVE  TypeOK'
  BY <1>15, RemoveType DEF Cleanup, TypeOK
<1>16. ASSUME NEW k \in TaskKeys, LockExpires(k)
       PROVE  TypeOK'
  BY <1>16 DEF LockExpires, Event, TypeOK
<1> QED
  BY <1>1, <1>2, <1>3, <1>4, <1>5, <1>6, <1>7, <1>8, <1>9, <1>10, <1>11,
     <1>12, <1>13, <1>14, <1>15, <1>16 DEF Next

----------------------------------------------------------------------------
\* Every step keeps asynq's state and the attempts in agreement.
LEMMA ActiveStep ==
  TypeOK /\ ActiveHasAttempt /\ [Next]_vars => ActiveHasAttempt'
<1> SUFFICES ASSUME TypeOK, ActiveHasAttempt, [Next]_vars
             PROVE  ActiveHasAttempt'
  OBVIOUS
<1> USE DEF ActiveHasAttempt
<1>1. CASE UNCHANGED <<state, step>>
  BY <1>1
<1>2. ASSUME NEW h \in hooks, Webhook(h)
      PROVE  ActiveHasAttempt'
  <2>1. step' = step
    BY <1>2 DEF Webhook
  <2>2. CASE h[1] \in TaskKeys
    BY <1>2, <2>1, <2>2 DEF Webhook, Enqueue, EnqueueUnique, TypeOK
  <2>3. CASE h[1] \notin TaskKeys
    <3>1. state' = [state EXCEPT ![<<h[1], Free>>] =
                      IF @ = "none" THEN "pending" ELSE @]
      BY <1>2, <2>3 DEF Webhook, Enqueue, EnqueueWithTaskID
    <3>2. \A j \in Jobs : \/ state'[j] = state[j]
                          \/ state[j] = "none" /\ state'[j] = "pending"
      BY <3>1 DEF TypeOK
    <3> QED BY <2>1, <3>2
  <2> QED BY <2>2, <2>3
<1>3. ASSUME NEW k \in FullKeys, SyncWorkspace(k)
      PROVE  ActiveHasAttempt'
  <2>1. step' = step
    BY <1>3 DEF SyncWorkspace
  <2> QED BY <1>3, <2>1 DEF SyncWorkspace, EnqueueWithTaskID, TypeOK
<1>4. ASSUME NEW j \in Jobs, Dequeue(j)
      PROVE  ActiveHasAttempt'
  BY <1>4 DEF Dequeue, TypeOK
<1>5. ASSUME NEW j \in Jobs, Attempt(j)
      PROVE  ActiveHasAttempt'
  <2>1. CASE Refuse(j)
    BY <2>1 DEF Refuse, EndAttempt, TypeOK
  <2>2. ASSUME NEW t \in Jobs, DeleteListed(j, t)
        PROVE  ActiveHasAttempt'
    BY <2>2 DEF DeleteListed, Remove, TypeOK
  <2>3. CASE ListPendingTasks(j)
    BY <2>3 DEF ListPendingTasks, TypeOK
  <2>4. CASE Fetch(j)
    BY <2>4 DEF Fetch, TypeOK
  <2>5. CASE Save(j)
    BY <2>5 DEF Save, TypeOK
  <2>6. CASE Complete(j)
    BY <2>6 DEF Complete, Remove, EndAttempt, TypeOK
  <2>7. CASE Fail(j)
    BY <2>7 DEF Fail, RetryOrArchive, EndAttempt, TypeOK
  <2> QED BY <1>5, <2>1, <2>2, <2>3, <2>4, <2>5, <2>6, <2>7 DEF Attempt
<1>6. ASSUME NEW j \in Jobs, Forward(j)
      PROVE  ActiveHasAttempt'
  BY <1>6 DEF Forward, TypeOK
<1>7. ASSUME NEW j \in Jobs, Recover(j)
      PROVE  ActiveHasAttempt'
  BY <1>7 DEF Recover, RetryOrArchive, EndAttempt, TypeOK
<1>8. CASE Crash
  BY <1>8 DEF Crash, Running, RunningSteps, TypeOK
<1>9. CASE Stop
  BY <1>9 DEF Stop, Running, RunningSteps, TypeOK
<1>10. CASE DrainStep
  <2>1. Head(drain)[2] \in DrainStates
    BY <1>10 DEF DrainStep, TypeOK
  <2> QED
    BY <1>10, <2>1 DEF DrainStep, Drained, DrainStates, Remove, TypeOK
<1>11. ASSUME NEW j \in Jobs, Cleanup(j)
       PROVE  ActiveHasAttempt'
  BY <1>11 DEF Cleanup, Remove, TypeOK
<1>12. ASSUME \/ \E b \in Branches : Push(b)
              \/ \E h \in hooks : LoseHook(h)
              \/ \E b \in Branches : \E v \in 1..head[b] : Redeliver(b, v)
              \/ Start
              \/ \E k \in TaskKeys : LockExpires(k)
       PROVE  ActiveHasAttempt'
  BY <1>1, <1>12 DEF Push, LoseHook, Redeliver, Start, LockExpires, jobVars
<1> QED
  BY <1>1, <1>2, <1>3, <1>4, <1>5, <1>6, <1>7, <1>8, <1>9, <1>10, <1>11, <1>12
     DEF Next, vars

----------------------------------------------------------------------------
\* A removal releases the locks of what it removes.
LEMMA RemoveLock ==
  ASSUME TypeOK, LockHeldByJob, NEW S, Remove(S)
  PROVE  LockHeldByJob'
<1> SUFFICES ASSUME NEW k \in TaskKeys, lock'[k] # Free
             PROVE  state'[<<k, lock'[k]>>] # "none"
  BY DEF LockHeldByJob
<1>1. lock'[k] = lock[k] /\ <<k, lock[k]>> \notin S
  BY DEF Remove
<1>2. <<k, lock[k]>> \in Jobs
  BY <1>1 DEF TypeOK, Jobs
<1> QED BY <1>1, <1>2 DEF Remove, LockHeldByJob

\* A step that frees no job and takes no lock keeps the locks held.
LEMMA LockKept ==
  ASSUME TypeOK, LockHeldByJob,
         \A k \in TaskKeys : lock'[k] \in {lock[k], Free},
         \A j \in Jobs : state[j] # "none" => state'[j] # "none"
  PROVE  LockHeldByJob'
<1> SUFFICES ASSUME NEW k \in TaskKeys, lock'[k] # Free
             PROVE  state'[<<k, lock'[k]>>] # "none"
  BY DEF LockHeldByJob
<1>1. lock'[k] = lock[k] /\ <<k, lock[k]>> \in Jobs
  BY DEF TypeOK, Jobs
<1> QED BY <1>1 DEF LockHeldByJob

\* Every step leaves each Unique lock with a job that exists.
LEMMA LockStep == TypeOK /\ LockHeldByJob /\ [Next]_vars => LockHeldByJob'
<1> SUFFICES ASSUME TypeOK, LockHeldByJob, [Next]_vars
             PROVE  LockHeldByJob'
  OBVIOUS
<1>1. CASE UNCHANGED <<state, lock>>
  BY <1>1 DEF LockHeldByJob
<1>2. ASSUME NEW h \in hooks, Webhook(h)
      PROVE  LockHeldByJob'
  <2>1. CASE h[1] \in TaskKeys /\ lock[h[1]] = Free
    <3>1. PICK c \in Copies :
             /\ state' = [state EXCEPT ![<<h[1], c>>] = "pending"]
             /\ lock' = [lock EXCEPT ![h[1]] = c]
      BY <1>2, <2>1 DEF Webhook, Enqueue, EnqueueUnique
    <3> SUFFICES ASSUME NEW k \in TaskKeys, lock'[k] # Free
                 PROVE  state'[<<k, lock'[k]>>] # "none"
      BY DEF LockHeldByJob
    <3>2. CASE k = h[1]
      <4>1. lock'[k] = c /\ <<k, c>> \in Jobs
        BY <2>1, <3>1, <3>2 DEF TypeOK, Jobs
      <4> QED BY <3>1, <3>2, <4>1 DEF TypeOK
    <3>3. CASE k # h[1]
      <4>1. lock'[k] = lock[k] /\ <<k, lock[k]>> \in Jobs
        BY <3>1, <3>3 DEF TypeOK, Jobs
      <4>2. state'[<<k, lock[k]>>] = state[<<k, lock[k]>>]
        BY <3>1, <3>3, <4>1 DEF TypeOK
      <4> QED BY <4>1, <4>2 DEF LockHeldByJob
    <3> QED BY <3>2, <3>3
  <2>2. CASE h[1] \in TaskKeys /\ lock[h[1]] # Free
    BY <1>2, <2>2 DEF Webhook, Enqueue, EnqueueUnique, LockHeldByJob
  <2>3. CASE h[1] \notin TaskKeys
    BY <1>2, <2>3, LockKept DEF Webhook, Enqueue, EnqueueWithTaskID, TypeOK
  <2> QED BY <2>1, <2>2, <2>3
<1>3. ASSUME NEW k \in FullKeys, SyncWorkspace(k)
      PROVE  LockHeldByJob'
  BY <1>3, LockKept DEF SyncWorkspace, EnqueueWithTaskID, TypeOK
<1>4. ASSUME NEW j \in Jobs, Dequeue(j)
      PROVE  LockHeldByJob'
  BY <1>4, LockKept DEF Dequeue, TypeOK
<1>5. ASSUME NEW j \in Jobs, Attempt(j)
      PROVE  LockHeldByJob'
  <2>1. CASE Refuse(j)
    BY <2>1, LockKept DEF Refuse, TypeOK
  <2>2. ASSUME NEW t \in Jobs, DeleteListed(j, t)
        PROVE  LockHeldByJob'
    BY <2>2, RemoveLock DEF DeleteListed
  <2>3. CASE ListPendingTasks(j) \/ Fetch(j) \/ Save(j)
    BY <1>1, <2>3 DEF ListPendingTasks, Fetch, Save
  <2>4. CASE Complete(j)
    BY <2>4, RemoveLock DEF Complete
  <2>5. CASE Fail(j)
    BY <2>5, LockKept DEF Fail, RetryOrArchive, TypeOK
  <2> QED BY <1>5, <2>1, <2>2, <2>3, <2>4, <2>5 DEF Attempt
<1>6. ASSUME NEW j \in Jobs, Forward(j)
      PROVE  LockHeldByJob'
  BY <1>6, LockKept DEF Forward, TypeOK
<1>7. ASSUME NEW j \in Jobs, Recover(j)
      PROVE  LockHeldByJob'
  BY <1>7, LockKept DEF Recover, RetryOrArchive, TypeOK
<1>8. CASE Stop
  BY <1>8, LockKept DEF Stop, TypeOK
<1>9. CASE DrainStep
  BY <1>1, <1>9, RemoveLock DEF DrainStep
<1>10. ASSUME NEW j \in Jobs, Cleanup(j)
       PROVE  LockHeldByJob'
  BY <1>10, RemoveLock DEF Cleanup
<1>11. ASSUME NEW k \in TaskKeys, LockExpires(k)
       PROVE  LockHeldByJob'
  BY <1>11, LockKept DEF LockExpires, TypeOK
<1>12. ASSUME \/ \E b \in Branches : Push(b)
              \/ \E h \in hooks : LoseHook(h)
              \/ \E b \in Branches : \E v \in 1..head[b] : Redeliver(b, v)
              \/ Crash
              \/ Start
       PROVE  LockHeldByJob'
  BY <1>1, <1>12 DEF Push, LoseHook, Redeliver, Crash, Start, jobVars
<1> QED
  BY <1>1, <1>2, <1>3, <1>4, <1>5, <1>6, <1>7, <1>8, <1>9, <1>10, <1>11, <1>12
     DEF Next, vars

----------------------------------------------------------------------------
\* Every step keeps the lists of jobs to delete with the attempts they belong
\* to, and to their workspaces.
LEMMA ListedStep ==
  TypeOK /\ ActiveHasAttempt /\ ListedAreOwn /\ [Next]_vars => ListedAreOwn'
<1> SUFFICES ASSUME TypeOK, ActiveHasAttempt, ListedAreOwn, [Next]_vars
             PROVE  ListedAreOwn'
  OBVIOUS
<1> USE DEF ListedAreOwn
\* Nobody lists more, and who keeps a list goes on clearing.
<1>0. ASSUME \A f \in Jobs : /\ listed'[f] \subseteq listed[f]
                             /\ listed'[f] = {} \/ step'[f] = step[f]
      PROVE  ListedAreOwn'
  BY <1>0
<1>1. CASE UNCHANGED <<step, listed>>
  BY <1>1
<1>2. ASSUME NEW j \in Jobs, EndAttempt(j)
      PROVE  ListedAreOwn'
  BY <1>0, <1>2 DEF EndAttempt, TypeOK
<1>3. ASSUME NEW j \in Jobs, Dequeue(j)
      PROVE  ListedAreOwn'
  <2>1. listed[j] = {}
    BY <1>3 DEF Dequeue, ActiveHasAttempt
  <2> QED BY <1>0, <1>3, <2>1 DEF Dequeue, TypeOK
<1>4. ASSUME NEW j \in Jobs, Attempt(j)
      PROVE  ListedAreOwn'
  <2>1. CASE Refuse(j) \/ Complete(j) \/ Fail(j)
    BY <1>2, <2>1 DEF Refuse, Complete, Fail
  <2>2. ASSUME NEW t \in Jobs, DeleteListed(j, t)
        PROVE  ListedAreOwn'
    BY <1>0, <2>2 DEF DeleteListed, TypeOK
  <2>3. CASE ListPendingTasks(j)
    <3> SUFFICES ASSUME NEW f \in Jobs, NEW t \in listed'[f]
                 PROVE  /\ f[1] \in FullKeys
                        /\ t[1] \in TaskKeys
                        /\ Ws[t[1]] = Ws[f[1]]
                        /\ step'[f] = "clearing"
      OBVIOUS
    <3>1. CASE f # j
      BY <2>3, <3>1 DEF ListPendingTasks, TypeOK
    <3>2. CASE f = j
      BY <2>3, <3>2 DEF ListPendingTasks, TypeOK
    <3> QED BY <3>1, <3>2
  <2>4. CASE Fetch(j)
    BY <2>4 DEF Fetch, TypeOK
  <2>5. CASE Save(j)
    BY <2>5 DEF Save, TypeOK
  <2> QED BY <1>4, <2>1, <2>2, <2>3, <2>4, <2>5 DEF Attempt
<1>5. ASSUME NEW j \in Jobs, Recover(j)
      PROVE  ListedAreOwn'
  BY <1>2, <1>5 DEF Recover
<1>6. CASE Crash \/ Stop
  BY <1>6 DEF Crash, Stop
<1>7. ASSUME \/ \E b \in Branches : Push(b)
             \/ \E h \in hooks : LoseHook(h) \/ Webhook(h)
             \/ \E b \in Branches : \E v \in 1..head[b] : Redeliver(b, v)
             \/ \E k \in FullKeys : SyncWorkspace(k)
             \/ \E j \in Jobs : Forward(j) \/ Cleanup(j)
             \/ Start
             \/ DrainStep
             \/ \E k \in TaskKeys : LockExpires(k)
      PROVE  ListedAreOwn'
  BY <1>1, <1>7 DEF Push, LoseHook, Webhook, Redeliver, SyncWorkspace, Forward,
     Cleanup, Start, DrainStep, LockExpires, jobVars
<1> QED
  BY <1>1, <1>3, <1>4, <1>5, <1>6, <1>7 DEF Next, vars

----------------------------------------------------------------------------
\* Every step keeps the versions anyone holds within what GitHub has.
LEMMA VersionsStep == TypeOK /\ VersionsExist /\ [Next]_vars => VersionsExist'
<1> SUFFICES ASSUME TypeOK, VersionsExist, [Next]_vars
             PROVE  VersionsExist'
  OBVIOUS
<1> USE DEF VersionsExist
<1>1. CASE UNCHANGED <<got, head, hooks, accepted, seen>>
  BY <1>1
<1>2. ASSUME NEW b \in Branches, Push(b)
      PROVE  VersionsExist'
  <2>1. /\ head' \in [Branches -> Nat]
        /\ \A a \in Branches : head'[a] >= head[a]
        /\ head'[b] = head[b] + 1
    BY <1>2 DEF Push, TypeOK
  <2>2. \A h \in hooks' : h[2] <= head'[h[1]]
    <3> SUFFICES ASSUME NEW h \in hooks'
                 PROVE  h[2] <= head'[h[1]]
      OBVIOUS
    <3>1. CASE h \in hooks
      <4>1. h[1] \in Branches /\ h[2] \in Nat
        BY <3>1 DEF TypeOK
      <4> QED BY <2>1, <3>1, <4>1 DEF TypeOK
    <3>2. CASE h = <<b, head[b] + 1>>
      BY <2>1, <3>2
    <3> QED BY <1>2, <3>1, <3>2 DEF Push
  <2>3. \A a \in Branches : accepted'[a] <= head'[a] /\ seen'[a] <= head'[a]
    BY <1>2, <2>1 DEF Push, TypeOK
  <2>4. \A j \in Jobs : \A a \in Branches : got'[j][a] <= head'[a]
    BY <1>2, <2>1 DEF Push, TypeOK, jobVars
  <2> QED BY <2>2, <2>3, <2>4
<1>3. ASSUME NEW h \in hooks, LoseHook(h)
      PROVE  VersionsExist'
  BY <1>3 DEF LoseHook, jobVars
<1>4. ASSUME NEW b \in Branches, NEW v \in 1..head[b], Redeliver(b, v)
      PROVE  VersionsExist'
  BY <1>4 DEF Redeliver, jobVars, TypeOK
<1>5. ASSUME NEW h \in hooks, Webhook(h)
      PROVE  VersionsExist'
  <2>1. h[1] \in Branches /\ h[2] \in Nat
    BY DEF TypeOK
  <2>2. \A b \in Branches : accepted'[b] <= head[b]
    BY <1>5, <2>1 DEF Webhook, Larger, TypeOK
  <2> QED BY <1>5, <2>2 DEF Webhook
<1>6. ASSUME NEW k \in FullKeys, SyncWorkspace(k)
      PROVE  VersionsExist'
  BY <1>6 DEF SyncWorkspace, TypeOK
<1>7. ASSUME NEW j \in Jobs, EndAttempt(j),
             UNCHANGED <<head, hooks, accepted, seen>>
      PROVE  VersionsExist'
  <2>1. \A i \in Jobs : \A b \in Branches : got'[i][b] <= head[b]
    BY <1>7 DEF EndAttempt, Nothing, TypeOK
  <2> QED BY <1>7, <2>1
<1>8. ASSUME NEW j \in Jobs, Attempt(j)
      PROVE  VersionsExist'
  <2>1. CASE Refuse(j) \/ Complete(j) \/ Fail(j)
    BY <1>7, <2>1 DEF Refuse, Complete, Fail
  <2>2. ASSUME NEW t \in Jobs, DeleteListed(j, t)
        PROVE  VersionsExist'
    BY <1>1, <2>2 DEF DeleteListed
  <2>3. CASE ListPendingTasks(j)
    BY <1>1, <2>3 DEF ListPendingTasks
  <2>4. CASE Fetch(j)
    BY <2>4 DEF Fetch, TypeOK
  <2>5. CASE Save(j)
    BY <2>5 DEF Save, Larger, TypeOK
  <2> QED BY <1>8, <2>1, <2>2, <2>3, <2>4, <2>5 DEF Attempt
<1>9. ASSUME NEW j \in Jobs, Recover(j)
      PROVE  VersionsExist'
  BY <1>7, <1>9 DEF Recover
<1>10. CASE Crash \/ Stop
  BY <1>10 DEF Crash, Stop, Nothing, TypeOK
<1>11. ASSUME \/ \E j \in Jobs : Dequeue(j) \/ Forward(j) \/ Cleanup(j)
              \/ Start
              \/ DrainStep
              \/ \E k \in TaskKeys : LockExpires(k)
       PROVE  VersionsExist'
  BY <1>1, <1>11
     DEF Dequeue, Forward, Cleanup, Start, DrainStep, LockExpires, jobVars
<1> QED
  BY <1>1, <1>2, <1>3, <1>4, <1>5, <1>6, <1>8, <1>9, <1>10, <1>11
     DEF Next, vars, jobVars

----------------------------------------------------------------------------
\* The initial state satisfies the inductive invariant.
LEMMA InitInv == Init => Inv
<1> SUFFICES ASSUME Init
             PROVE  Inv
  OBVIOUS
<1>1. TypeOK
  BY BoundsAssumption DEF Init, TypeOK, JobStates, Steps, Nothing
<1>2. ActiveHasAttempt /\ LockHeldByJob /\ ListedAreOwn
  BY DEF Init, ActiveHasAttempt, LockHeldByJob, ListedAreOwn
<1>3. VersionsExist
  BY DEF Init, VersionsExist, Nothing
<1> QED BY <1>1, <1>2, <1>3 DEF Inv

\* The inductive invariant holds in every reachable state: types, the
\* agreement of asynq's states with the attempts, held locks, lists of jobs to
\* delete and versions.
THEOREM InvHolds == Spec => []Inv
<1>1. Init => Inv
  BY InitInv
<1>2. Inv /\ [Next]_vars => Inv'
  BY TypeStep, ActiveStep, LockStep, ListedStep, VersionsStep DEF Inv
<1> QED BY <1>1, <1>2, PTL DEF Spec

\* A Unique lock never outlives the job that took it.
THEOREM LockHolds == Spec => []LockHeldByJob
<1>1. Inv => LockHeldByJob
  BY DEF Inv
<1> QED BY <1>1, InvHolds, PTL

----------------------------------------------------------------------------
\* If every job that serves b goes on serving it, or the database catches up,
\* b is not newly unserved.
LEMMA StillServed ==
  ASSUME TypeOK, NEW b \in Branches,
         accepted'[b] = accepted[b], seen'[b] >= seen[b], seen'[b] \in Nat,
         \A j \in Jobs : Serves(j, b) => Serves(j, b)' \/ accepted'[b] <= seen'[b]
  PROVE  ~Unserved(b) => ~Unserved(b)'
BY DEF Unserved, TypeOK

\* A job that is not removed or archived and whose attempt has not moved past
\* its fetch goes on serving what it served.
LEMMA ServesKept ==
  ASSUME NEW b \in Branches, NEW j \in Jobs, Serves(j, b),
         state'[j] \notin {"none", "archived"}, accepted'[b] = accepted[b],
         \/ step'[j] \in {"idle", "start", "clearing", "cleared", "lost"}
         \/ step'[j] = step[j] /\ got'[j] = got[j]
  PROVE  Serves(j, b)'
BY DEF Serves

\* Removing jobs takes b's last chance only if one of them served it.
LEMMA RemovedServer ==
  ASSUME TypeOK, NEW b \in Branches, NEW S, Remove(S),
         UNCHANGED <<accepted, seen>>,
         \A j \in Jobs \ S : step'[j] = step[j] /\ got'[j] = got[j],
         ~Unserved(b), Unserved(b)'
  PROVE  \E j \in Jobs : j \in S /\ Serves(j, b)
<1> SUFFICES ASSUME \A j \in Jobs : Serves(j, b) => j \notin S
             PROVE  FALSE
  OBVIOUS
<1>1. ASSUME NEW j \in Jobs, Serves(j, b)
      PROVE  Serves(j, b)'
  <2>1. j \notin S /\ state[j] \notin {"none", "archived"}
    BY <1>1 DEF Serves
  <2>2. state'[j] \notin {"none", "archived"}
    BY <2>1 DEF Remove
  <2> QED BY <1>1, <2>1, <2>2, ServesKept
<1>2. seen'[b] >= seen[b] /\ seen'[b] \in Nat
  BY DEF TypeOK
<1> QED BY <1>1, <1>2, StillServed

\* Enqueueing key k adds a pending job of k or nothing, and then a job of k
\* is there with which the event is merged.
LEMMA EnqueueLeavesJob ==
  ASSUME Inv, NEW k \in Keys, Enqueue(k)
  PROVE  /\ \A j \in Jobs : state[j] # "none" => state'[j] = state[j]
         /\ \/ \E j \in Jobs : /\ j[1] = k
                               /\ state[j] = "none"
                               /\ state'[j] = "pending"
            \/ /\ state' = state
               /\ \E j \in Jobs : /\ j[1] = k
                                  /\ state[j] # "none"
                                  /\ k \in TaskKeys => lock[k] = j[2]
<1>1. CASE k \notin TaskKeys
  <2>1. <<k, Free>> \in Jobs
    BY <1>1 DEF Jobs, Keys
  <2>2. state' = [state EXCEPT ![<<k, Free>>] =
                    IF @ = "none" THEN "pending" ELSE @]
    BY <1>1 DEF Enqueue, EnqueueWithTaskID
  <2>3. \A j \in Jobs : state[j] # "none" => state'[j] = state[j]
    BY <2>2 DEF Inv, TypeOK
  <2>4. CASE state[<<k, Free>>] = "none"
    <3>1. state'[<<k, Free>>] = "pending"
      BY <2>1, <2>2, <2>4 DEF Inv, TypeOK
    <3> QED BY <2>1, <2>3, <2>4, <3>1
  <2>5. CASE state[<<k, Free>>] # "none"
    <3>1. state' = state
      BY <2>2, <2>5 DEF Inv, TypeOK
    <3> QED BY <1>1, <2>1, <2>5, <3>1
  <2> QED BY <2>4, <2>5
<1>2. CASE k \in TaskKeys /\ lock[k] # Free
  <2>1. state' = state
    BY <1>2 DEF Enqueue, EnqueueUnique
  <2>2. <<k, lock[k]>> \in Jobs
    BY <1>2 DEF Inv, TypeOK, Jobs
  <2>3. state[<<k, lock[k]>>] # "none"
    BY <1>2 DEF Inv, LockHeldByJob
  <2> QED BY <2>1, <2>2, <2>3
<1>3. CASE k \in TaskKeys /\ lock[k] = Free
  <2>1. PICK c \in Copies : /\ state[<<k, c>>] = "none"
                            /\ state' = [state EXCEPT ![<<k, c>>] = "pending"]
    BY <1>3 DEF Enqueue, EnqueueUnique
  <2>2. <<k, c>> \in Jobs
    BY <1>3 DEF Jobs
  <2>3. state'[<<k, c>>] = "pending"
    BY <2>1, <2>2 DEF Inv, TypeOK
  <2>4. \A j \in Jobs : state[j] # "none" => state'[j] = state[j]
    BY <2>1 DEF Inv, TypeOK
  <2> QED BY <2>1, <2>2, <2>3, <2>4
<1> QED BY <1>1, <1>2, <1>3

\* Enqueueing key k takes nothing from a branch for which nothing new was
\* accepted.
LEMMA EnqueueKeeps ==
  ASSUME Inv, NEW k \in Keys, Enqueue(k), NEW b \in Branches,
         UNCHANGED <<step, got, seen>>, accepted'[b] = accepted[b]
  PROVE  ~Unserved(b) => ~Unserved(b)'
<1>1. ASSUME NEW j \in Jobs, Serves(j, b)
      PROVE  Serves(j, b)'
  <2>1. state'[j] \notin {"none", "archived"}
    BY <1>1, EnqueueLeavesJob DEF Serves
  <2> QED BY <1>1, <2>1, ServesKept
<1>2. seen'[b] >= seen[b] /\ seen'[b] \in Nat
  BY DEF Inv, TypeOK
<1> QED BY <1>1, <1>2, StillServed DEF Inv

\* After key k was enqueued, a branch it covers has a job that will fetch it,
\* unless the event was merged with a job past its fetch or archived, or
\* accepted nothing new.
LEMMA EnqueueServes ==
  ASSUME Inv, NEW k \in Keys, Enqueue(k), NEW b \in Branches, b \in Covers(k),
         UNCHANGED <<step, got, seen>>,
         accepted'[b] \in Nat, accepted'[b] >= accepted[b],
         ~Unserved(b), Unserved(b)'
  PROVE  MergedTooLate(b) \/ MergedWithArchived(b)
<1>1. CASE accepted'[b] = accepted[b]
  BY <1>1, EnqueueKeeps
<1>2. CASE accepted'[b] # accepted[b]
  <2>1. accepted'[b] > accepted[b]
    BY <1>2 DEF Inv, TypeOK
  <2>2. ASSUME NEW j \in Jobs, j[1] = k, state[j] = "none",
               state'[j] = "pending"
        PROVE  FALSE
    <3>1. step'[j] = "idle"
      BY <2>2 DEF Inv, ActiveHasAttempt
    <3>2. Serves(j, b)'
      BY <2>2, <3>1 DEF Serves, Covers
    <3> QED BY <3>2 DEF Unserved
  <2>3. PICK j \in Jobs : /\ j[1] = k
                          /\ state' = state
                          /\ state[j] # "none"
                          /\ k \in TaskKeys => lock[k] = j[2]
    BY <2>2, EnqueueLeavesJob
  <2>4. MergedWith(j, b)
    BY <2>1, <2>3 DEF MergedWith
  <2>5. CASE state[j] = "archived"
    BY <2>4, <2>5 DEF MergedWithArchived
  <2>6. CASE state[j] # "archived"
    <3>1. ~Serves(j, b)'
      BY DEF Unserved
    <3>2. step[j] \notin {"idle", "start", "clearing", "cleared", "lost"}
      BY <2>3, <2>6, <3>1 DEF Serves, Covers
    <3>3. step[j] \in {"fetched", "saved"}
      BY <3>2 DEF Inv, TypeOK, Steps
    <3> QED BY <2>4, <3>3 DEF MergedTooLate
  <2> QED BY <2>5, <2>6
<1> QED BY <1>1, <1>2

\* asynq's answer to an error of job j, or to its lost lease, takes b's last
\* chance only if there are no retries left.
LEMMA RetryServes ==
  ASSUME Inv, NEW b \in Branches, NEW j \in Jobs,
         state[j] = "active", RetryOrArchive(j), EndAttempt(j),
         UNCHANGED <<accepted, seen>>, ~Unserved(b), Unserved(b)'
  PROVE  RetriesRanOut(b)
<1> USE DEF Inv
<1>1. PICK i \in Jobs : Serves(i, b) /\ ~Serves(i, b)'
  <2>1. seen'[b] >= seen[b] /\ seen'[b] \in Nat /\ accepted'[b] = accepted[b]
    BY DEF TypeOK
  <2> QED BY <2>1, StillServed
<1>2. /\ \A h \in Jobs \ {j} : state'[h] = state[h] /\ step'[h] = step[h]
                               /\ got'[h] = got[h]
      /\ step'[j] = "idle"
  BY DEF RetryOrArchive, EndAttempt, TypeOK
<1>3. i = j
  <2> SUFFICES ASSUME i # j
               PROVE  FALSE
    OBVIOUS
  <2>1. state'[i] \notin {"none", "archived"}
    BY <1>1, <1>2 DEF Serves
  <2> QED BY <1>1, <1>2, <2>1, ServesKept
<1>4. state'[j] \in {"none", "archived"}
  BY <1>1, <1>2, <1>3, ServesKept
<1>5. state'[j] = "archived" /\ ~(tries[j] < MaxRetry)
  BY <1>4 DEF RetryOrArchive, TypeOK
<1>6. tries[j] = MaxRetry
  BY <1>5, BoundsAssumption DEF TypeOK
<1> QED BY <1>1, <1>3, <1>5, <1>6 DEF RetriesRanOut, Serves

----------------------------------------------------------------------------
\* Every step that takes a branch's last chance does so for a known reason.
LEMMA LossStep == Inv /\ [Next]_vars => LossIsKnown
<1> SUFFICES ASSUME Inv, [Next]_vars,
                    NEW b \in Branches, ~Unserved(b), Unserved(b)'
             PROVE  \/ MergedTooLate(b) \/ MergedWithArchived(b)
                    \/ RetriesRanOut(b) \/ Refused(b) \/ DeletedWaiting(b)
  BY DEF LossIsKnown
<1> USE DEF Inv
\* A step that leaves accepted and seen alone, keeps every job, archives none
\* and only ever resets attempts cannot be such a step.
<1>0. ASSUME UNCHANGED <<accepted, seen>>,
             \A j \in Jobs : state[j] \notin {"none", "archived"} =>
                             state'[j] \notin {"none", "archived"},
             \A j \in Jobs :
               \/ step'[j] \in {"idle", "start", "clearing", "cleared", "lost"}
               \/ step'[j] = step[j] /\ got'[j] = got[j]
      PROVE  FALSE
  <2>1. \A j \in Jobs : Serves(j, b) => Serves(j, b)'
    BY <1>0, ServesKept DEF Serves
  <2>2. seen'[b] >= seen[b] /\ seen'[b] \in Nat
    BY <1>0 DEF TypeOK
  <2> QED BY <1>0, <2>1, <2>2, StillServed
<1>1. CASE UNCHANGED vars
  BY <1>0, <1>1 DEF vars
<1>2. ASSUME \/ \E a \in Branches : Push(a)
             \/ \E h \in hooks : LoseHook(h)
             \/ \E a \in Branches : \E v \in 1..head[a] : Redeliver(a, v)
             \/ Start
             \/ \E k \in TaskKeys : LockExpires(k)
      PROVE  FALSE
  <2>1. UNCHANGED <<state, step, got, accepted, seen>>
    BY <1>2 DEF Push, LoseHook, Redeliver, Start, LockExpires, jobVars
  <2> QED BY <1>0, <2>1
<1>3. ASSUME NEW h \in hooks, Webhook(h)
      PROVE  MergedTooLate(b) \/ MergedWithArchived(b)
  <2>1. h[1] \in Branches /\ h[2] \in Nat /\ h[1] \in Keys
    BY DEF TypeOK, Branches, Keys, WsKeys
  <2>2. Enqueue(h[1]) /\ UNCHANGED <<step, got, seen>>
    BY <1>3 DEF Webhook
  <2>3. CASE b = h[1]
    <3>1. b \in Covers(h[1])
      BY <2>3, KeysAssumption DEF Covers
    <3>2. accepted'[b] \in Nat /\ accepted'[b] >= accepted[b]
      BY <1>3, <2>1 DEF Webhook, Larger, TypeOK
    <3> QED BY <2>1, <2>2, <3>1, <3>2, EnqueueServes
  <2>4. CASE b # h[1]
    <3>1. accepted'[b] = accepted[b]
      BY <1>3, <2>4 DEF Webhook, TypeOK
    <3> QED BY <2>1, <2>2, <3>1, EnqueueKeeps
  <2> QED BY <2>3, <2>4
<1>4. ASSUME NEW k \in FullKeys, SyncWorkspace(k)
      PROVE  MergedTooLate(b) \/ MergedWithArchived(b)
  <2>1. k \in Keys /\ k \notin TaskKeys
    BY KeysAssumption DEF Keys, WsKeys
  <2>2. Enqueue(k) /\ UNCHANGED <<step, got, seen>>
    BY <1>4, <2>1 DEF SyncWorkspace, Enqueue
  <2>3. CASE b \in Covers(k)
    <3>1. accepted'[b] \in Nat /\ accepted'[b] >= accepted[b]
      BY <1>4, <2>3 DEF SyncWorkspace, TypeOK, VersionsExist
    <3> QED BY <2>1, <2>2, <2>3, <3>1, EnqueueServes
  <2>4. CASE b \notin Covers(k)
    <3>1. accepted'[b] = accepted[b]
      BY <1>4, <2>4 DEF SyncWorkspace
    <3> QED BY <2>1, <2>2, <3>1, EnqueueKeeps
  <2> QED BY <2>3, <2>4
<1>5. ASSUME NEW j \in Jobs, Dequeue(j)
      PROVE  FALSE
  BY <1>0, <1>5 DEF Dequeue, TypeOK
<1>6. ASSUME NEW j \in Jobs, Attempt(j)
      PROVE  RetriesRanOut(b) \/ Refused(b) \/ DeletedWaiting(b)
  <2>1. CASE Refuse(j)
    <3>1. PICK i \in Jobs : Serves(i, b) /\ ~Serves(i, b)'
      <4>1. /\ seen'[b] >= seen[b] /\ seen'[b] \in Nat
            /\ accepted'[b] = accepted[b]
        BY <2>1 DEF Refuse, TypeOK
      <4> QED BY <4>1, StillServed
    <3>2. CASE i = j
      BY <2>1, <3>1, <3>2 DEF Refuse, Refused, Serves, TypeOK
    <3>3. CASE i # j
      <4>1. UNCHANGED <<state[i], step[i], got[i], accepted[b]>>
        BY <2>1, <3>3 DEF Refuse, EndAttempt, TypeOK
      <4>2. state'[i] \notin {"none", "archived"}
        BY <3>1, <4>1 DEF Serves
      <4> QED BY <3>1, <4>1, <4>2, ServesKept
    <3> QED BY <3>2, <3>3
  <2>2. ASSUME NEW t \in Jobs, DeleteListed(j, t)
        PROVE  DeletedWaiting(b)
    <3>1. PICK i \in Jobs : i \in {t} /\ Serves(i, b)
      BY <2>2, RemovedServer DEF DeleteListed
    <3>2. state[t] \in {"pending", "retry"} /\ state'[t] = "none"
      BY <2>2, <3>1 DEF DeleteListed, Remove, Serves
    <3>3. t \in listed[j] /\ Ws[j[1]] = Ws[t[1]]
      BY <2>2 DEF DeleteListed, ListedAreOwn
    <3> QED BY <3>1, <3>2, <3>3 DEF DeletedWaiting, Serves
  <2>3. CASE ListPendingTasks(j)
    <3>1. step' \in [Jobs -> Steps]
          /\ \A i \in Jobs : \/ step'[i] \in {"clearing", "cleared"}
                            \/ step'[i] = step[i]
      BY <2>3 DEF ListPendingTasks, TypeOK, Steps
    <3> QED BY <1>0, <2>3, <3>1 DEF ListPendingTasks
  <2>4. CASE Fetch(j)
    <3>1. \A i \in Jobs : Serves(i, b) => Serves(i, b)'
      <4> SUFFICES ASSUME NEW i \in Jobs, Serves(i, b)
                   PROVE  Serves(i, b)'
        OBVIOUS
      <4>1. CASE i # j
        BY <2>4, <4>1, ServesKept DEF Fetch, TypeOK, Serves
      <4>2. CASE i = j
        <5>1. b \in Covers(j[1]) /\ state[j] \notin {"none", "archived"}
          BY <4>2 DEF Serves
        <5>2. step'[j] = "fetched" /\ got'[j][b] = head[b]
          BY <2>4, <5>1 DEF Fetch, TypeOK
        <5>3. head[b] >= accepted[b]
          BY DEF VersionsExist, TypeOK
        <5> QED BY <2>4, <4>2, <5>1, <5>2, <5>3 DEF Serves, Fetch
      <4> QED BY <4>1, <4>2
    <3>2. seen'[b] >= seen[b] /\ seen'[b] \in Nat /\ accepted'[b] = accepted[b]
      BY <2>4 DEF Fetch, TypeOK
    <3> QED BY <3>1, <3>2, StillServed
  <2>5. CASE Save(j)
    <3>1. /\ seen'[b] \in Nat
          /\ seen'[b] >= seen[b]
          /\ b \in Covers(j[1]) => seen'[b] >= got[j][b]
      BY <2>5 DEF Save, Larger, TypeOK
    <3>2. \A i \in Jobs :
            Serves(i, b) => Serves(i, b)' \/ accepted'[b] <= seen'[b]
      <4> SUFFICES ASSUME NEW i \in Jobs, Serves(i, b)
                   PROVE  Serves(i, b)' \/ accepted'[b] <= seen'[b]
        OBVIOUS
      <4>1. CASE i # j
        BY <2>5, <4>1, ServesKept DEF Save, TypeOK, Serves
      <4>2. CASE i = j
        <5>1. b \in Covers(j[1]) /\ got[j][b] >= accepted[b]
          BY <2>5, <4>2 DEF Serves, Save
        <5>2. accepted'[b] = accepted[b] /\ got[j][b] \in Nat
          BY <2>5 DEF Save, TypeOK
        <5> QED BY <3>1, <5>1, <5>2 DEF TypeOK
      <4> QED BY <4>1, <4>2
    <3>3. accepted'[b] = accepted[b]
      BY <2>5 DEF Save
    <3> QED BY <3>1, <3>2, <3>3, StillServed
  <2>6. CASE Complete(j)
    <3>1. PICK i \in Jobs : i \in {j} /\ Serves(i, b)
      BY <2>6, RemovedServer DEF Complete, EndAttempt, TypeOK
    <3> QED BY <2>6, <3>1 DEF Complete, Serves
  <2>7. CASE Fail(j)
    <3>1. state[j] = "active"
      BY <2>7 DEF Fail, Running, RunningSteps, ActiveHasAttempt
    <3> QED BY <2>7, <3>1, RetryServes DEF Fail
  <2> QED BY <1>6, <2>1, <2>2, <2>3, <2>4, <2>5, <2>6, <2>7 DEF Attempt
<1>7. ASSUME NEW j \in Jobs, Forward(j)
      PROVE  FALSE
  BY <1>0, <1>7 DEF Forward, TypeOK
<1>8. ASSUME NEW j \in Jobs, Recover(j)
      PROVE  RetriesRanOut(b)
  <2>1. state[j] = "active"
    BY <1>8 DEF Recover, ActiveHasAttempt
  <2> QED BY <1>8, <2>1, RetryServes DEF Recover
<1>9. CASE Crash
  <2>1. \A j \in Jobs :
          \/ step'[j] \in {"idle", "start", "clearing", "cleared", "lost"}
          \/ step'[j] = step[j] /\ got'[j] = got[j]
    BY <1>9 DEF Crash, Running, RunningSteps, TypeOK, Steps
  <2> QED BY <1>0, <1>9, <2>1 DEF Crash
<1>10. CASE Stop
  <2>1. \A j \in Jobs :
          \/ step'[j] \in {"idle", "start", "clearing", "cleared", "lost"}
          \/ step'[j] = step[j] /\ got'[j] = got[j]
    BY <1>10 DEF Stop, Running, RunningSteps, TypeOK, Steps
  <2> QED BY <1>0, <1>10, <2>1 DEF Stop
<1>11. CASE DrainStep
  <2>1. CASE Remove(Drained)
    <3>1. PICK j \in Jobs : j \in Drained /\ Serves(j, b)
      BY <1>11, <2>1, RemovedServer DEF DrainStep
    <3>2. Head(drain) \in QueueNames \X DrainStates
      BY <1>11 DEF DrainStep, TypeOK
    <3>3. Head(drain) = <<QueueOf(j), state[j]>>
      BY <3>1, <3>2 DEF Drained
    <3>4. state[j] \in {"pending", "retry"}
      BY <3>1, <3>2, <3>3 DEF DrainStates, Serves
    <3>5. state'[j] = "none"
      BY <2>1, <3>1 DEF Remove
    <3> QED
      BY <1>11, <3>1, <3>3, <3>4, <3>5 DEF DrainStep, DeletedWaiting, Serves
  <2>2. CASE UNCHANGED <<state, tries, lock>>
    BY <1>0, <1>11, <2>2 DEF DrainStep
  <2> QED BY <1>11, <2>1, <2>2 DEF DrainStep
<1>12. ASSUME NEW j \in Jobs, Cleanup(j)
       PROVE  FALSE
  <2>1. PICK i \in Jobs : i \in {j} /\ Serves(i, b)
    BY <1>12, RemovedServer DEF Cleanup
  <2> QED BY <1>12, <2>1 DEF Cleanup, Serves
<1> QED
  BY <1>1, <1>2, <1>3, <1>4, <1>5, <1>6, <1>7, <1>8, <1>9, <1>10, <1>11, <1>12
     DEF Next

\* An acknowledged push loses its last chance of being fetched only by a merge
\* with a job past its fetch or an archived one, by its job failing for good or
\* being refused, or by the deletion of a job that waited for an attempt.
THEOREM LossHolds == Spec => OnlyKnownLoss
<1>1. Inv /\ [Next]_vars => [LossIsKnown]_vars
  BY LossStep
<1> QED BY <1>1, InvHolds, PTL DEF Spec, OnlyKnownLoss

=============================================================================
