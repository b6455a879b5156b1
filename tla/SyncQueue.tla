----------------------------- MODULE SyncQueue -----------------------------
(***************************************************************************)
(* The job queue between the api process (webhook and sync handlers) and   *)
(* the worker process (asynq server, cleanup goroutine), over Redis.       *)
(*                                                                         *)
(* A dedupe KEY names what a job is about:                                 *)
(*   - a full key    : workspace:sync, mode full, of one workspace;        *)
(*   - a base key    : workspace:sync, mode targeted, one feature on the   *)
(*                     default branch;                                     *)
(*   - a feature key : the same on a feature branch;                       *)
(*   - a task key    : task:sync of one task branch.                       *)
(* The first three carry a fixed asynq.TaskID (WorkspaceSyncTaskID), the   *)
(* last asynq.Unique(24h).  A key other than a full key is also the BRANCH *)
(* content a push changes; contents are versions 0, 1, 2, ...  Rows are    *)
(* WorkspaceSync's and SnapshotStore's subject; here `seen' is the newest  *)
(* version a finished save was based on.                                   *)
(***************************************************************************)
EXTENDS Naturals, Sequences, FiniteSets

CONSTANTS
  FullKeys, BaseKeys, FeatureKeys, TaskKeys,
  Ws,            \* the workspace a key belongs to
  Copies,        \* ids of one task key's jobs (bound)
  Concurrency,   \* asynq.Config.Concurrency, shared by both queues
  MaxRetry,      \* asynq.MaxRetry
  MaxEvents      \* pushes, requests, redeliveries, crashes, expiries (bound)

WsKeys   == FullKeys \cup BaseKeys \cup FeatureKeys
Keys     == WsKeys \cup TaskKeys
Branches == BaseKeys \cup FeatureKeys \cup TaskKeys

ASSUME KeysAssumption ==
  /\ FullKeys \cap Branches = {}
  /\ TaskKeys \cap WsKeys = {}
  /\ DOMAIN Ws = Keys
ASSUME BoundsAssumption ==
  /\ Copies \subseteq Nat \ {0}
  /\ Concurrency \in Nat \ {0}
  /\ MaxRetry \in Nat
  /\ MaxEvents \in Nat

Free == 0       \* no job holds the Unique lock

\* A job is a key and a copy.  With a TaskID the key is the job's id; a task
\* job's id is drawn by asynq, and is its copy.
Jobs == (WsKeys \X {Free}) \cup (TaskKeys \X Copies)

VARIABLES
  state,     \* where asynq keeps the job
  tries,     \* asynq's retried count
  step,      \* how far the handler running it has come
  got,       \* the versions that attempt fetched
  listed,    \* the pending task jobs that attempt has still to delete
  lock,      \* the copy that holds a task key's Unique lock
  head,      \* the newest version on the branch, at GitHub
  hooks,     \* push events GitHub has not delivered yet
  accepted,  \* the newest version whose enqueue was reported a success
  seen,      \* the newest version a save was based on
  worker,    \* the worker process
  drain,     \* what the startup drain has still to delete
  events     \* environment events so far

jobVars == <<state, tries, step, got, listed, lock>>
vars == <<state, tries, step, got, listed, lock, head, hooks, accepted, seen,
          worker, drain, events>>

JobStates   == {"none", "pending", "active", "retry", "archived"}
Steps       == {"idle", "start", "clearing", "cleared", "fetched", "saved",
                "lost"}
QueueNames  == {"default", "task-sync"}
DrainStates == {"archived", "retry", "pending"}

Nothing == [b \in Branches |-> 0]

TypeOK ==
  /\ state \in [Jobs -> JobStates]
  /\ tries \in [Jobs -> 0..MaxRetry]
  /\ step \in [Jobs -> Steps]
  /\ got \in [Jobs -> [Branches -> Nat]]
  /\ listed \in [Jobs -> SUBSET Jobs]
  /\ lock \in [TaskKeys -> Copies \cup {Free}]
  /\ head \in [Branches -> Nat]
  /\ hooks \subseteq Branches \X Nat
  /\ accepted \in [Branches -> Nat]
  /\ seen \in [Branches -> Nat]
  /\ worker \in {"up", "down"}
  /\ drain \in Seq(QueueNames \X DrainStates)
  /\ events \in 0..MaxEvents

Init ==
  /\ state = [j \in Jobs |-> "none"]
  /\ tries = [j \in Jobs |-> 0]
  /\ step = [j \in Jobs |-> "idle"]
  /\ got = [j \in Jobs |-> Nothing]
  /\ listed = [j \in Jobs |-> {}]
  /\ lock = [k \in TaskKeys |-> Free]
  /\ head = [b \in Branches |-> 0]
  /\ hooks = {}
  /\ accepted = [b \in Branches |-> 0]
  /\ seen = [b \in Branches |-> 0]
  /\ worker = "down"
  /\ drain = <<>>
  /\ events = 0

----------------------------------------------------------------------------
\* Helpers.

\* The branches whose content a job of key k reads.
Covers(k) ==
  IF k \in FullKeys THEN {b \in BaseKeys : Ws[b] = Ws[k]} ELSE {k}

QueueOf(j) == IF j[1] \in TaskKeys THEN "task-sync" ELSE "default"

Larger(m, n) == IF m > n THEN m ELSE n

RunningSteps == {"start", "clearing", "cleared", "fetched", "saved"}
Running(j) == step[j] \in RunningSteps

Event == events < MaxEvents /\ events' = events + 1

\* asynq forgets the jobs of S: their ids are free again, and a Unique lock
\* is released with the job that holds it.
Remove(S) ==
  /\ state' = [j \in Jobs |-> IF j \in S THEN "none" ELSE state[j]]
  /\ tries' = [j \in Jobs |-> IF j \in S THEN 0 ELSE tries[j]]
  /\ lock' = [k \in TaskKeys |-> IF <<k, lock[k]>> \in S THEN Free ELSE lock[k]]

\* The handler of j ends; nothing of its attempt is kept.
EndAttempt(j) ==
  /\ step' = [step EXCEPT ![j] = "idle"]
  /\ got' = [got EXCEPT ![j] = Nothing]
  /\ listed' = [listed EXCEPT ![j] = {}]

\* asynq's answer to an error: back off and retry, or archive.
RetryOrArchive(j) ==
  /\ state' = [state EXCEPT ![j] = IF tries[j] < MaxRetry THEN "retry"
                                                          ELSE "archived"]
  /\ tries' = [tries EXCEPT ![j] = IF tries[j] < MaxRetry THEN @ + 1 ELSE @]
  /\ UNCHANGED lock

\* Enqueue with TaskID: any job under this id, in any state, is a conflict,
\* which the handlers report as success.
EnqueueWithTaskID(k) ==
  LET j == <<k, Free>>
  IN  /\ state' = [state EXCEPT ![j] = IF @ = "none" THEN "pending" ELSE @]
      /\ UNCHANGED <<tries, lock>>

\* Enqueue with Unique: while the lock is held the job is a duplicate, which
\* the handler reports as success.  A new job's id is nobody's: none that a
\* handler has listed, either.
EnqueueUnique(k) ==
  /\ UNCHANGED tries
  /\ \/ /\ lock[k] # Free
        /\ UNCHANGED <<state, lock>>
     \/ /\ lock[k] = Free
        /\ \E c \in Copies :
             /\ state[<<k, c>>] = "none"
             /\ \A f \in Jobs : <<k, c>> \notin listed[f]
             /\ state' = [state EXCEPT ![<<k, c>>] = "pending"]
             /\ lock' = [lock EXCEPT ![k] = c]

Enqueue(k) == IF k \in TaskKeys THEN EnqueueUnique(k) ELSE EnqueueWithTaskID(k)

----------------------------------------------------------------------------
\* GitHub.

\* Someone pushes to branch b; GitHub owes the api a push event.
Push(b) ==
  /\ Event
  /\ head' = [head EXCEPT ![b] = @ + 1]
  /\ hooks' = hooks \cup {<<b, head[b] + 1>>}
  /\ UNCHANGED <<jobVars, accepted, seen, worker, drain>>

\* The delivery fails: the api is down, or Redis is and the handler answers
\* 503.  A base push that touches several features is one hook per feature;
\* the handler stops at the first it cannot enqueue and the rest are lost.
LoseHook(h) ==
  /\ hooks' = hooks \ {h}
  /\ UNCHANGED <<jobVars, head, accepted, seen, worker, drain, events>>

\* An event is delivered a second time, in any order with others.
Redeliver(b, v) ==
  /\ Event
  /\ v \in 1..head[b]
  /\ hooks' = hooks \cup {<<b, v>>}
  /\ UNCHANGED <<jobVars, head, accepted, seen, worker, drain>>

----------------------------------------------------------------------------
\* The api process.

\* WebhookHandler: a verified push event of a registered repository becomes a
\* job of its branch's key, and is acknowledged.
Webhook(h) ==
  /\ Enqueue(h[1])
  /\ accepted' = [accepted EXCEPT ![h[1]] = Larger(@, h[2])]
  /\ hooks' = hooks \ {h}
  /\ UNCHANGED <<step, got, listed, head, seen, worker, drain, events>>

\* SyncWorkspaceHandler (and the enqueue of ImportWorkspaceHandler): a full
\* sync is requested of whatever the default branch holds now.
SyncWorkspace(k) ==
  /\ Event
  /\ EnqueueWithTaskID(k)
  /\ accepted' = [b \in Branches |-> IF b \in Covers(k) THEN head[b]
                                                        ELSE accepted[b]]
  /\ UNCHANGED <<step, got, listed, head, hooks, seen, worker, drain>>

----------------------------------------------------------------------------
\* The worker process: attempts.

\* Either queue may feed any free slot: the queue numbers are weights.
Dequeue(j) ==
  /\ worker = "up"
  /\ state[j] = "pending"
  /\ Cardinality({i \in Jobs : Running(i)}) < Concurrency
  /\ state' = [state EXCEPT ![j] = "active"]
  /\ step' = [step EXCEPT ![j] = "start"]
  /\ UNCHANGED <<tries, got, listed, lock, head, hooks, accepted, seen, worker,
                 drain, events>>

\* The payload or its workspace is refused for good (asynq.SkipRetry).
Refuse(j) ==
  /\ step[j] = "start"
  /\ j[1] \in WsKeys
  /\ state' = [state EXCEPT ![j] = "archived"]
  /\ EndAttempt(j)
  /\ UNCHANGED <<tries, lock, head, hooks, accepted, seen, worker, drain,
                 events>>

\* A full sync that could not go incremental lists the pending task:sync jobs,
\* of which it wants those of its own workspace.  None: it goes on.
ListPendingTasks(j) ==
  LET tasks == {t \in Jobs : /\ t[1] \in TaskKeys
                             /\ Ws[t[1]] = Ws[j[1]]
                             /\ state[t] = "pending"}
  IN  /\ step[j] \in {"start", "clearing"}
      /\ j[1] \in FullKeys
      /\ listed[j] = {}
      /\ listed' = [listed EXCEPT ![j] = tasks]
      /\ step' = [step EXCEPT ![j] = IF tasks = {} THEN "cleared"
                                                   ELSE "clearing"]
      /\ UNCHANGED <<state, tries, got, lock, head, hooks, accepted, seen,
                     worker, drain, events>>

\* It deletes them by id, one by one, in whatever state they are by now, and
\* then lists again.  A job that has become active, or is gone, is an error,
\* with which the handler returns (Fail).
DeleteListed(j, t) ==
  /\ step[j] = "clearing"
  /\ t \in listed[j]
  /\ state[t] \in {"pending", "retry", "archived"}
  /\ Remove({t})
  /\ listed' = [listed EXCEPT ![j] = @ \ {t}]
  /\ UNCHANGED <<step, got, head, hooks, accepted, seen, worker, drain, events>>

\* The attempt reads its branches at GitHub.  A full sync comes here after
\* clearing, or straight away when it goes incremental.
Fetch(j) ==
  /\ step[j] \in {"start", "cleared"}
  /\ step' = [step EXCEPT ![j] = "fetched"]
  /\ got' = [got EXCEPT ![j] = [b \in Branches |-> IF b \in Covers(j[1])
                                                   THEN head[b] ELSE 0]]
  /\ UNCHANGED <<state, tries, listed, lock, head, hooks, accepted, seen, worker,
                 drain, events>>

\* SaveSnapshot, SaveFeatureSnapshot or SaveTaskSnapshot commits.
Save(j) ==
  /\ step[j] = "fetched"
  /\ step' = [step EXCEPT ![j] = "saved"]
  /\ seen' = [b \in Branches |-> IF b \in Covers(j[1])
                                 THEN Larger(seen[b], got[j][b]) ELSE seen[b]]
  /\ UNCHANGED <<state, tries, got, listed, lock, head, hooks, accepted, worker,
                 drain, events>>

\* The run is recorded, the handler returns nil and asynq drops the job.
Complete(j) ==
  /\ step[j] = "saved"
  /\ Remove({j})
  /\ EndAttempt(j)
  /\ UNCHANGED <<head, hooks, accepted, seen, worker, drain, events>>

\* Mutant of Fail: every error is wrapped in asynq.SkipRetry.
FailForGood(j) ==
  /\ Running(j)
  /\ state' = [state EXCEPT ![j] = "archived"]
  /\ EndAttempt(j)
  /\ UNCHANGED <<tries, lock, head, hooks, accepted, seen, worker, drain,
                 events>>

\* The handler returns an error, or its deadline passes, at any point.
Fail(j) ==
  /\ Running(j)
  /\ RetryOrArchive(j)
  /\ EndAttempt(j)
  /\ UNCHANGED <<head, hooks, accepted, seen, worker, drain, events>>

Attempt(j) ==
  \/ Refuse(j)
  \/ ListPendingTasks(j)
  \/ \E t \in Jobs : DeleteListed(j, t)
  \/ Fetch(j)
  \/ Save(j)
  \/ Complete(j)
  \/ Fail(j)

----------------------------------------------------------------------------
\* The worker process: the rest of the asynq server, and restarts.

\* The back-off of a failed job is over.
Forward(j) ==
  /\ worker = "up"
  /\ state[j] = "retry"
  /\ state' = [state EXCEPT ![j] = "pending"]
  /\ UNCHANGED <<tries, step, got, listed, lock, head, hooks, accepted, seen,
                 worker, drain, events>>

\* The lease of a job whose handler died has expired.
Recover(j) ==
  /\ worker = "up"
  /\ step[j] = "lost"
  /\ RetryOrArchive(j)
  /\ EndAttempt(j)
  /\ UNCHANGED <<head, hooks, accepted, seen, worker, drain, events>>

\* The process dies; its jobs stay active.
Crash ==
  /\ Event
  /\ worker = "up"
  /\ worker' = "down"
  /\ step' = [j \in Jobs |-> IF Running(j) THEN "lost" ELSE step[j]]
  /\ got' = [j \in Jobs |-> Nothing]
  /\ listed' = [j \in Jobs |-> {}]
  /\ drain' = <<>>
  /\ UNCHANGED <<state, tries, lock, head, hooks, accepted, seen>>

\* The process is asked to stop: asynq puts unfinished jobs back.
Stop ==
  /\ Event
  /\ worker = "up"
  /\ worker' = "down"
  /\ state' = [j \in Jobs |-> IF Running(j) THEN "pending" ELSE state[j]]
  /\ step' = [j \in Jobs |-> IF Running(j) THEN "idle" ELSE step[j]]
  /\ got' = [j \in Jobs |-> Nothing]
  /\ listed' = [j \in Jobs |-> {}]
  /\ drain' = <<>>
  /\ UNCHANGED <<tries, lock, head, hooks, accepted, seen>>

PlanOf(q) == <<<<q, "archived">>, <<q, "retry">>, <<q, "pending">>>>

\* The drain goes through the queues Redis knows of, in any order; it is given
\* up when they cannot be listed.
DrainPlans ==
  {<<>>, PlanOf("default"), PlanOf("task-sync"),
   PlanOf("default") \o PlanOf("task-sync"),
   PlanOf("task-sync") \o PlanOf("default")}

\* The server starts serving, and next to it the cleanup goroutine draining.
Start ==
  /\ worker = "down"
  /\ worker' = "up"
  /\ drain' \in DrainPlans
  /\ UNCHANGED <<jobVars, head, hooks, accepted, seen, events>>

\* Mutant of Drained: jobs that are being run are deleted as well.
DrainedActive ==
  {j \in Jobs : /\ QueueOf(j) = Head(drain)[1]
               /\ state[j] \in {Head(drain)[2], "active"}}

Drained == {j \in Jobs : QueueOf(j) = Head(drain)[1] /\ state[j] = Head(drain)[2]}

\* drainStuckTasksOnStart: one bulk deletion, whose error is only logged.
DrainStep ==
  /\ worker = "up"
  /\ drain # <<>>
  /\ \/ Remove(Drained)
     \/ UNCHANGED <<state, tries, lock>>
  /\ drain' = Tail(drain)
  /\ UNCHANGED <<step, got, listed, head, hooks, accepted, seen, worker, events>>

\* Mutant of Cleanup: only the task-sync queue is listed.
CleanupTaskSync(j) ==
  /\ worker = "up"
  /\ drain = <<>>
  /\ state[j] = "archived"
  /\ QueueOf(j) = "task-sync"
  /\ Remove({j})
  /\ UNCHANGED <<step, got, listed, head, hooks, accepted, seen, worker, drain,
                 events>>

\* cleanupArchivedOnce, after the drain: an archived job whose retention is
\* over is deleted.
Cleanup(j) ==
  /\ worker = "up"
  /\ drain = <<>>
  /\ state[j] = "archived"
  /\ Remove({j})
  /\ UNCHANGED <<step, got, listed, head, hooks, accepted, seen, worker, drain,
                 events>>

\* 24 hours after it was taken a Unique lock lapses, whatever its job does.
LockExpires(k) ==
  /\ Event
  /\ lock[k] # Free
  /\ lock' = [lock EXCEPT ![k] = Free]
  /\ UNCHANGED <<state, tries, step, got, listed, head, hooks, accepted, seen,
                 worker, drain>>

----------------------------------------------------------------------------
Next ==
  \/ \E b \in Branches : Push(b)
  \/ \E h \in hooks : LoseHook(h)
  \/ \E b \in Branches : \E v \in 1..head[b] : Redeliver(b, v)
  \/ \E h \in hooks : Webhook(h)
  \/ \E k \in FullKeys : SyncWorkspace(k)
  \/ \E j \in Jobs : Dequeue(j)
  \/ \E j \in Jobs : Attempt(j)
  \/ \E j \in Jobs : Forward(j)
  \/ \E j \in Jobs : Recover(j)
  \/ Crash
  \/ Stop
  \/ Start
  \/ DrainStep
  \/ \E j \in Jobs : Cleanup(j)
  \/ \E k \in TaskKeys : LockExpires(k)

Spec == Init /\ [][Next]_vars

\* What the server does with a job next: start it, run it, requeue it after
\* its back-off or its lost lease, or clean it up.
Serve(j) == Dequeue(j) \/ Attempt(j) \/ Forward(j) \/ Recover(j) \/ Cleanup(j)

\* The server gets round to every job.  Slots are only free, and the process
\* only up, now and then, hence strong fairness: asynq takes a queue's jobs in
\* order and weighs the queues, so none starves; an attempt ends at its
\* deadline at the latest; the forwarder, the recoverer and the cleanup loop
\* tick for as long as the process lives.  A supervisor restarts the process.
Fairness ==
  /\ \A j \in Jobs : SF_vars(Serve(j))
  /\ WF_vars(Start)
  /\ WF_vars(DrainStep)

FairSpec == Spec /\ Fairness

----------------------------------------------------------------------------
\* Safety.

\* The handler's progress and asynq's state agree: exactly the active jobs
\* have an attempt, alive or lost with its process (Dequeue, Fail, Complete,
\* Crash, Stop and Recover keep the two together).
ActiveHasAttempt ==
  \A j \in Jobs : state[j] = "active" <=> step[j] # "idle"

\* A Unique lock never outlives the job that took it: every way a job leaves
\* the queue (completion, clearing, drain, cleanup) gives the key back, so no
\* push is turned away on behalf of a job that does not exist.
LockHeldByJob ==
  \A k \in TaskKeys : lock[k] # Free => state[<<k, lock[k]>>] # "none"

\* Nothing is accepted, fetched or announced that GitHub does not have.
VersionsExist ==
  /\ \A h \in hooks : h[2] <= head[h[1]]
  /\ \A b \in Branches : accepted[b] <= head[b] /\ seen[b] <= head[b]
  /\ \A j \in Jobs : \A b \in Branches : got[j][b] <= head[b]

\* What a handler has listed to delete is task jobs of its own workspace, and
\* only a full sync that is clearing holds such a list: none survives its
\* attempt, so no id is deleted on behalf of an attempt that is over.
ListedAreOwn ==
  \A f \in Jobs : \A t \in listed[f] :
    /\ f[1] \in FullKeys
    /\ t[1] \in TaskKeys
    /\ Ws[t[1]] = Ws[f[1]]
    /\ step[f] = "clearing"

Inv ==
  /\ TypeOK
  /\ ActiveHasAttempt
  /\ LockHeldByJob
  /\ ListedAreOwn
  /\ VersionsExist

\* Job j will look at branch b, or has looked and found what was accepted.  An
\* archived job will not: asynq never runs it again.
Serves(j, b) ==
  /\ state[j] \notin {"none", "archived"}
  /\ b \in Covers(j[1])
  /\ \/ step[j] \in {"idle", "start", "clearing", "cleared", "lost"}
     \/ step[j] = "fetched" /\ got[j][b] >= accepted[b]

\* An acknowledged version of b is not in the database and no job will look.
Unserved(b) == accepted[b] > seen[b] /\ ~\E j \in Jobs : Serves(j, b)

\* An event of b was acknowledged without a job of its own: job j has its
\* TaskID, or holds its Unique lock.
MergedWith(j, b) ==
  /\ b \in Covers(j[1])
  /\ accepted'[b] > accepted[b]
  /\ UNCHANGED state
  /\ j[1] \in TaskKeys => lock[j[1]] = j[2]

\* That job had fetched before.
MergedTooLate(b) ==
  \E j \in Jobs : MergedWith(j, b) /\ step[j] \in {"fetched", "saved"}

\* That job had failed for good, and only blocks its id or its lock.
MergedWithArchived(b) ==
  \E j \in Jobs : MergedWith(j, b) /\ state[j] = "archived"

\* The last retry of a job of b failed, or its lease expired.
RetriesRanOut(b) ==
  \E j \in Jobs : /\ b \in Covers(j[1])
                  /\ state[j] = "active"
                  /\ state'[j] = "archived"
                  /\ tries[j] = MaxRetry

\* The handler of a workspace sync returned asynq.SkipRetry before it read
\* anything.
Refused(b) ==
  \E j \in Jobs : /\ b \in Covers(j[1])
                  /\ j[1] \in WsKeys
                  /\ step[j] = "start"
                  /\ state'[j] = "archived"

\* A job waiting for its first or next attempt was deleted: by the startup
\* drain, or, a task:sync, by a full sync of its own workspace that had listed
\* it as pending.
DeletedWaiting(b) ==
  \E j \in Jobs :
    /\ b \in Covers(j[1])
    /\ state[j] \in {"pending", "retry"}
    /\ state'[j] = "none"
    /\ \/ drain # <<>> /\ Head(drain) = <<QueueOf(j), state[j]>>
       \/ \E f \in Jobs : j \in listed[f] /\ Ws[f[1]] = Ws[j[1]]

\* An acknowledged push loses its last chance of being fetched for five reasons
\* only: it was merged with a job past its fetch or with an archived one, its
\* job failed for good or was refused, or its waiting job was deleted.  While
\* retries are left no failure, crash, restart, lapse of a lock, redelivery or
\* reordering loses one, and neither does the cleanup of archived jobs: those
\* had lost it before.
LossIsKnown ==
  \A b \in Branches :
    ~Unserved(b) /\ Unserved(b)' =>
      \/ MergedTooLate(b)
      \/ MergedWithArchived(b)
      \/ RetriesRanOut(b)
      \/ Refused(b)
      \/ DeletedWaiting(b)
OnlyKnownLoss == [][LossIsKnown]_vars

\* HandleTaskSync's comment: duplicate webhook events always fetch the latest
\* task branch HEAD.  So an accepted task push has a job that will fetch it.
DuplicatesFetchLatest ==
  [][\A k \in TaskKeys :
       accepted'[k] > accepted[k] => ~Unserved(k)']_vars

----------------------------------------------------------------------------
\* Liveness.

\* No job stays in the queue for ever, whatever fails: it completes, or its
\* retries run out, and the cleanup frees its key for later syncs.
EveryJobLeaves == \A j \in Jobs : state[j] # "none" ~> state[j] = "none"

=============================================================================
