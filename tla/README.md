# Verification of workspace-github-adapter

The program mirrors GitHub *management repositories* (a `workspace.yaml` and
`docs/features/<feature>/…` with task files) into a PostgreSQL workspace
database. An **api** process takes webhooks, import and sync requests and
enqueues jobs in Redis (asynq); a **worker** process reads GitHub and writes the
rows. A **Go service** that is not in this repository works on the same rows and
takes features and tasks over from git (`owner = 'go'`).

This directory holds TLA+ modules of that program, TLC configurations that check
them on small instances, and TLAPS proofs of their main invariants for every
value of the constants. `PROJECT.json` maps every definition to the lines it
models and lists the hazards, the findings and the theorems. Paths below are
relative to `src/`.

## 1. Inventory

| Component | State it keeps | Operations | What makes it correct |
|---|---|---|---|
| Webhook receiver `internal/handler/webhook.go` | none (jobs, in Redis) | `WebhookHandler`: classify the branch, enqueue | a push that is acknowledged will be fetched; the job is about what was pushed |
| Branch and path routing `internal/webhook/webhook.go` | none | `ClassifyBranch`, `FeatureIDsFromPaths`, signature | every branch the workflow names comes back as its feature and task |
| Import endpoint `internal/handler/import.go` | workspace, source and run rows | `ImportWorkspaceHandler` | one workspace per repository, all answers agree, a workspace that is known gets synced |
| Sync endpoint `internal/handler/sync.go` | none (a job) | `SyncWorkspaceHandler` | one full sync job per workspace |
| Job queue `pkg/queue/tasks.go`, asynq | tasks, ids, unique locks, retries | enqueue, dequeue, retry, archive, recover | every job ends and gives its key back |
| Worker process `cmd/worker/worker.go` | slots | start, stop, crash | a job whose attempt dies is tried again |
| Queue cleanup `internal/worker/queue_cleanup.go` | none | startup drain, removal of archived jobs | only dead jobs go |
| workspace:sync `internal/worker/workspace_sync.go` | the attempt, its sync run | full, incremental, targeted sync | rows agree with the commit the run records |
| task:sync `internal/worker/task_sync.go` | the attempt, its sync run | fetch one task from its branch | the newest pushed version is fetched |
| GitHub fetching `internal/github/adapter.go`, `client.go` | token cache | token choice, tree, contents, compare, HEAD | what is read belongs together, and is read with a token that may read it |
| GitHub parsing `internal/github/parser.go` | none | YAML to snapshot | a directory's files reach the rows of its feature |
| Snapshot store `internal/adapter/db/adapter.go`, `database/queries/*.sql` | feature, task, document, activity, repo, policy rows | `SaveSnapshot`, `SaveFeatureSnapshot`, `SaveTaskSnapshot` | no orphans, no lost updates, nothing taken from the Go service |
| Snapshot reads (same file) | none | `ListWorkspaces` … `GetActiveSnapshot` | a reader misses nothing that stays, and is not told of a sync it does not see |
| Sync runs `database/queries/workspace_sync_runs.sql` | run rows | insert, finish, latest | the latest finished run is the incremental baseline |
| Source state `internal/domain/source_state.go` | none | `DeriveSourceState` | "running" and "fresh" are true |
| Generated queries, schema, configuration, commands | – | – | – |

How they meet: api and worker share nothing but Redis and PostgreSQL. A job
carries a dedupe key (a fixed asynq `TaskID` for workspace:sync, a 24 hour unique
lock for task:sync), and for task:sync *only* feature and task: the branch is
derived again, later, from the pattern in the database. Up to five attempts, of
any kind, run side by side in the worker (`cmd/worker/worker.go:66`), each doing
GitHub reads and database transactions with no lock across them.

Hard behaviours: pushes that race with attempts past their fetch; five attempts
on one workspace; a tree listed at a commit and files read at a branch; partial
failures that are skipped and committed; a startup drain beside a running
server; crashes between the three commits of an import; a long READ COMMITTED
transaction beside short ones of other writers; readers that take several
statements without a transaction; one mutex held while GitHub is asked which
token works. The full list, each at its line,
is under "hazards" in `PROJECT.json`.

## 2. Modules

Each module abstracts what the others model. `SyncQueue` decides *that* an
attempt runs, `WorkspaceSync` what it reads and writes, `TokenCache` the token it
reads with, `SnapshotStore` what a write is made of and `AtomicStore` what others
see of it, `FeatureRows` which rows a directory becomes and `SnapshotReads` who
reads them; `BranchRouting` yields the keys `SyncQueue` starts from, and
`ImportWorkspace` the rows and the first job they all presuppose.

### SyncQueue – the queue between api and worker

Keys of jobs, split by kind; contents of branches are versions, so "fetched the
push" is an order on numbers. `Push`, `LoseHook`, `Redeliver` are GitHub's;
`Webhook` and `SyncWorkspace` the api's; `Dequeue`, `Refuse`,
`ListPendingTasks`, `DeleteListed`, `Fetch`, `Save`, `Complete`, `Fail`
an attempt's; `Forward`, `Recover`, `LockExpires` asynq's and Redis's; `Start`,
`Stop`, `Crash`, `DrainStep`, `Cleanup` the process's. asynq is external: it is
modelled from the options, ids and states this code uses. A full sync lists the
pending task jobs (`workspace_sync.go:172`) and deletes them one by one by id
(line 195): in between they may start, fail or go, and others be added. A list
fits one page of 100. A job's id is new in the code, and so `EnqueueUnique` takes
none that is still listed. An archived job is one that asynq never runs again: it
only keeps its id or its lock until it is cleaned up.

### WorkspaceSync – what an attempt reads, writes and records

One full attempt at a time (its `TaskID` sees to that), with the incremental
shortcut in front of it, beside targeted attempts that read the default branch
or another one; a history of commits with changes, reverts, removals and force
pushes below it. A feature's files and rows are one content; a save is one step.
Rows of `status.yaml`-less features are `Blank`, rows from another branch
`Foreign`.

### ImportWorkspace – how a workspace comes to be known

Every step of `ImportWorkspaceHandler` for several racing requests, with a crash
of the api anywhere, next to sync requests and the worker's full attempts, as
far as they rename the workspace and record runs. A request and the workspace id
it mints have the same name; a name stands for its slug. Targeted attempts are
left out (they record runs that a full attempt's cover), and so is staleness by
age.

### SnapshotStore – inside the database

`SaveSnapshot` as the long transaction it is: per-feature savepoints, pruning,
commit or rollback, its writes locked and invisible until then. The other
writers touch one feature and are one step each, enabled when the rows they need
are not locked; `SaveTaskSnapshot` is three of them. PostgreSQL's rules used:
row locks, READ COMMITTED, foreign keys checked against locked rows, ON DELETE
CASCADE, ON CONFLICT. The upsert's CTE may look an id up before another
transaction deletes that row, so a new row may reuse the last id (`NewIds`). Of
the columns, those the writers fight over are kept: id, owner, status and
whether a fetch filled the row. One `SaveSnapshot` runs at a time (its job has a
fixed task id). The Go service is external, taken to claim features, move their
status on, and claim tasks, whoever owns their feature.

### AtomicStore – what the store promises

The abstract specification of `SnapshotStore`, and the licence of every module
that takes a save for one step: to whoever reads committed rows, a save replaces
the git part of the features it is about at once, computed from the rows as they
are at that step. Features go in one way only, with all else a full save does.
Two things of the implementation show through, because the code has them: a
feature of the snapshot may be skipped (its savepoint was rolled back), and what
appears after the save has looked is too late for it and spared (`lateFeatures`,
`lateTasks`). `IsAtomicStore` maps the committed rows to themselves, the open
transaction to `saving` and `keep`, and the late rows to those that are visible,
unowned, and neither locked nor listed by the save. Steps inside a transaction
are stutters.

### FeatureRows – from a directory to its rows

What the parser and the store make of a feature's directory: which directories
count (`tasks.md` alone does not, except in a targeted sync), the id that
`status.yaml` declares and that names the row, while task syncs and the look-up
before a run is recorded go by directory; task files that do not parse and are
left out (`readable` says which ones of a directory); ids kept or given anew;
log entries upserted by position; the runs recorded after a save. A full save
goes through the tree feature by feature (`Stages`, a recursive function), so
that a directory may replace the row another one has just written. Fetches and
saves are single steps here: `WorkspaceSync` has the branch move under a fetch,
`AtomicStore` lets a save be one step.

### SnapshotReads – who reads them

`GetFeature`, `GetTask` and `GetWorkspace`, one action per statement, beside all
of `FeatureRows`. The reader's history (`always`, `at`, `news`, `renewed`) is
kept by `Watch` in every step of the syncs.

### TokenCache – the token a read uses

`tokenFor`: the look under the read lock, the write lock and the second look,
the probes made while it is held, and the five ways they end. GitHub gives and
takes access at any time. A `404` counts as success there, as in the code: GitHub
hides from a token what it may not see.

### BranchRouting – what a push is about

`ClassifyBranch` and the regular expressions it builds, on names made of words
and separators (`Words`; next to a placeholder a pattern has a separator, so a
match never splits a word), and `DeriveBranch`. Where a group starts follows from
the lengths of the groups before it (`Starts`, a recursive function). A push is
named by the pattern of its time, classified by the pattern of the webhook's, and
its task job derives the branch from the pattern of the worker's.

## 3. Runs

| Run | Shows |
|---|---|
| `sync_queue` | `Inv`: active jobs and attempts agree, locks belong to existing jobs, what is listed for deletion is the lister's own, nothing comes from the future. `OnlyKnownLoss`: an acknowledged push loses its last chance of being fetched for five reasons only: merged with a job past its fetch, merged with an archived job, retries ran out, refused for good, or its waiting job deleted. An archived job counts as no chance. While retries are left no failure, crash, restart, lapse of a lock, redelivery or reordering loses one |
| `sync_queue_live` | the same with two jobs of one task, which run beside each other when the first one's lock has lapsed, and `EveryJobLeaves`: every job leaves the queue, so its key is free again |
| `sync_queue_duplicates` (violation) | a push is turned away as a duplicate of a job that has already fetched |
| `workspace_sync` | `Inv`: baselines never go back, nothing read before its commit was resolved is recorded under it, no item of a recorded commit is forgotten. `OnlyKnownDrift`: rows come to contradict the latest run in the named ways only |
| `workspace_sync_prune` (violation) | a feature that could not be read is pruned |
| `import_workspace` | `Inv`: one workspace per repository and slug, answers that stay true, the three commits in order. `OnlyKnownAbandonment`: a known workspace comes to have no sync, no failure on record and nobody who tries in four ways only: the import failed or died, its waiting job was deleted, its job was archived and no attempt recorded that it failed, or the import was told of a queued job that was dead. So an import answered "accepted" may be left that way by the second and the third |
| `import_workspace_running` (violation) | a workspace reported as being synced that nothing will sync |
| `snapshot_store` | `Inv`: no orphan tasks, pending writes that fit the rows they will replace, locks of the open transaction only. `ClaimedSurvives`: what the Go service claimed stays, features and tasks, with one exception: a task it claimed of a feature it did not goes with the feature when git drops that (`workspace_features.sql:58` asks for the feature's owner, and the deletion cascades). `IsAtomicStore`: the store implements `AtomicStore` |
| `snapshot_store_placeholder` (violation) | a task save's placeholder blanks a fetched feature |
| `token_cache` | `Inv`: one call probes at a time and holds the lock exactly then, all calls of an owner read with one token, tokens are tried in order. `OnlyKnownDenials`: a read that one of the tokens could serve is denied only because the owner's token was found for another repository, access changed, a 404 was accepted, a probe was not answered, or the rate limit was hit. `EveryCallEnds`: no call waits for the lock for ever |
| `snapshot_reads` | `Inv`: a task's activity begins with the log last saved for it, whatever order versions are saved in. `OnlyKnownRemovals`: a row and its id go only when git no longer has it, it could not be read, or another directory declares the same id. `SavedIsRecorded`: a sync that has saved can record that it did, unless the declared id is another or a save came in between. `NothingMissed`: a read never leaves out what was there all the time, except a task that was given a new id because two directories declare one feature's. `OnlyNewLabelsOvertake`: a reader is told of a later sync than its rows show only if the run was recorded since it read them |
| `branch_routing` | `RoutedRight`, `FetchedRight`: a push becomes jobs for what it is about, and they read the pushed branch, except for the five reasons in `Clear` and a changed pattern |

### Bounds, and why they are enough

* `sync_queue`: one full, one base and two task keys, one of them of another
  workspace; two slots; one retry; three external events (`MaxEvents`: pushes,
  requests, redeliveries, crashes, expiries). Three events are a push, a crash
  with its drain, and a second push, and each of the five ways of losing one
  occurs in the run: without any one of them TLC finds a counterexample.
  `sync_queue_live` has two copies of a task job, because its lock may lapse
  while it waits, a full job, and two slots: two of the three run beside each
  other and the third has to wait.
* `workspace_sync`: one feature and `workspace.yaml`, two commits after the
  first. Features are independent but for the baseline, which one feature
  shares with `workspace.yaml` already. Each cause in `OnlyKnownDrift` was found
  by removing it and getting a counterexample with two commits; three commits
  with the default branch only (1.2 million states) pass as well.
* `import_workspace`: two requests, repositories, slugs and organizations, one
  sync request. A race has two sides, and a third party's rename comes from the
  first request's own worker. Without the bound on sync requests it passes too
  (2.1 million states).
* `snapshot_store`: two features (one kept, one pruned), one task, one task save,
  one full save; one protected status and one that is not. One feature with two task saves and two full saves passes too;
  the theorems hold for any number.
* `token_cache`: two calls, so that one waits for the other's lock and one finds
  the other's token; two repositories of one owner, so that a token found for
  one is used for the other; two tokens, so that there is a next one; every
  initial access and one change of it.
* `snapshot_reads`: two directories, the second of which may declare the first
  one's id; one task; one push (of the documents, of the task file or a removal)
  and two attempts of any kind, so that an old version is saved after a newer
  one and either comes between any two statements of a read. Rows are empty or
  complete at the start.
* `branch_routing`: the default pattern and seven more (the tests' custom one, a
  placeholder repeated with a slash or a dash between, the task first with a slash
  or a dash behind it, no task, placeholders only), five features: a plain one, one
  that begins with another's name, one ending in `-init`, one ending in a task's
  name, one called like the default branch. Each of the five reasons is needed:
  without it the run fails.

Symmetry is used in the `import_workspace` and `snapshot_store` runs, which have
no liveness property.

`CHECK_DEADLOCK FALSE` is set where the bound on events, or all requests having
been answered, ends the behaviour: `SyncQueue`, `ImportWorkspace`,
`BranchRouting`, `SnapshotReads`. In `TokenCache` no state is without a successor
but for the bound on changes of access. `WorkspaceSync` and `SnapshotStore` are checked for deadlock
and have none.

### Fairness

Two modules assume any. In `SyncQueue`, `SF(Serve(j))`: the server gets round to every job.
Slots are free, and the process up, now and then only, hence strong fairness;
it is justified because asynq takes a queue's jobs in order and weighs its two
queues, an attempt ends at its deadline at the latest
(`pkg/queue/tasks.go:53`), and the forwarder, the recoverer and the cleanup loop
tick while the process lives. `WF(Start)`: a supervisor restarts the process.
`WF(DrainStep)`: the drain goroutine goes on. Success of an attempt is never
assumed.

In `TokenCache`, `SF(Look)` and `SF(Acquire)`: Go's `RWMutex` does not pass over
who waits for it. `WF(Unanswered)`: a job's attempt has a deadline, and a probe
returns with its context although the probing client has no timeout
(`internal/github/adapter.go:145`). `WF(Return)`: the reads that follow have a
client with a timeout. Nothing makes GitHub answer. The context of
an import request (`internal/handler/import.go:86`) has no deadline and ends when
its client goes away: for calls of the api the liveness result presumes clients
that give up.

### Mutants

Each property of a passing run has a definition in the module, commented "Mutant
of …", that changes one action the way a bug would; with it in place TLC finds
the property violated.

## 4. Findings

1. A push that arrives while its task's job is past its fetch is acknowledged as
   a duplicate and not fetched (`internal/handler/webhook.go:218`), against
   `internal/worker/task_sync.go:21-23`.
2. A feature whose fetch failed is pruned (`internal/adapter/db/adapter.go:666`),
   against the comment at lines 622-625.
3. A run left running makes a workspace count as fresh although no sync is in
   progress (`internal/domain/source_state.go:62`, against line 59).
4. The placeholder of `SaveTaskSnapshot` is an upsert and can blank a feature
   saved since it looked (`internal/adapter/db/adapter.go:438`), against the
   comment above it.

Each has a run that expects the violation. Two more disagreements came up that
have no run of their own:

* `internal/worker/queue_cleanup.go:50` calls what the startup drain deletes
  "pre-restart leftovers". The drain runs beside the api and the server, so it
  also deletes jobs that were enqueued after the restart. The `DeletedWaiting`
  of `OnlyKnownLoss` covers both: with the drain's half of it left out, the
  `sync_queue` run fails.
* `README.md:128-131` of the repository gives each queue a concurrency of its
  own, 1 for `workspace:sync` and 3 for `task:sync`. The code has one pool of
  slots that both queues share (`cmd/worker/worker.go:66`), which is what
  `Concurrency` stands for.

The passing runs name further behaviour that surprises: the reasons in
`OnlyKnownLoss`, `OnlyKnownDrift`, `OnlyKnownAbandonment`, `OnlyKnownDenials`,
`OnlyKnownRemovals` and `SavedIsRecorded` and the exception in `ClaimedSurvives`,
each commented where it is defined. Some of them the code's comments know of:
`queue_cleanup.go:30-35` says what `MergedWithArchived` does, that an archived job
answers every later sync of its workspace with "already queued".

## 5. Proofs

Each `…Proofs` module extends its component and proves, for every value of the
constants, type correctness and the safety invariant, and an action property
from it. The `Inv` of `SyncQueue`, `WorkspaceSync`, `ImportWorkspace`,
`SnapshotStore` and `TokenCache` are inductive as checked: TLC checks the very
formula that is proved. Those of the rows, the readers and the routing need more,
named below. The assumptions are the modules' named ASSUMEs: constants of the
right type, and `None` not a value of another kind; in `BranchRouting` also what
the words of ids and patterns may be (`WordsAssumption`, from `workIDRe`, the
separators that `featurePatternFromTaskPattern` trims and the placeholders'
spelling).

* **SyncQueueProofs.** `InvHolds`, `LockHolds`, `LossHolds`. The strengthening is
  `ActiveHasAttempt` (a job is active exactly when it has an attempt),
  `LockHeldByJob` and `ListedAreOwn`: without the first, `Remove` could free a
  job under its attempt, without the last a deletion could hit another
  workspace's. The loss theorem goes through the actions that change `accepted`,
  `seen` or a job's place and shows that a job which serves the branch, one that
  is not archived and has not read too early, survives each or gives one of the
  five reasons.
* **WorkspaceSyncProofs.** `InvHolds`, `DriftHolds`. `BaselineOrder` and
  `ReadsFollowResolve` bound what an attempt can hold by the interval of history
  since it resolved its commit; `NothingForgotten` says that what it has not
  read has not changed; together they give that a recording attempt's
  expectation lies in the interval that the new baseline vouches for.
* **ImportWorkspaceProofs.** `InvHolds`, `AbandonmentHolds`. Rows are only added,
  and only renamed afterwards (`RowWrites`), so an answer once true stays true;
  the order of the commits is local to a request (`ImportIsLocal`). For
  `AbandonmentHolds` a job counts while it waits, runs or will be retried; the
  step on which it stops to is its completion, which has recorded a success, or
  one of the four ways.
* **SnapshotStoreProofs.** `InvHolds`, `ClaimsHold`. The key is `Fits`: a write
  held back by the open transaction stays compatible with the row below it,
  because whoever may still write that row cannot do what would spoil it.
  `NoOrphans` follows at `Commit`, where the pending rows become the rows, and
  so does that a claimed task is lost only with a feature that is deleted.
  `StoreIsAtomic` is `Spec => IsAtomicStore`, the initial states and every step.
  A step of another writer is the abstract step of that name, and the work is to
  show which rows may become late by it. The full save's own steps are stutters
  until `Commit`, which is `SaveWorkspace`: there `Fits` says of each pending row
  that it is what a write of the row below it may yield, and that a feature to
  be deleted is still nobody's.
* **TokenCacheProofs.** `InvHolds`, `DenialsHold`. `OneProber` makes the probing
  call the only writer, `TriedInOrder` says why each earlier token was passed
  over, `FoundForOwner` where the cached one came from; a denial by neither an
  excuse nor a change contradicts one of the three.
* **FeatureRowsProofs.** What the three saves make of the rows, and that
  `RowsIInv` is kept. A full save is a recursive function over the tree: its
  equation (`StagesEquation`) gives one feature's stage from the one before, and
  an induction along the tree shows that the rows stay well formed, that ids and
  tasks of what no directory names stay, and that log entries stay prefixes
  (`WithFeaturesFits`). `RowsIInv` adds to `Inv` and `SavedIsRecorded` that
  each attempt saves once, which keeps what is counted within its bound
  (`AttemptsCounted`), that a save an attempt names has been committed
  (`SavesKnown`), and that a full sync's snapshots are of what the commit it read
  holds (`FullFollows`), without which a row it prunes need not be gone from git.
* **SnapshotReadsProofs.** `InvHolds`, `RecordHolds`, `RemovalsHold`, `ReadsHold`,
  `LabelsHold`. `Follows` says that what was there throughout a read is there
  under the id the reader looked up, a renewed task aside: then no statement can
  miss it. `NotOvertaken` says that a run names a save that was committed before,
  so that until a run is recorded the latest one is no later than the rows read.
* **BranchRoutingProofs.** `PlainPushesRouted`: `RoutedRight` and `FetchedRight`
  hold of every push of the default branch and of a task's branch, whatever the
  branch pattern is – any number of placeholders, in any order – and of every
  feature's and init branch if the pattern ends in the task and has no task's id
  written in it; all this for any feature and task ids. `DefaultPushesRouted`: so
  they do in a workspace that sets no pattern. `DerivedRight`: wherever
  `RoutedRight` holds `FetchedRight` does, because `DeriveBranch` spells the very
  name the pattern gives the task (`DerivesBranch`).

  The argument: the name that a pattern gives matches it (`NameMatches`), and no
  match that agrees with it up to some group takes more for that group
  (`NoMore`), so the greedy match gives each group its own (`Greedy`). For more
  would take in the separator behind the group. That separator is in none of the
  names – this is what `ReadsAcross` excludes – so it stands in the branch only
  where the pattern has it (`OnlyLiterals`); then of all its places in the pattern
  the last that such a match finds late is found where a still later one belongs,
  which is late as well. If no feature comes behind the group, only tasks do, each
  a single word, and no word is left to give up. A feature's branch that is parsed
  as a task's has a name that ends like one (`NoTaskInName`, where some greedy
  match has to exist: `GreedyExists`). `RoutingInv` keeps branch, jobs and what
  they fetched as functions of the push while the pattern has not changed.

  `RoutedRight` cannot be proved of the rest. A branch of `OtherBranches` may be
  named like a task's. With `feature/{feature_id}-{work_id}-x` the branch of a
  feature `a-T1-x` is parsed as task T1 of `a`, and with
  `{feature_id}-T1/T1-{work_id}` that of a feature `a-T1/T1`: hence the two
  conditions on feature branches.

The induction theorems of the library take an operator, which the provers cannot
instantiate. Where a recursive function over the tree or a pattern is concerned,
the induction is over a set of numbers (`Counting`): a set that holds 0, and
with each number the next, holds them all, because the rest would have a least
element.

Only model-checked: `EveryJobLeaves` and `EveryCallEnds` (liveness under
fairness, and ENABLED, are beyond the prover), and `RoutedRight` for the branches
named above. No module declares a RECURSIVE operator.

## 6. Not modelled

* HTTP, JSON, YAML, signatures, configuration, logging: pure I/O and formats.
* `ListWorkspaces`, `ListFeatureTasks` and `ListActivity`: one or two statements
  that look up and list as `GetFeature` and `GetTask` do. The documents and
  activity of an answer are read by id like its tasks.
* A token given with a request (`ImportInput.Token`): no caller sets it.
* Repos, documents and model policy rows: written with the feature or the
  snapshot, no one else writes them; a failure there is a skipped feature or a
  rolled back save. A feature's history is upserted by position like a task's
  log, which is modelled.
* Task files of one base name in different subdirectories of a feature.
* What the Go service owns in `FeatureRows`: `SnapshotStore` has it.
* Lists of more than 100 pending task jobs: a full sync that deletes nothing of a
  page goes on to the next, which may by then have moved up.
* What else the Go service does: it claims features and tasks at any time and in
  any order, moves a claimed feature's status on, and never deletes or unclaims.
* A task's status, which a sync overwrites whoever owns the task: what the Go
  service expects is not in this repository.
* Staleness by age, which compares two times: a comparison with a threshold in
  one expression, covered by its unit tests.
* White space around a branch pattern, which `ClassifyBranch` trims and
  `HandleTaskSync` does not.
* Waiting on row locks: a blocked statement is an action that is not enabled, and
  a deadlock PostgreSQL breaks is a skipped feature or a failed save.

## 7. Plan

Done, in this order: `SyncQueue`, `WorkspaceSync`, `ImportWorkspace`,
`SnapshotStore`, `BranchRouting`, with proofs of the first four; then
`AtomicStore` with the refinement checked and proved, `TokenCache` with its
proofs, `FeatureRows` and `SnapshotReads`; then the proofs of what saves do to
the rows and of what readers are given, and of what a branch name is parsed as.

Next:

1. Proofs: the decrease of what a call of `TokenCache` has still to probe, the
   safety half of `EveryCallEnds`.
2. `WorkspaceSync` and `SnapshotStore` composed: `SaveImport` and `SaveTarget`
   refined by the transactions, one feature, to carry `OnlyKnownDrift` down to
   the rows. `AtomicStore` is the interface: what is left is a save's content.
3. `FeatureRows` with two full syncs' worth of attempts: more pushes than one,
   with the second directory fixed.
