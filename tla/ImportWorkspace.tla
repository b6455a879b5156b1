-------------------------- MODULE ImportWorkspace --------------------------
(***************************************************************************)
(* POST /internal/workspaces/import, next to sync requests and the worker. *)
(*                                                                         *)
(* An import makes a workspace known in three commits: the placeholder     *)
(* (workspace and GitHub source rows, one transaction), a sync run in      *)
(* state running, and the full sync job that carries the run's id and the  *)
(* workspace's name.  Each request mints its own workspace id, so requests *)
(* and workspaces have the same names here.  The job is SyncQueue's full   *)
(* key, and its attempt WorkspaceSync's full attempt, both reduced to what *)
(* they do to the workspace row and to its sync runs.                      *)
(***************************************************************************)
EXTENDS Naturals

CONSTANTS
  Requests,   \* import requests, and the workspaces they may create
  Repos,
  Orgs,
  Slugs,      \* slugs of names
  OwnSlug,    \* the slug of the name in a repository's workspace.yaml
  None,       \* no row, no answer
  MaxSyncs    \* sync requests (bound)

ASSUME OwnSlugAssumption == OwnSlug \in [Repos -> Slugs]
ASSUME MaxSyncsAssumption == MaxSyncs \in Nat

VARIABLES
  ask,      \* what each client asks for; without a name, the repository's
  pc,       \* how far the request's handler has come
  answer,   \* what the client was told
  row,      \* the workspace and its GitHub source
  run,      \* the status of the import's own sync run
  last,     \* the status of the workspace's latest finished run
  left,     \* some other run was left running by an attempt that died
  job,      \* the full sync job of the workspace, and its attempt
  carries,  \* that job is the import's: it has the run's id and the name
  syncs     \* sync requests so far

apiVars == <<ask, pc, answer, syncs>>
vars == <<ask, pc, answer, row, run, last, left, job, carries, syncs>>

InFlight == {"find", "fetch", "create", "slug taken", "repo taken", "created",
             "queue", "not queued", "duplicate"}
Attempting == {"running", "saved", "recording", "recorded"}

Rows == [repo : Repos, org : Orgs, slug : Slugs]
Naming == [status : {"exists", "accepted", "already_queued"},
           ws : Requests, org : Orgs]
Refusals == [status : {"conflict", "error"}]

ASSUME NoneAssumption == None \notin Rows \cup Naming \cup Refusals

TypeOK ==
  /\ ask \in [Requests -> Rows]
  /\ pc \in [Requests -> InFlight \cup {"idle", "done"}]
  /\ answer \in [Requests -> Naming \cup Refusals \cup {None}]
  /\ row \in [Requests -> Rows \cup {None}]
  /\ run \in [Requests -> {"none", "running", "failed", "success"}]
  /\ last \in [Requests -> {"none", "failed", "success"}]
  /\ left \in [Requests -> BOOLEAN]
  /\ job \in [Requests -> Attempting \cup {"none", "waiting", "archived"}]
  /\ carries \in [Requests -> BOOLEAN]
  /\ syncs \in 0..MaxSyncs

Init ==
  /\ ask \in [Requests -> Rows]
  /\ pc = [r \in Requests |-> "idle"]
  /\ answer = [r \in Requests |-> None]
  /\ row = [r \in Requests |-> None]
  /\ run = [r \in Requests |-> "none"]
  /\ last = [r \in Requests |-> "none"]
  /\ left = [r \in Requests |-> FALSE]
  /\ job = [r \in Requests |-> "none"]
  /\ carries = [r \in Requests |-> FALSE]
  /\ syncs = 0

----------------------------------------------------------------------------
\* Helpers.

Workspaces == {w \in Requests : row[w] # None}

SlugTaken(slug, w) == \E x \in Workspaces \ {w} : row[x].slug = slug
OwnersOf(repo) == {w \in Workspaces : row[w].repo = repo}

Goto(r, step) ==
  /\ pc' = [pc EXCEPT ![r] = step]
  /\ UNCHANGED <<ask, answer, syncs>>

Reply(r, a) ==
  /\ pc' = [pc EXCEPT ![r] = "done"]
  /\ answer' = [answer EXCEPT ![r] = a]
  /\ UNCHANGED <<ask, syncs>>

Named(status, w, org) == [status |-> status, ws |-> w, org |-> org]

\* A run of w finishes, and becomes the latest one.
Finish(w, status) == last' = [last EXCEPT ![w] = status]

----------------------------------------------------------------------------
\* ImportWorkspaceHandler.

\* A request that passes validation arrives.
Submit(r) ==
  /\ pc[r] = "idle"
  /\ Goto(r, "find")
  /\ UNCHANGED <<row, run, last, left, job, carries>>

\* The repository is registered: its workspace is the answer, with the
\* organization it was first imported for.
ReplyExisting(r) ==
  \E w \in OwnersOf(ask[r].repo) : Reply(r, Named("exists", w, row[w].org))

\* findExistingImport.
Find(r) ==
  /\ pc[r] = "find"
  /\ IF OwnersOf(ask[r].repo) # {} THEN ReplyExisting(r) ELSE Goto(r, "fetch")
  /\ UNCHANGED <<row, run, last, left, job, carries>>

\* FetchWorkspaceMetadata finds a workspace.yaml.
Preflight(r) ==
  /\ pc[r] = "fetch"
  /\ Goto(r, "create")
  /\ UNCHANGED <<row, run, last, left, job, carries>>

\* Mutant of CreatePlaceholder: a registered repository is given to the new
\* workspace (ON CONFLICT on the repository instead of on the workspace).
CreateTakingOver(r) ==
  /\ pc[r] = "create"
  /\ \/ /\ SlugTaken(ask[r].slug, r)
        /\ Goto(r, "slug taken")
        /\ UNCHANGED row
     \/ /\ ~SlugTaken(ask[r].slug, r)
        /\ row' = [w \in Requests |->
                     IF w = r THEN ask[r]
                     ELSE IF w \in OwnersOf(ask[r].repo) THEN None ELSE row[w]]
        /\ Goto(r, "created")
  /\ UNCHANGED <<run, last, left, job, carries>>

\* createImportPlaceholder: both rows or none.  The workspace is inserted
\* first, so a taken slug is what the error names.
CreatePlaceholder(r) ==
  /\ pc[r] = "create"
  /\ \/ /\ SlugTaken(ask[r].slug, r)
        /\ Goto(r, "slug taken")
        /\ UNCHANGED row
     \/ /\ ~SlugTaken(ask[r].slug, r)
        /\ OwnersOf(ask[r].repo) # {}
        /\ Goto(r, "repo taken")
        /\ UNCHANGED row
     \/ /\ ~SlugTaken(ask[r].slug, r)
        /\ OwnersOf(ask[r].repo) = {}
        /\ row' = [row EXCEPT ![r] = ask[r]]
        /\ Goto(r, "created")
  /\ UNCHANGED <<run, last, left, job, carries>>

\* After a unique violation: did someone else import the repository?
FindAgain(r) ==
  /\ pc[r] \in {"slug taken", "repo taken"}
  /\ IF OwnersOf(ask[r].repo) # {}
     THEN ReplyExisting(r)
     ELSE Reply(r, [status |-> IF pc[r] = "slug taken" THEN "conflict"
                                                       ELSE "error"])
  /\ UNCHANGED <<row, run, last, left, job, carries>>

\* insertRunningRun.
InsertRun(r) ==
  /\ pc[r] = "created"
  /\ run' = [run EXCEPT ![r] = "running"]
  /\ Goto(r, "queue")
  /\ UNCHANGED <<row, last, left, job, carries>>

\* GitHub or the database fails a step before the job is enqueued.
ImportFails(r) ==
  /\ pc[r] \in {"find", "fetch", "create", "slug taken", "repo taken",
                "created"}
  /\ Reply(r, [status |-> "error"])
  /\ UNCHANGED <<row, run, last, left, job, carries>>

PutJob(r) ==
  /\ job' = [job EXCEPT ![r] = "waiting"]
  /\ carries' = [carries EXCEPT ![r] = TRUE]

\* Enqueue under the task id of the workspace's full sync.  An error does not
\* tell whether Redis took the job.
Enqueue(r) ==
  /\ pc[r] = "queue"
  /\ \/ /\ job[r] = "none"
        /\ PutJob(r)
        /\ \/ Reply(r, Named("accepted", r, ask[r].org))
           \/ Goto(r, "not queued")
     \/ /\ job[r] # "none"
        /\ Goto(r, "duplicate")
        /\ UNCHANGED <<job, carries>>
     \/ /\ Goto(r, "not queued")
        /\ UNCHANGED <<job, carries>>
  /\ UNCHANGED <<row, run, last, left>>

\* Mutant of MarkRunFailed: any error of the queue is taken for a duplicate.
MarkRunFailedLeniently(r) ==
  /\ pc[r] \in {"not queued", "duplicate"}
  /\ \/ /\ run' = [run EXCEPT ![r] = "failed"]
        /\ Finish(r, "failed")
     \/ UNCHANGED <<run, last>>
  /\ Reply(r, Named("already_queued", r, ask[r].org))
  /\ UNCHANGED <<row, left, job, carries>>

\* markRunFailed, whose own failure is only logged, and the answer: a
\* duplicate counts as accepted.
MarkRunFailed(r) ==
  /\ pc[r] \in {"not queued", "duplicate"}
  /\ \/ /\ run' = [run EXCEPT ![r] = "failed"]
        /\ Finish(r, "failed")
     \/ UNCHANGED <<run, last>>
  /\ Reply(r, IF pc[r] = "duplicate"
              THEN Named("already_queued", r, ask[r].org)
              ELSE [status |-> "error"])
  /\ UNCHANGED <<row, left, job, carries>>

\* The api process dies; the client is told nothing.
Crash ==
  /\ \E r \in Requests : pc[r] \in InFlight
  /\ pc' = [r \in Requests |-> IF pc[r] \in InFlight THEN "done" ELSE pc[r]]
  /\ UNCHANGED <<ask, answer, row, run, last, left, job, carries, syncs>>

\* SyncWorkspaceHandler on a workspace that has been created: same task id.
SyncWorkspace(w) ==
  /\ syncs < MaxSyncs
  /\ syncs' = syncs + 1
  /\ w \in Workspaces
  /\ job[w] = "none"
  /\ job' = [job EXCEPT ![w] = "waiting"]
  /\ UNCHANGED <<ask, pc, answer, row, run, last, left, carries>>

----------------------------------------------------------------------------
\* The worker: HandleWorkspaceSync, mode full.

Begin(w) ==
  /\ job[w] = "waiting"
  /\ job' = [job EXCEPT ![w] = "running"]
  /\ UNCHANGED <<apiVars, row, run, last, left, carries>>

\* An incremental sync leaves the workspace row alone; a full one renames it,
\* to the job's name or to what workspace.yaml says, if the slug is free.
Save(w) ==
  /\ job[w] = "running"
  /\ \/ /\ last[w] = "success"
        /\ UNCHANGED row
     \/ LET slug == IF carries[w] THEN ask[w].slug ELSE OwnSlug[row[w].repo]
        IN  /\ ~SlugTaken(slug, w)
            /\ row' = [row EXCEPT ![w].slug = slug]
  /\ job' = [job EXCEPT ![w] = "saved"]
  /\ UNCHANGED <<apiVars, run, last, left, carries>>

\* ensureSyncRun inserts a run unless the job carries one.
EnsureSyncRun(w) ==
  /\ job[w] = "saved"
  /\ ~carries[w]
  /\ job' = [job EXCEPT ![w] = "recording"]
  /\ UNCHANGED <<apiVars, row, run, last, left, carries>>

RecordSuccess(w) ==
  /\ job[w] = IF carries[w] THEN "saved" ELSE "recording"
  /\ job' = [job EXCEPT ![w] = "recorded"]
  /\ run' = [run EXCEPT ![w] = IF carries[w] THEN "success" ELSE @]
  /\ Finish(w, "success")
  /\ UNCHANGED <<apiVars, row, left, carries>>

Forget(w) ==
  /\ job' = [job EXCEPT ![w] = "none"]
  /\ carries' = [carries EXCEPT ![w] = FALSE]

Complete(w) ==
  /\ job[w] = "recorded"
  /\ Forget(w)
  /\ UNCHANGED <<apiVars, row, run, last, left>>

\* The attempt fails or dies and the job is retried or archived.  Up to the
\* save the failure is recorded, if it can be; a run that was inserted and
\* not finished stays running.
FailAttempt(w) ==
  /\ job[w] \in Attempting
  /\ \E next \in {"waiting", "archived"} : job' = [job EXCEPT ![w] = next]
  /\ \/ /\ job[w] \in {"running", "saved"}
        /\ run' = [run EXCEPT ![w] = IF carries[w] THEN "failed" ELSE @]
        /\ Finish(w, "failed")
        /\ UNCHANGED left
     \/ /\ UNCHANGED <<run, last>>
        /\ left' = [left EXCEPT ![w] = IF job[w] = "recording" THEN TRUE ELSE @]
     \/ /\ job[w] \in {"running", "saved"}
        /\ ~carries[w]
        /\ UNCHANGED <<run, last>>
        /\ left' = [left EXCEPT ![w] = TRUE]
  /\ UNCHANGED <<apiVars, row, carries>>

\* The startup drain or the cleanup deletes a job that is not being run.
DropJob(w) ==
  /\ job[w] \in {"waiting", "archived"}
  /\ Forget(w)
  /\ UNCHANGED <<apiVars, row, run, last, left>>

----------------------------------------------------------------------------
Import(r) ==
  \/ Submit(r)
  \/ Find(r)
  \/ Preflight(r)
  \/ CreatePlaceholder(r)
  \/ FindAgain(r)
  \/ InsertRun(r)
  \/ ImportFails(r)
  \/ Enqueue(r)
  \/ MarkRunFailed(r)

Sync(w) ==
  \/ SyncWorkspace(w)
  \/ Begin(w)
  \/ Save(w)
  \/ EnsureSyncRun(w)
  \/ RecordSuccess(w)
  \/ Complete(w)
  \/ FailAttempt(w)
  \/ DropJob(w)

Next ==
  \/ \E r \in Requests : Import(r)
  \/ \E w \in Requests : Sync(w)
  \/ Crash

Spec == Init /\ [][Next]_vars

----------------------------------------------------------------------------
\* Safety.

\* Every answer that names a workspace names the one that has the repository
\* asked for, and the organization that workspace still has: imports that
\* race, retry or are repeated for another organization agree, whatever slugs
\* they ask for and whatever syncs rename since.
AnswersAgree ==
  /\ \A w, x \in Workspaces : w # x =>
       row[w].repo # row[x].repo /\ row[w].slug # row[x].slug
  /\ \A r \in Requests : answer[r] \in Naming =>
       /\ answer[r].ws \in OwnersOf(ask[r].repo)
       /\ answer[r].org = row[answer[r].ws].org

\* An import that lost the race for its repository will find the winner: it is
\* never answered with the bare database error.
LoserFindsWinner ==
  \A r \in Requests : pc[r] = "repo taken" => OwnersOf(ask[r].repo) # {}

\* The three commits of an import keep their order: no run and no job before the
\* rows, no job that names a run which does not exist, no answer before the
\* end; a job is not over before a run is recorded.
Ordered(r) ==
  /\ pc[r] \in {"idle", "find", "fetch", "create", "slug taken", "repo taken"} =>
       row[r] = None
  /\ pc[r] \in {"created", "queue", "not queued", "duplicate"} => row[r] # None
  /\ pc[r] \in {"queue", "not queued", "duplicate"} => run[r] # "none"
  /\ row[r] = None => run[r] = "none" /\ last[r] = "none" /\ job[r] = "none"
  /\ row[r] # None => row[r].repo = ask[r].repo /\ row[r].org = ask[r].org
  /\ carries[r] => /\ pc[r] \in {"not queued", "done"}
                   /\ job[r] # "none"
                   /\ run[r] # "none"
  /\ answer[r] # None => pc[r] = "done"
  /\ job[r] = "recorded" => last[r] # "none"
CommitsInOrder == \A r \in Requests : Ordered(r)

Inv ==
  /\ TypeOK
  /\ AnswersAgree
  /\ LoserFindsWinner
  /\ CommitsInOrder

\* A job of w waits, is being run or will be tried again.  An archived one is
\* not: asynq never runs it again, and it turns every later one away.
Tried(w) == job[w] \in Attempting \cup {"waiting"}

\* Workspace w is known, imports of its repository are answered "exists", and
\* nobody has synced it, is trying to, or has recorded a failure.
Abandoned(w) ==
  /\ w \in Workspaces
  /\ pc[w] \notin InFlight
  /\ ~Tried(w)
  /\ last[w] = "none"

\* The import ended in an error or a crash.
GaveUp(w) == pc[w] \in InFlight /\ answer'[w] \notin Naming

\* The job was deleted while it waited.
DeletedWaiting(w) == job[w] = "waiting" /\ job'[w] = "none"

\* An attempt was the last one, or refused, and no attempt recorded that it
\* failed: ensureWorkspaceExists returns before there is a run, an attempt may
\* die, and recordFailedRun only logs that it could not.
FailedUnrecorded(w) ==
  job[w] \in Attempting /\ job'[w] = "archived" /\ last'[w] = "none"

\* The import was told a job was already queued.  That job is archived, or has
\* been deleted since, and the import could not record that its own run failed.
CountedOnDeadJob(w) ==
  pc[w] = "duplicate" /\ answer'[w] \in Naming /\ last'[w] = "none"

\* A workspace is abandoned in these four ways only.  An import answered
\* "accepted" is not unless its job is deleted or fails for good unrecorded.
AbandonIsKnown ==
  \A w \in Requests :
    ~Abandoned(w) /\ Abandoned(w)' =>
      GaveUp(w) \/ DeletedWaiting(w) \/ FailedUnrecorded(w) \/ CountedOnDeadJob(w)
OnlyKnownAbandonment == [][AbandonIsKnown]_vars

\* DeriveSourceState on the latest run: finished ones come first, and staleness
\* by age is left out.
SourceState(w) ==
  IF last[w] # "none" THEN last[w]
  ELSE IF run[w] = "running" \/ job[w] = "recording" \/ left[w] THEN "running"
  ELSE "none"

\* DeriveSourceState's comment on a running run: a sync is in progress.  So the
\* import has still to enqueue its job, or a job of the workspace is tried.
RunningMeansInProgress ==
  \A w \in Requests :
    SourceState(w) = "running" => pc[w] \in InFlight \/ Tried(w)

=============================================================================
