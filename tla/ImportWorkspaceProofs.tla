----------------------- MODULE ImportWorkspaceProofs -----------------------
(***************************************************************************)
(* Proofs about ImportWorkspace, for any requests, repositories,           *)
(* organizations, slugs and number of sync requests.                       *)
(*                                                                         *)
(* Inv is inductive as it stands.                                          *)
(***************************************************************************)
EXTENDS ImportWorkspace, TLAPS

\* Answers that name a workspace and refusals are told apart by their status.
LEMMA NamedIsNaming ==
  ASSUME NEW status \in {"exists", "accepted", "already_queued"},
         NEW w \in Requests, NEW org \in Orgs
  PROVE  /\ Named(status, w, org) \in Naming
         /\ Named(status, w, org).ws = w
         /\ Named(status, w, org).org = org
BY DEF Named, Naming

LEMMA RefusalIsNotNaming ==
  ASSUME NEW a \in Refusals
  PROVE  a \notin Naming
<1>1. a.status \in {"conflict", "error"}
  BY DEF Refusals
<1>2. \A n \in Naming : n.status \in {"exists", "accepted", "already_queued"}
  BY DEF Naming
<1> QED BY <1>1, <1>2

LEMMA InitInv == Init => Inv
<1> SUFFICES ASSUME Init PROVE Inv
  OBVIOUS
<1>1. TypeOK
  BY MaxSyncsAssumption DEF Init, TypeOK
<1>2. Workspaces = {}
  BY DEF Init, Workspaces
<1>3. None \notin Naming
  BY NoneAssumption
<1>4. AnswersAgree
  BY <1>2, <1>3 DEF Init, AnswersAgree
<1>5. LoserFindsWinner
  BY DEF Init, LoserFindsWinner
<1>6. CommitsInOrder
  BY DEF Init, CommitsInOrder, Ordered
<1> QED BY <1>1, <1>4, <1>5, <1>6 DEF Inv

\* Every step keeps the types; a job, and so a save, is of a workspace that has
\* its rows.
LEMMA TypeStep ==
  ASSUME TypeOK, CommitsInOrder, [Next]_vars
  PROVE  TypeOK'
<1> USE DEF TypeOK
<1>0. CASE UNCHANGED vars
  BY <1>0 DEF vars
<1>1. ASSUME NEW r \in Requests, Import(r) PROVE TypeOK'
  <2> USE DEF Goto, Reply, apiVars, InFlight
  <2>1. CASE Submit(r)
    BY <2>1 DEF Submit
  <2>2. [status |-> "error"] \in Refusals /\ [status |-> "conflict"] \in Refusals
    BY DEF Refusals
  <2>3. ASSUME ReplyExisting(r)
        PROVE  /\ pc' \in [Requests -> InFlight \cup {"idle", "done"}]
               /\ answer' \in [Requests -> Naming \cup Refusals \cup {None}]
               /\ UNCHANGED <<ask, syncs>>
    <3>1. PICK w \in OwnersOf(ask[r].repo) :
            Reply(r, Named("exists", w, row[w].org))
      BY <2>3 DEF ReplyExisting
    <3>2. w \in Requests /\ row[w].org \in Orgs
      BY <3>1 DEF OwnersOf, Workspaces, Rows
    <3> QED BY <3>1, <3>2, NamedIsNaming
  <2>4. CASE Find(r)
    BY <2>3, <2>4 DEF Find
  <2>5. CASE Preflight(r)
    BY <2>5 DEF Preflight
  <2>6. CASE CreatePlaceholder(r)
    <3>1. ask[r] \in Rows
      OBVIOUS
    <3>2. row' = row \/ row' = [row EXCEPT ![r] = ask[r]]
      BY <2>6 DEF CreatePlaceholder
    <3>3. row' \in [Requests -> Rows \cup {None}]
      BY <3>1, <3>2
    <3>4. pc' \in [Requests -> InFlight \cup {"idle", "done"}]
          /\ UNCHANGED <<ask, answer, syncs, run, last, left, job, carries>>
      BY <2>6 DEF CreatePlaceholder
    <3> QED BY <3>3, <3>4
  <2>7. CASE FindAgain(r)
    BY <2>2, <2>3, <2>7 DEF FindAgain
  <2>8. CASE InsertRun(r)
    BY <2>8 DEF InsertRun
  <2>9. CASE ImportFails(r)
    BY <2>2, <2>9 DEF ImportFails
  <2>10. ask[r].org \in Orgs
    BY DEF Rows
  <2>11. CASE Enqueue(r)
    <3> DEFINE a == Named("accepted", r, ask[r].org)
    <3>1. a \in Naming
      BY <2>10, NamedIsNaming
    <3>2. answer' = answer \/ answer' = [answer EXCEPT ![r] = a]
      BY <2>11 DEF Enqueue
    <3> HIDE DEF a
    <3>3. answer' \in [Requests -> Naming \cup Refusals \cup {None}]
      BY <3>1, <3>2
    <3>4. /\ pc' \in [Requests -> InFlight \cup {"idle", "done"}]
          /\ UNCHANGED <<ask, syncs, row, run, last, left>>
      BY <2>11 DEF Enqueue
    <3>5. /\ job' = job \/ job' = [job EXCEPT ![r] = "waiting"]
          /\ carries' = carries \/ carries' = [carries EXCEPT ![r] = TRUE]
      BY <2>11 DEF Enqueue, PutJob
    <3> QED BY <3>3, <3>4, <3>5 DEF Attempting
  <2>12. CASE MarkRunFailed(r)
    <3> DEFINE a == IF pc[r] = "duplicate"
                    THEN Named("already_queued", r, ask[r].org)
                    ELSE [status |-> "error"]
    <3>1. a \in Naming \cup Refusals
      BY <2>2, <2>10, NamedIsNaming
    <3>2. answer' = [answer EXCEPT ![r] = a]
      BY <2>12 DEF MarkRunFailed
    <3> HIDE DEF a
    <3>3. answer' \in [Requests -> Naming \cup Refusals \cup {None}]
      BY <3>1, <3>2
    <3>4. /\ pc' \in [Requests -> InFlight \cup {"idle", "done"}]
          /\ UNCHANGED <<ask, syncs, row, left, job, carries>>
      BY <2>12 DEF MarkRunFailed
    <3>5. /\ run' \in [Requests -> {"none", "running", "failed", "success"}]
          /\ last' \in [Requests -> {"none", "failed", "success"}]
      BY <2>12 DEF MarkRunFailed, Finish
    <3> QED BY <3>3, <3>4, <3>5
  <2> QED
    BY <1>1, <2>1, <2>4, <2>5, <2>6, <2>7, <2>8, <2>9, <2>11, <2>12 DEF Import
<1>2. ASSUME NEW w \in Requests, Sync(w) PROVE TypeOK'
  <2> USE DEF apiVars, Attempting
  <2>1. CASE SyncWorkspace(w)
    BY <2>1, MaxSyncsAssumption DEF SyncWorkspace
  <2>2. CASE Begin(w)
    BY <2>2 DEF Begin
  <2>3. CASE Save(w)
    <3>0. job[w] = "running"
      BY <2>3 DEF Save
    <3>1. row[w] \in Rows
      <4>1. Ordered(w)
        BY DEF CommitsInOrder
      <4>2. row[w] # None
        BY <3>0, <4>1 DEF Ordered
      <4> QED BY <4>2
    <3>2. ask[w].slug \in Slugs /\ OwnSlug[row[w].repo] \in Slugs
      BY <3>1, OwnSlugAssumption DEF Rows
    <3>3. \A slug \in Slugs : [row[w] EXCEPT !.slug = slug] \in Rows
      BY <3>1 DEF Rows
    <3>4. row' = row \/ \E slug \in Slugs :
                           row' = [row EXCEPT ![w] = [row[w] EXCEPT !.slug = slug]]
      BY <2>3, <3>2 DEF Save
    <3>5. row' \in [Requests -> Rows \cup {None}]
      BY <3>3, <3>4
    <3> QED BY <2>3, <3>5 DEF Save
  <2>4. CASE EnsureSyncRun(w)
    BY <2>4 DEF EnsureSyncRun
  <2>5. CASE RecordSuccess(w)
    BY <2>5 DEF RecordSuccess, Finish
  <2>6. CASE Complete(w)
    BY <2>6 DEF Complete, Forget
  <2>7. CASE FailAttempt(w)
    <3>1. \/ left' = left
          \/ left' = [left EXCEPT ![w] = TRUE]
          \/ left' = [left EXCEPT ![w] = IF job[w] = "recording" THEN TRUE ELSE @]
      BY <2>7 DEF FailAttempt
    <3>2. left' \in [Requests -> BOOLEAN]
      BY <3>1, left \in [Requests -> BOOLEAN]
    <3>3. \E next \in {"waiting", "archived"} : job' = [job EXCEPT ![w] = next]
      BY <2>7 DEF FailAttempt
    <3>4. job' \in [Requests -> Attempting \cup {"none", "waiting", "archived"}]
      BY <3>3
    <3>5. /\ run' = run \/ \E s \in {"failed", run[w]} : run' = [run EXCEPT ![w] = s]
          /\ last' = last \/ last' = [last EXCEPT ![w] = "failed"]
          /\ UNCHANGED <<ask, pc, answer, syncs, row, carries>>
      BY <2>7 DEF FailAttempt, Finish
    <3> QED BY <3>2, <3>4, <3>5
  <2>8. CASE DropJob(w)
    BY <2>8 DEF DropJob, Forget
  <2> QED
    BY <1>2, <2>1, <2>2, <2>3, <2>4, <2>5, <2>6, <2>7, <2>8 DEF Sync
<1>3. CASE Crash
  BY <1>3 DEF Crash
<1> QED BY <1>0, <1>1, <1>2, <1>3 DEF Next

\* The two ways workspace rows are written: a placeholder appears, for a
\* request that has none yet; a sync renames a workspace.
Placed(r) ==
  /\ row[r] = None
  /\ ~SlugTaken(ask[r].slug, r)
  /\ OwnersOf(ask[r].repo) = {}
  /\ row' = [row EXCEPT ![r] = ask[r]]

Renamed(w) ==
  /\ row[w] \in Rows
  /\ row[w] # None
  /\ \E slug \in Slugs :
       /\ ~SlugTaken(slug, w)
       /\ row' = [row EXCEPT ![w] = [row[w] EXCEPT !.slug = slug]]

RowsWritten ==
  \/ row' = row
  \/ \E r \in Requests : Placed(r)
  \/ \E w \in Requests : Renamed(w)

LEMMA RowWrites ==
  ASSUME Inv, [Next]_vars
  PROVE  ask' = ask /\ RowsWritten
<1>0. CASE UNCHANGED vars
  BY <1>0 DEF vars, RowsWritten
<1>1. ASSUME NEW r \in Requests, Import(r) PROVE ask' = ask /\ RowsWritten
  <2>1. CASE CreatePlaceholder(r)
    <3>1. row[r] = None
      <4>1. pc[r] = "create"
        BY <2>1 DEF CreatePlaceholder
      <4> QED BY <4>1 DEF Inv, CommitsInOrder, Ordered
    <3>2. ask' = ask /\ (row' = row \/ Placed(r))
      BY <2>1, <3>1 DEF CreatePlaceholder, Goto, Placed
    <3> QED BY <3>2 DEF RowsWritten
  <2>2. CASE ~CreatePlaceholder(r)
    BY <1>1, <2>2
       DEF Import, Submit, Find, ReplyExisting, Preflight, FindAgain,
           InsertRun, ImportFails, Enqueue, MarkRunFailed, Goto, Reply,
           RowsWritten
  <2> QED BY <2>1, <2>2
<1>2. ASSUME NEW w \in Requests, Sync(w) PROVE ask' = ask /\ RowsWritten
  <2>1. CASE Save(w)
    <3>1. job[w] = "running"
      BY <2>1 DEF Save
    <3>2. row[w] # None
      BY <3>1 DEF Inv, CommitsInOrder, Ordered
    <3>3. row[w] \in Rows
      BY <3>2 DEF Inv, TypeOK
    <3>4. ask[w].slug \in Slugs /\ OwnSlug[row[w].repo] \in Slugs
      BY <3>3, OwnSlugAssumption DEF Inv, TypeOK, Rows
    <3> DEFINE slug == IF carries[w] THEN ask[w].slug ELSE OwnSlug[row[w].repo]
    <3>5. slug \in Slugs
      BY <3>4
    <3>6. \/ row' = row
          \/ /\ ~SlugTaken(slug, w)
             /\ row' = [row EXCEPT ![w].slug = slug]
      BY <2>1 DEF Save
    <3>7. ask' = ask
      BY <2>1 DEF Save, apiVars
    <3> HIDE DEF slug
    <3> QED BY <3>2, <3>3, <3>5, <3>6, <3>7 DEF RowsWritten, Renamed
  <2>2. CASE ~Save(w)
    BY <1>2, <2>2
       DEF Sync, SyncWorkspace, Begin, EnsureSyncRun, RecordSuccess, Complete,
           FailAttempt, DropJob, apiVars, RowsWritten
  <2> QED BY <2>1, <2>2
<1>3. CASE Crash
  BY <1>3 DEF Crash, RowsWritten
<1> QED BY <1>0, <1>1, <1>2, <1>3 DEF Next

\* A workspace keeps its repository and its organization for good, and no two
\* come to share a repository or a slug.
Distinct(rows) ==
  \A w, x \in Requests :
    rows[w] # None /\ rows[x] # None /\ w # x =>
      rows[w].repo # rows[x].repo /\ rows[w].slug # rows[x].slug

LEMMA RowsKept ==
  ASSUME Inv, [Next]_vars
  PROVE  /\ ask' = ask
         /\ \A w \in Requests : row[w] # None =>
              /\ row'[w] # None
              /\ row'[w].repo = row[w].repo
              /\ row'[w].org = row[w].org
         /\ \A w \in Requests : row'[w] # None =>
              row'[w].repo = ask[w].repo /\ row'[w].org = ask[w].org
         /\ Distinct(row')
<1>1. /\ row \in [Requests -> Rows \cup {None}]
      /\ ask \in [Requests -> Rows]
  BY DEF Inv, TypeOK
<1>2. None \notin Rows
  BY NoneAssumption
<1>3. Distinct(row)
  BY DEF Inv, AnswersAgree, Workspaces, Distinct
<1>4. \A w \in Requests : row[w] # None =>
        row[w].repo = ask[w].repo /\ row[w].org = ask[w].org
  BY DEF Inv, CommitsInOrder, Ordered
<1>5. ask' = ask /\ RowsWritten
  BY RowWrites
<1>6. CASE row' = row
  BY <1>3, <1>4, <1>5, <1>6
<1>7. ASSUME NEW r \in Requests, Placed(r)
      PROVE  /\ \A w \in Requests : row[w] # None => row'[w] = row[w]
             /\ \A w \in Requests : row'[w] # None =>
                  row'[w].repo = ask[w].repo /\ row'[w].org = ask[w].org
             /\ Distinct(row')
  <2>1. \A x \in Requests : row[x] # None =>
          x # r /\ row[x].slug # ask[r].slug /\ row[x].repo # ask[r].repo
    BY <1>7 DEF Placed, SlugTaken, OwnersOf, Workspaces
  <2>2. \A x \in Requests : row'[x] = IF x = r THEN ask[r] ELSE row[x]
    BY <1>1, <1>7 DEF Placed
  <2>3. Distinct(row')
    BY <1>3, <2>1, <2>2 DEF Distinct
  <2> QED BY <1>4, <2>1, <2>2, <2>3
<1>8. ASSUME NEW w \in Requests, Renamed(w)
      PROVE  /\ \A x \in Requests : row[x] # None =>
                  /\ row'[x] # None
                  /\ row'[x].repo = row[x].repo
                  /\ row'[x].org = row[x].org
             /\ \A x \in Requests : row'[x] # None =>
                  row'[x].repo = ask[x].repo /\ row'[x].org = ask[x].org
             /\ Distinct(row')
  <2>1. PICK slug \in Slugs :
          /\ ~SlugTaken(slug, w)
          /\ row' = [row EXCEPT ![w] = [row[w] EXCEPT !.slug = slug]]
    BY <1>8 DEF Renamed
  <2> DEFINE new == [row[w] EXCEPT !.slug = slug]
  <2>2. row[w] \in Rows /\ row[w] # None
    BY <1>8 DEF Renamed
  <2>3. new \in Rows /\ new.repo = row[w].repo /\ new.org = row[w].org
        /\ new.slug = slug
    BY <2>2 DEF Rows
  <2>4. \A x \in Requests : row'[x] = IF x = w THEN new ELSE row[x]
    BY <1>1, <2>1
  <2>5. \A x \in Requests : row[x] # None /\ x # w => row[x].slug # slug
    BY <2>1 DEF SlugTaken, Workspaces
  <2> HIDE DEF new
  <2>6. new # None
    BY <1>2, <2>3
  <2>7. Distinct(row')
    BY <1>3, <2>2, <2>3, <2>4, <2>5 DEF Distinct
  <2> QED BY <1>4, <2>2, <2>3, <2>4, <2>6, <2>7
<1> QED BY <1>5, <1>6, <1>7, <1>8 DEF RowsWritten

\* What a step tells a client: nothing new, a refusal, or the workspace that
\* has the repository, with its organization.
Truthful(r) ==
  /\ answer'[r].ws \in OwnersOf(ask[r].repo)
  /\ answer'[r].org = row[answer'[r].ws].org

LEMMA ExistingIsTruthful ==
  ASSUME TypeOK, NEW r \in Requests, ReplyExisting(r)
  PROVE  /\ \A q \in Requests \ {r} : answer'[q] = answer[q]
         /\ Truthful(r)
         /\ pc' = [pc EXCEPT ![r] = "done"]
<1>1. PICK w \in OwnersOf(ask[r].repo) :
        Reply(r, Named("exists", w, row[w].org))
  BY DEF ReplyExisting
<1>2. w \in Requests /\ row[w].org \in Orgs
  BY <1>1 DEF OwnersOf, Workspaces, TypeOK, Rows
<1> DEFINE a == Named("exists", w, row[w].org)
<1>3. a.ws = w /\ a.org = row[w].org
  BY <1>2, NamedIsNaming
<1>4. answer' = [answer EXCEPT ![r] = a] /\ pc' = [pc EXCEPT ![r] = "done"]
  BY <1>1 DEF Reply
<1> HIDE DEF a
<1>5. \A q \in Requests : answer'[q] = IF q = r THEN a ELSE answer[q]
  BY <1>4 DEF TypeOK
<1> QED BY <1>1, <1>3, <1>4, <1>5 DEF Truthful

LEMMA AnswerSteps ==
  ASSUME Inv, [Next]_vars, NEW q \in Requests
  PROVE  \/ answer'[q] = answer[q]
         \/ answer'[q] \notin Naming
         \/ Truthful(q)
<1>1. TypeOK /\ CommitsInOrder
  BY DEF Inv
<1>2. ASSUME NEW r \in Requests, Import(r)
      PROVE  answer'[q] = answer[q] \/ answer'[q] \notin Naming \/ Truthful(q)
  <2>1. \A a : Reply(r, a) => answer'[q] = IF q = r THEN a ELSE answer[q]
    BY <1>1 DEF Reply, TypeOK
  <2>2. ASSUME Reply(r, [status |-> "error"]) \/ Reply(r, [status |-> "conflict"])
        PROVE  answer'[q] = answer[q] \/ answer'[q] \notin Naming
    <3>1. [status |-> "error"] \in Refusals /\ [status |-> "conflict"] \in Refusals
      BY DEF Refusals
    <3> QED BY <2>1, <2>2, <3>1, RefusalIsNotNaming
  <2>3. ASSUME ReplyExisting(r)
        PROVE  answer'[q] = answer[q] \/ Truthful(q)
    BY <1>1, <2>3, ExistingIsTruthful
  <2>4. ASSUME NEW status \in {"exists", "accepted", "already_queued"},
               pc[r] \in {"queue", "duplicate"},
               Reply(r, Named(status, r, ask[r].org))
        PROVE  answer'[q] = answer[q] \/ Truthful(q)
    <3>1. row[r] # None
      BY <1>1, <2>4 DEF CommitsInOrder, Ordered
    <3>2. r \in OwnersOf(ask[r].repo) /\ ask[r].org = row[r].org
      BY <1>1, <3>1 DEF CommitsInOrder, Ordered, OwnersOf, Workspaces
    <3> DEFINE a == Named(status, r, ask[r].org)
    <3>3. a.ws = r /\ a.org = ask[r].org
      BY DEF Named
    <3>4. answer'[q] = IF q = r THEN a ELSE answer[q]
      BY <2>1, <2>4
    <3> HIDE DEF a
    <3> QED BY <3>2, <3>3, <3>4 DEF Truthful
  <2>5. CASE \/ Submit(r) \/ Preflight(r) \/ CreatePlaceholder(r) \/ InsertRun(r)
    BY <2>5 DEF Submit, Preflight, CreatePlaceholder, InsertRun, Goto
  <2>6. CASE Find(r)
    BY <2>3, <2>6 DEF Find, Goto
  <2>7. CASE FindAgain(r)
    BY <2>2, <2>3, <2>7 DEF FindAgain
  <2>8. CASE ImportFails(r)
    BY <2>2, <2>8 DEF ImportFails
  <2>9. CASE Enqueue(r)
    BY <2>4, <2>9 DEF Enqueue, Goto
  <2>10. CASE MarkRunFailed(r)
    <3>1. CASE pc[r] = "duplicate"
      BY <2>4, <2>10, <3>1 DEF MarkRunFailed
    <3>2. CASE pc[r] # "duplicate"
      BY <2>2, <2>10, <3>2 DEF MarkRunFailed
    <3> QED BY <3>1, <3>2
  <2> QED BY <1>2, <2>5, <2>6, <2>7, <2>8, <2>9, <2>10 DEF Import
<1>3. ASSUME NEW w \in Requests, Sync(w) PROVE answer' = answer
  BY <1>3 DEF Sync, SyncWorkspace, Begin, Save, EnsureSyncRun, RecordSuccess,
              Complete, FailAttempt, DropJob, apiVars
<1>4. CASE Crash
  BY <1>4 DEF Crash
<1>5. CASE UNCHANGED vars
  BY <1>5 DEF vars
<1> QED BY <1>2, <1>3, <1>4, <1>5 DEF Next

LEMMA AgreeStep ==
  ASSUME Inv, [Next]_vars
  PROVE  AnswersAgree'
<1>1. /\ ask' = ask
      /\ \A w \in Requests : row[w] # None =>
           row'[w] # None /\ row'[w].repo = row[w].repo /\ row'[w].org = row[w].org
      /\ Distinct(row')
  BY RowsKept
<1>2. ASSUME NEW r \in Requests, answer'[r] \in Naming
      PROVE  /\ answer'[r].ws \in OwnersOf(ask[r].repo)
             /\ answer'[r].org = row[answer'[r].ws].org
  <2>1. CASE answer'[r] = answer[r]
    BY <1>2, <2>1 DEF Inv, AnswersAgree
  <2>2. CASE Truthful(r)
    BY <2>2 DEF Truthful
  <2> QED BY <1>2, <2>1, <2>2, AnswerSteps
<1>3. ASSUME NEW r \in Requests, answer'[r] \in Naming
      PROVE  /\ answer'[r].ws \in OwnersOf(ask[r].repo)'
             /\ answer'[r].org = row'[answer'[r].ws].org
  BY <1>1, <1>2, <1>3 DEF OwnersOf, Workspaces
<1> QED BY <1>1, <1>3 DEF AnswersAgree, Distinct, Workspaces

LEMMA LoserStep ==
  ASSUME Inv, [Next]_vars
  PROVE  LoserFindsWinner'
<1>1. /\ ask' = ask
      /\ \A w \in Requests : row[w] # None =>
           row'[w] # None /\ row'[w].repo = row[w].repo
  BY RowsKept
<1>2. ASSUME NEW q \in Requests, pc'[q] = "repo taken"
      PROVE  OwnersOf(ask[q].repo) # {}
  <2>1. pc \in [Requests -> InFlight \cup {"idle", "done"}] /\ LoserFindsWinner
    BY DEF Inv, TypeOK
  <2>2. CASE pc[q] = "repo taken"
    BY <2>1, <2>2 DEF LoserFindsWinner
  <2>3. ASSUME pc[q] # "repo taken", NEW r \in Requests, Import(r)
        PROVE  OwnersOf(ask[q].repo) # {}
    <3>1. CASE CreatePlaceholder(r)
      BY <1>2, <2>1, <2>3, <3>1 DEF CreatePlaceholder, Goto
    <3>2. CASE Submit(r) \/ Preflight(r) \/ InsertRun(r)
      BY <1>2, <2>1, <2>3, <3>2 DEF Submit, Preflight, InsertRun, Goto
    <3>3. CASE Find(r) \/ FindAgain(r)
      BY <1>2, <2>1, <2>3, <3>3 DEF Find, FindAgain, ReplyExisting, Goto, Reply
    <3>4. CASE ImportFails(r) \/ MarkRunFailed(r)
      BY <1>2, <2>1, <2>3, <3>4 DEF ImportFails, MarkRunFailed, Reply
    <3>5. CASE Enqueue(r)
      BY <1>2, <2>1, <2>3, <3>5 DEF Enqueue, Goto, Reply
    <3> QED BY <2>3, <3>1, <3>2, <3>3, <3>4, <3>5 DEF Import
  <2>4. ASSUME NEW w \in Requests, Sync(w) PROVE pc' = pc
    BY <2>4 DEF Sync, SyncWorkspace, Begin, Save, EnsureSyncRun,
                RecordSuccess, Complete, FailAttempt, DropJob, apiVars
  <2>5. Crash => pc'[q] = "done" \/ pc'[q] = pc[q]
    BY DEF Crash
  <2> QED BY <1>2, <2>2, <2>3, <2>4, <2>5 DEF Next, vars
<1> QED BY <1>1, <1>2 DEF LoserFindsWinner, OwnersOf, Workspaces

\* A step of r's import leaves every other request and workspace alone, and so
\* does a step of w's job.
SameAt(q) ==
  /\ pc'[q] = pc[q] /\ answer'[q] = answer[q] /\ row'[q] = row[q]
  /\ run'[q] = run[q] /\ last'[q] = last[q] /\ job'[q] = job[q]
  /\ carries'[q] = carries[q]

LEMMA ImportIsLocal ==
  ASSUME TypeOK, NEW r \in Requests, Import(r), NEW q \in Requests \ {r}
  PROVE  SameAt(q)
<1> USE DEF TypeOK, SameAt, Goto
<1>1. \A a : Reply(r, a) => pc'[q] = pc[q] /\ answer'[q] = answer[q]
  BY DEF Reply
<1>2. ReplyExisting(r) => pc'[q] = pc[q] /\ answer'[q] = answer[q]
  BY <1>1 DEF ReplyExisting
<1>3. CASE Submit(r) \/ Preflight(r) \/ CreatePlaceholder(r) \/ InsertRun(r)
  BY <1>3 DEF Submit, Preflight, CreatePlaceholder, InsertRun
<1>4. CASE Find(r) \/ FindAgain(r)
  BY <1>1, <1>2, <1>4 DEF Find, FindAgain
<1>5. CASE ImportFails(r)
  BY <1>1, <1>5 DEF ImportFails
<1>6. CASE Enqueue(r)
  BY <1>1, <1>6 DEF Enqueue, PutJob
<1>7. CASE MarkRunFailed(r)
  <2>1. pc'[q] = pc[q] /\ answer'[q] = answer[q]
    BY <1>1, <1>7 DEF MarkRunFailed
  <2>2. run'[q] = run[q] /\ last'[q] = last[q]
    BY <1>7 DEF MarkRunFailed, Finish
  <2>3. UNCHANGED <<row, job, carries>>
    BY <1>7 DEF MarkRunFailed
  <2> QED BY <2>1, <2>2, <2>3
<1> QED BY <1>3, <1>4, <1>5, <1>6, <1>7 DEF Import

LEMMA SyncIsLocal ==
  ASSUME TypeOK, NEW w \in Requests, Sync(w), NEW q \in Requests \ {w}
  PROVE  SameAt(q)
<1> USE DEF TypeOK, SameAt, apiVars
<1>1. CASE SyncWorkspace(w) \/ Begin(w) \/ EnsureSyncRun(w)
  BY <1>1 DEF SyncWorkspace, Begin, EnsureSyncRun
<1>2. CASE Save(w)
  BY <1>2 DEF Save
<1>3. CASE RecordSuccess(w)
  BY <1>3 DEF RecordSuccess, Finish
<1>4. CASE Complete(w) \/ DropJob(w)
  BY <1>4 DEF Complete, DropJob, Forget
<1>5. CASE FailAttempt(w)
  <2>1. run'[q] = run[q] /\ last'[q] = last[q] /\ job'[q] = job[q]
    BY <1>5 DEF FailAttempt, Finish
  <2>2. UNCHANGED <<pc, answer, row, carries>>
    BY <1>5 DEF FailAttempt
  <2> QED BY <2>1, <2>2
<1> QED BY <1>1, <1>2, <1>3, <1>4, <1>5 DEF Sync

LEMMA OrderStep ==
  ASSUME Inv, [Next]_vars
  PROVE  CommitsInOrder'
<1>1. TypeOK /\ CommitsInOrder
  BY DEF Inv
<1>2. /\ ask' = ask
      /\ \A w \in Requests : row[w] # None => row'[w] # None
      /\ \A w \in Requests : row'[w] # None =>
           row'[w].repo = ask[w].repo /\ row'[w].org = ask[w].org
  BY RowsKept
<1>3. ASSUME NEW q \in Requests, SameAt(q) PROVE Ordered(q)'
  BY <1>1, <1>2, <1>3 DEF SameAt, CommitsInOrder, Ordered
<1>4. ASSUME NEW r \in Requests, Import(r) PROVE Ordered(r)'
  <2>0. /\ Ordered(r)
        /\ row[r] # None => row'[r] # None
        /\ row'[r] # None =>
             row'[r].repo = ask'[r].repo /\ row'[r].org = ask'[r].org
    BY <1>1, <1>2 DEF CommitsInOrder
  <2>1. \A a : Reply(r, a) => pc'[r] = "done"
    BY <1>1 DEF Reply, TypeOK
  <2>2. ReplyExisting(r) => pc'[r] = "done"
    BY <2>1 DEF ReplyExisting
  <2> USE <1>1, <2>0 DEF TypeOK, Ordered, Goto
  <2>3. CASE Submit(r)
    BY <2>3 DEF Submit
  <2>4. CASE Find(r)
    BY <2>2, <2>4 DEF Find
  <2>5. CASE Preflight(r)
    BY <2>5 DEF Preflight
  <2>6. CASE CreatePlaceholder(r)
    <3>0. ask[r] \in Rows
      OBVIOUS
    <3>1. ask[r] # None
      BY ONLY <3>0, NoneAssumption
    <3>2. /\ UNCHANGED <<run, last, job, carries, answer>>
          /\ pc[r] = "create"
          /\ \/ row' = row /\ pc'[r] \in {"slug taken", "repo taken"}
             \/ row'[r] = ask[r] /\ pc'[r] = "created"
      BY <2>6 DEF CreatePlaceholder
    <3> QED BY <3>1, <3>2
  <2>7. CASE FindAgain(r)
    BY <2>1, <2>2, <2>7 DEF FindAgain
  <2>8. CASE InsertRun(r)
    BY <2>8 DEF InsertRun
  <2>9. CASE ImportFails(r)
    BY <2>1, <2>9 DEF ImportFails
  <2>10. CASE Enqueue(r)
    BY <2>1, <2>10 DEF Enqueue, PutJob
  <2>11. CASE MarkRunFailed(r)
    BY <2>1, <2>11 DEF MarkRunFailed, Finish
  <2> QED
    BY <1>4, <2>3, <2>4, <2>5, <2>6, <2>7, <2>8, <2>9, <2>10, <2>11 DEF Import
<1>5. ASSUME NEW w \in Requests, Sync(w) PROVE Ordered(w)'
  <2>0. /\ Ordered(w)
        /\ row[w] # None => row'[w] # None
        /\ row'[w] # None =>
             row'[w].repo = ask'[w].repo /\ row'[w].org = ask'[w].org
    BY <1>1, <1>2 DEF CommitsInOrder
  <2> USE <1>1, <2>0 DEF TypeOK, Ordered, apiVars
  <2>1. CASE SyncWorkspace(w)
    BY <2>1 DEF SyncWorkspace, Workspaces
  <2>2. CASE Begin(w)
    BY <2>2 DEF Begin
  <2>3. CASE Save(w)
    <3>1. job[w] = "running" /\ job' = [job EXCEPT ![w] = "saved"]
          /\ UNCHANGED <<ask, pc, answer, run, last, carries>>
      BY <2>3 DEF Save
    <3> QED BY <3>1
  <2>4. CASE EnsureSyncRun(w)
    BY <2>4 DEF EnsureSyncRun
  <2>5. CASE RecordSuccess(w)
    BY <2>5 DEF RecordSuccess, Finish
  <2>6. CASE Complete(w)
    BY <2>6 DEF Complete, Forget
  <2>7. CASE FailAttempt(w)
    BY <2>7 DEF FailAttempt, Finish, Attempting
  <2>8. CASE DropJob(w)
    BY <2>8 DEF DropJob, Forget
  <2> QED
    BY <1>5, <2>1, <2>2, <2>3, <2>4, <2>5, <2>6, <2>7, <2>8 DEF Sync
<1>6. ASSUME NEW q \in Requests, Crash PROVE Ordered(q)'
  BY <1>1, <1>2, <1>6 DEF Crash, InFlight, CommitsInOrder, Ordered
<1>7. ASSUME NEW q \in Requests, UNCHANGED vars PROVE Ordered(q)'
  BY <1>3, <1>7 DEF vars, SameAt
<1>8. ASSUME NEW q \in Requests PROVE Ordered(q)'
  <2>1. ASSUME NEW r \in Requests, Import(r) PROVE Ordered(q)'
    BY <1>1, <1>3, <1>4, <2>1, ImportIsLocal
  <2>2. ASSUME NEW w \in Requests, Sync(w) PROVE Ordered(q)'
    BY <1>1, <1>3, <1>5, <2>2, SyncIsLocal
  <2> QED BY <1>6, <1>7, <2>1, <2>2 DEF Next
<1> QED BY <1>8 DEF CommitsInOrder

\* Answers, races and the order of an import's commits, for any number of
\* concurrent imports.
THEOREM InvHolds == Spec => []Inv
<1>1. Init => Inv
  BY InitInv
<1>2. Inv /\ [Next]_vars => Inv'
  <2> SUFFICES ASSUME Inv, [Next]_vars PROVE Inv'
    OBVIOUS
  <2>1. TypeOK'
    BY TypeStep DEF Inv
  <2> QED BY <2>1, AgreeStep, LoserStep, OrderStep DEF Inv
<1> QED BY <1>1, <1>2, PTL DEF Spec

\* Only w's own import, w's own job and a crash can leave w abandoned.
LEMMA AbandonStep ==
  ASSUME Inv, [Next]_vars
  PROVE  AbandonIsKnown
<1>1. TypeOK /\ CommitsInOrder
  BY DEF Inv
<1>2. ASSUME NEW q \in Requests, SameAt(q) PROVE Abandoned(q)' = Abandoned(q)
  BY <1>2 DEF SameAt, Abandoned, Tried, Workspaces
<1> DEFINE Known(w) ==
      \/ GaveUp(w) \/ DeletedWaiting(w)
      \/ FailedUnrecorded(w) \/ CountedOnDeadJob(w)
<1>3. ASSUME NEW r \in Requests, Import(r), ~Abandoned(r), Abandoned(r)'
      PROVE  Known(r)
  <2>0. /\ Ordered(r)
        /\ row'[r] # None /\ pc'[r] \notin InFlight
        /\ job'[r] \in {"none", "archived"} /\ last'[r] = "none"
    <3>1. TypeOK'
      BY TypeStep DEF Inv
    <3> QED
      BY <1>1, <1>3, <3>1 DEF CommitsInOrder, Abandoned, Tried, Workspaces, TypeOK
  <2> USE <1>1, <2>0 DEF TypeOK, Ordered, Goto
  <2>1. CASE Submit(r) \/ Preflight(r) \/ CreatePlaceholder(r) \/ InsertRun(r)
    BY <2>1 DEF Submit, Preflight, CreatePlaceholder, InsertRun, InFlight
  <2>2. CASE Find(r) \/ FindAgain(r)
    BY <2>2 DEF Find, FindAgain
  <2>3. CASE ImportFails(r)
    <3>1. [status |-> "error"] \notin Naming
      BY RefusalIsNotNaming DEF Refusals
    <3>2. answer'[r] = [status |-> "error"]
      BY <2>3 DEF ImportFails, Reply
    <3> QED BY <2>3, <3>1, <3>2 DEF ImportFails, InFlight, GaveUp
  <2>4. CASE Enqueue(r)
    BY <2>4 DEF Enqueue, PutJob, InFlight
  <2>5. CASE MarkRunFailed(r)
    <3>1. CASE pc[r] = "duplicate"
      <4>1. answer'[r] \in Naming \/ answer'[r] \notin Naming
        OBVIOUS
      <4> QED BY <3>1, <4>1 DEF CountedOnDeadJob, GaveUp, InFlight
    <3>2. CASE pc[r] # "duplicate"
      <4>1. [status |-> "error"] \notin Naming
        BY RefusalIsNotNaming DEF Refusals
      <4>2. answer'[r] = [status |-> "error"] /\ pc[r] = "not queued"
        BY <2>5, <3>2 DEF MarkRunFailed, Reply
      <4> QED BY <4>1, <4>2 DEF InFlight, GaveUp
    <3> QED BY <3>1, <3>2
  <2> QED BY <1>3, <2>1, <2>2, <2>3, <2>4, <2>5 DEF Import
<1>4. ASSUME NEW w \in Requests, Sync(w), ~Abandoned(w), Abandoned(w)'
      PROVE  Known(w)
  <2>0. /\ Ordered(w)
        /\ row'[w] # None /\ pc'[w] \notin InFlight
        /\ job'[w] \in {"none", "archived"} /\ last'[w] = "none"
    <3>1. TypeOK'
      BY TypeStep DEF Inv
    <3> QED
      BY <1>1, <1>4, <3>1 DEF CommitsInOrder, Abandoned, Tried, Workspaces, TypeOK
  <2> USE <1>1, <2>0 DEF TypeOK, Ordered, apiVars
  <2>1. CASE SyncWorkspace(w) \/ Begin(w) \/ EnsureSyncRun(w)
    BY <2>1 DEF SyncWorkspace, Begin, EnsureSyncRun
  <2>2. CASE Save(w)
    BY <2>2 DEF Save
  <2>3. CASE RecordSuccess(w)
    BY <2>3 DEF RecordSuccess
  <2>4. CASE Complete(w)
    BY <2>4 DEF Complete
  <2>5. CASE FailAttempt(w)
    <3>1. job[w] \in Attempting
      BY <2>5 DEF FailAttempt
    <3>2. job'[w] = "archived"
      BY <2>5 DEF FailAttempt
    <3> QED BY <3>1, <3>2 DEF FailedUnrecorded
  <2>6. CASE DropJob(w)
    <3>1. CASE job[w] = "waiting"
      BY <2>6, <3>1 DEF DropJob, Forget, DeletedWaiting
    <3>2. CASE job[w] = "archived"
      BY <1>4, <2>6, <3>2 DEF DropJob, Abandoned, Tried, Attempting, Workspaces
    <3> QED BY <2>6, <3>1, <3>2 DEF DropJob
  <2> QED BY <1>4, <2>1, <2>2, <2>3, <2>4, <2>5, <2>6 DEF Sync
<1>5. ASSUME NEW q \in Requests, Crash, ~Abandoned(q), Abandoned(q)'
      PROVE  Known(q)
  <2>1. Ordered(q)
    BY <1>1 DEF CommitsInOrder
  <2>2. pc[q] \in InFlight /\ answer'[q] = answer[q]
    <3>1. UNCHANGED <<answer, row, last, job>>
      BY <1>5 DEF Crash
    <3>2. Tried(q)' = Tried(q)
      BY <3>1 DEF Tried
    <3>3. pc[q] \in InFlight
      BY <1>5, <3>1, <3>2 DEF Abandoned, Crash, TypeOK, Workspaces
    <3> QED BY <3>1, <3>3
  <2>3. pc[q] # "done"
    BY <2>2 DEF InFlight
  <2>4. answer'[q] \notin Naming
    BY <2>1, <2>2, <2>3, NoneAssumption DEF Ordered
  <2> QED BY <2>2, <2>4 DEF GaveUp
<1>6. ASSUME NEW q \in Requests, ~Abandoned(q), Abandoned(q)' PROVE Known(q)
  <2>1. ASSUME NEW r \in Requests, Import(r) PROVE Known(q)
    <3>1. CASE q = r
      BY <1>3, <1>6, <2>1, <3>1
    <3>2. CASE q # r
      BY <1>1, <1>2, <1>6, <2>1, <3>2, ImportIsLocal
    <3> QED BY <3>1, <3>2
  <2>2. ASSUME NEW w \in Requests, Sync(w) PROVE Known(q)
    <3>1. CASE q = w
      BY <1>4, <1>6, <2>2, <3>1
    <3>2. CASE q # w
      BY <1>1, <1>2, <1>6, <2>2, <3>2, SyncIsLocal
    <3> QED BY <3>1, <3>2
  <2>3. CASE UNCHANGED vars
    BY <1>2, <1>6, <2>3 DEF vars, SameAt
  <2> QED BY <1>5, <1>6, <2>1, <2>2, <2>3 DEF Next
<1> QED BY <1>6 DEF AbandonIsKnown

\* An import leaves an abandoned workspace behind in four ways only: by an error
\* or a crash, when its job is deleted while it waits or fails for good with
\* nothing recorded, and when it counted on such a job.
THEOREM AbandonmentHolds == Spec => OnlyKnownAbandonment
<1>1. Inv /\ [Next]_vars => [AbandonIsKnown]_vars
  BY AbandonStep
<1> QED BY <1>1, InvHolds, PTL DEF Spec, OnlyKnownAbandonment

=============================================================================
