--------------------------- MODULE WorkspaceSync ---------------------------
(***************************************************************************)
(* The worker's workspace:sync handler on one workspace: a full sync (with *)
(* its incremental shortcut) and targeted syncs, running side by side, over *)
(* a default branch that goes on moving.                                   *)
(*                                                                         *)
(* The branch is a sequence of commits, numbered in the order they became  *)
(* HEAD.  An ITEM is a feature directory or the workspace configuration    *)
(* (workspace.yaml); its content in a commit is a number, 0 when it is not *)
(* there.  The rows of an item hold the content last saved for it.         *)
(***************************************************************************)
EXTENDS Naturals

CONSTANTS
  Features,     \* feature directories
  Config,       \* the item that stands for workspace.yaml
  Sources,      \* refs targeted syncs read: "default", "branch"
  None,         \* no baseline
  Unread,       \* a file a full fetch has not come to
  Skipped,      \* an item whose fetch failed and was left out
  Blank,        \* the content of a feature saved without its status.yaml
  Foreign,      \* content of another branch
  MaxCommits    \* commits pushed (bound)

ASSUME ItemsAssumption == Config \notin Features
ASSUME ValuesAssumption ==
  /\ MaxCommits \in Nat
  /\ \A v \in {None, Unread, Skipped, Blank, Foreign} : v \notin Nat
  /\ Unread \notin {Skipped, Blank, Foreign}
  /\ Skipped \notin {Blank, Foreign}

Items   == Features \cup {Config}
Commits == 0..MaxCommits

VARIABLES
  head,      \* the commit the default branch points to
  tree,      \* the content of each item in each commit
  anc,       \* the ancestors of each commit, itself included
  row,       \* what the database holds of each item (0: no row)
  baseline,  \* commit of the latest finished sync run, None if it is not a
             \* success or recorded no commit
  full,      \* the full sync job's attempt
  tgt        \* the targeted jobs' attempts, by feature and source

gitVars == <<head, tree, anc>>
vars == <<head, tree, anc, row, baseline, full, tgt>>

Targets   == Features \X Sources
Content   == Nat \cup {Blank, Foreign}
FullSteps == {"idle", "resolve", "compare", "incremental", "import",
              "reading", "fetched", "record"}
TgtSteps  == {"idle", "resolved", "fetched", "saved"}

FullIdle ==
  [step |-> "idle", base |-> 0, at |-> 0, since |-> 0, todo |-> {},
   import |-> FALSE, snap |-> [i \in Items |-> Unread]]
TgtIdle == [step |-> "idle", at |-> 0, got |-> 0]

TypeOK ==
  /\ head \in Commits
  /\ tree \in [Commits -> [Items -> Nat]]
  /\ anc \in [Commits -> SUBSET Commits]
  /\ row \in [Items -> Content]
  /\ baseline \in Commits \cup {None}
  /\ full \in [step : FullSteps, base : Commits, at : Commits,
               since : Commits, todo : SUBSET Items, import : BOOLEAN,
               snap : [Items -> Content \cup {Unread, Skipped}]]
  /\ tgt \in [Targets -> [step : TgtSteps, at : Commits, got : Content]]

\* The workspace was just imported: a placeholder row, no feature rows.
Init ==
  /\ head = 0
  /\ \E S \in SUBSET Features :
       tree = [c \in Commits |->
                 [i \in Items |-> IF c = 0 /\ i \in S \cup {Config}
                                  THEN 1 ELSE 0]]
  /\ anc = [c \in Commits |-> IF c = 0 THEN {0} ELSE {}]
  /\ row = [i \in Items |-> 0]
  /\ baseline = None
  /\ full = FullIdle
  /\ tgt = [t \in Targets |-> TgtIdle]

----------------------------------------------------------------------------
\* GitHub.

\* Commit head + 1 becomes HEAD: parent p with item i set to content v.
NewHead(p, i, v) ==
  /\ head < MaxCommits
  /\ head' = head + 1
  /\ tree' = [tree EXCEPT ![head + 1] = [tree[p] EXCEPT ![i] = v]]
  /\ anc' = [anc EXCEPT ![head + 1] = anc[p] \cup {head + 1}]
  /\ UNCHANGED <<row, baseline, full, tgt>>

\* A content no commit has had before.
Fresh == head + 2

\* Someone changes, reverts or removes an item; workspace.yaml stays.
Push(i) ==
  \E v \in {Fresh, 0} \cup {tree[c][i] : c \in anc[head]} :
    /\ v # tree[head][i]
    /\ i = Config => v # 0
    /\ NewHead(head, i, v)

\* The branch is reset to an older commit and goes on from there.
ForcePush(i) == \E p \in anc[head] \ {head} : NewHead(p, i, Fresh)

\* The Compare API's base...head: what changed since the merge base.
MergeBase(b, h) ==
  CHOOSE m \in anc[b] \cap anc[h] : \A x \in anc[b] \cap anc[h] : x <= m
Differs(b, h) == {i \in Items : tree[h][i] # tree[MergeBase(b, h)][i]}
Removed(b, h) == {i \in Differs(b, h) : tree[h][i] = 0}

\* What reading item i's files at the branch gives while HEAD is d, the item
\* having been found in the tree of an earlier commit: files gone since are
\* taken for absent.
ReadAt(d, i) == IF tree[d][i] = 0 THEN Blank ELSE tree[d][i]

----------------------------------------------------------------------------
\* Sync runs.  Every finished run becomes the latest one.

RunSucceeded(commit) == baseline' = commit

\* A failed run ends the trust in the baseline, if it can be recorded.
RunFailed == baseline' \in {None, baseline}

\* The full sync job's attempt fails or dies: recordFailedRun, or nothing.
FailFull ==
  /\ full.step # "idle"
  /\ full' = FullIdle
  /\ RunFailed
  /\ UNCHANGED <<gitVars, row, tgt>>

----------------------------------------------------------------------------
\* tryIncrementalSync.

\* The attempt starts and looks for a baseline.
StartFull ==
  /\ full.step = "idle"
  /\ full' = IF baseline = None
             THEN [full EXCEPT !.step = "import"]
             ELSE [full EXCEPT !.step = "resolve", !.base = baseline]
  /\ UNCHANGED <<gitVars, row, baseline, tgt>>

\* HeadCommit; a HEAD equal to the baseline is "already up to date".
ResolveHead ==
  /\ full.step = "resolve"
  /\ full' = [full EXCEPT !.step = IF head = full.base THEN "record"
                                                       ELSE "compare",
                          !.at = head]
  /\ UNCHANGED <<gitVars, row, baseline, tgt>>

\* Mutant of Compare: a change of workspace.yaml is not looked for.
CompareFeaturesOnly ==
  /\ full.step = "compare"
  /\ Removed(full.base, full.at) = {}
  /\ full' = [full EXCEPT !.step = "incremental",
                          !.since = head,
                          !.todo = Differs(full.base, full.at) \cap Features]
  /\ UNCHANGED <<gitVars, row, baseline, tgt>>

\* CompareChangedPaths: only features changed, so re-fetch just those.
Compare ==
  /\ full.step = "compare"
  /\ Config \notin Differs(full.base, full.at)
  /\ Removed(full.base, full.at) = {}
  /\ full' = [full EXCEPT !.step = "incremental",
                          !.since = head,
                          !.todo = Differs(full.base, full.at) \cap Features]
  /\ UNCHANGED <<gitVars, row, baseline, tgt>>

\* FetchFeature and SaveFeatureSnapshot, feature by feature.  Since the step
\* before, the feature was found in the tree of a HEAD, its files were read
\* at the same or a later one, and they are saved now.
IncrementalFeature(f) ==
  /\ full.step = "incremental"
  /\ f \in full.todo
  /\ \E found \in full.since..head : \E read \in found..head :
       /\ tree[found][f] # 0
       /\ row' = [row EXCEPT ![f] = ReadAt(read, f)]
       /\ full' = [full EXCEPT !.since = head,
                               !.todo = @ \ {f},
                               !.snap[f] = ReadAt(read, f)]
  /\ UNCHANGED <<gitVars, baseline, tgt>>

IncrementalDone ==
  /\ full.step = "incremental"
  /\ full.todo = {}
  /\ full' = [full EXCEPT !.step = "record"]
  /\ UNCHANGED <<gitVars, row, baseline, tgt>>

\* Mutant of FallBack: what the incremental sync read is kept.
FallBackKeeping ==
  /\ full.step \in {"resolve", "compare", "incremental"}
  /\ full' = [full EXCEPT !.step = "import"]
  /\ UNCHANGED <<gitVars, row, baseline, tgt>>

\* Structural changes, a diff too large and any error fall back to importing.
FallBack ==
  /\ full.step \in {"resolve", "compare", "incremental"}
  /\ full' = [FullIdle EXCEPT !.step = "import"]
  /\ UNCHANGED <<gitVars, row, baseline, tgt>>

----------------------------------------------------------------------------
\* ImportWorkspace, SaveSnapshot.

\* fetchSnapshot resolves the commit and lists its tree ...
ResolveImport ==
  /\ full.step = "import"
  /\ full' = [full EXCEPT !.step = "reading",
                          !.at = head,
                          !.todo = {i \in Items : tree[head][i] # 0},
                          !.import = TRUE]
  /\ UNCHANGED <<gitVars, row, baseline, tgt>>

\* ... and reads the files at the branch, not at that commit: workspace.yaml,
\* which has to be there, and then the features in any order.
ReadItem(i) ==
  /\ full.step = "reading"
  /\ i \in full.todo
  /\ i # Config => Config \notin full.todo
  /\ full' = [full EXCEPT !.todo = @ \ {i}, !.snap[i] = ReadAt(head, i)]
  /\ UNCHANGED <<gitVars, row, baseline, tgt>>

\* A feature that cannot be read or parsed is left out of the snapshot.
SkipFeature(f) ==
  /\ full.step = "reading"
  /\ f \in full.todo
  /\ Config \notin full.todo
  /\ full' = [full EXCEPT !.todo = @ \ {f}, !.snap[f] = Skipped]
  /\ UNCHANGED <<gitVars, row, baseline, tgt>>

ImportRead ==
  /\ full.step = "reading"
  /\ full.todo = {}
  /\ full' = [full EXCEPT !.step = "fetched"]
  /\ UNCHANGED <<gitVars, row, baseline, tgt>>

\* The features SaveSnapshot keeps: those of the snapshot.
KeepList == {f \in Features : full.snap[f] \notin {Unread, Skipped}}

\* SaveSnapshot, one transaction: every feature of the snapshot is upserted,
\* except those of `bad' whose savepoint is rolled back, and the rows of every
\* feature that is not on the keep-list are deleted.
SaveImport ==
  /\ full.step = "fetched"
  /\ \E bad \in SUBSET KeepList :
       row' = [i \in Items |->
                 CASE i = Config            -> full.snap[i]
                   [] i \in bad             -> row[i]
                   [] i \in KeepList \ bad  -> full.snap[i]
                   [] OTHER                 -> 0]
  /\ full' = [full EXCEPT !.step = "record"]
  /\ UNCHANGED <<gitVars, baseline, tgt>>

\* recordSuccessfulRun with the commit resolved at the start.
RecordFull ==
  /\ full.step = "record"
  /\ RunSucceeded(full.at)
  /\ full' = FullIdle
  /\ UNCHANGED <<gitVars, row, tgt>>

----------------------------------------------------------------------------
\* handleTargetedSync, and HandleTaskSync, which reads another branch as well.

\* FetchFeature resolves the commit and finds the feature in its tree ...
ResolveTarget(t) ==
  /\ tgt[t].step = "idle"
  /\ t[2] = "default" => tree[head][t[1]] # 0
  /\ tgt' = [tgt EXCEPT ![t].step = "resolved"]
  /\ UNCHANGED <<gitVars, row, baseline, full>>

\* ... and reads its files at the branch.
ReadTarget(t) ==
  /\ tgt[t].step = "resolved"
  /\ tgt' = [tgt EXCEPT ![t].step = "fetched",
                        ![t].at = head,
                        ![t].got = IF t[2] = "default" THEN ReadAt(head, t[1])
                                                       ELSE Foreign]
  /\ UNCHANGED <<gitVars, row, baseline, full>>

\* SaveFeatureSnapshot (SaveTaskSnapshot).
SaveTarget(t) ==
  /\ tgt[t].step = "fetched"
  /\ row' = [row EXCEPT ![t[1]] = tgt[t].got]
  /\ tgt' = [tgt EXCEPT ![t] = [TgtIdle EXCEPT !.step = "saved"]]
  /\ UNCHANGED <<gitVars, baseline, full>>

\* The run is recorded a success without a commit; when that update fails the
\* handler only warns.
RecordTarget(t) ==
  /\ tgt[t].step = "saved"
  /\ baseline' \in {None, baseline}
  /\ tgt' = [tgt EXCEPT ![t] = TgtIdle]
  /\ UNCHANGED <<gitVars, row, full>>

\* The attempt fails or dies, or cannot even begin: in the end the feature's
\* directory, or the branch, may not exist any more.
FailTarget(t) ==
  /\ RunFailed
  /\ tgt' = [tgt EXCEPT ![t] = TgtIdle]
  /\ UNCHANGED <<gitVars, row, full>>

----------------------------------------------------------------------------
FullNext ==
  \/ StartFull
  \/ ResolveHead
  \/ Compare
  \/ \E f \in Features : IncrementalFeature(f)
  \/ IncrementalDone
  \/ FallBack
  \/ ResolveImport
  \/ \E i \in Items : ReadItem(i)
  \/ \E f \in Features : SkipFeature(f)
  \/ ImportRead
  \/ SaveImport
  \/ RecordFull
  \/ FailFull

TargetNext(t) ==
  \/ ResolveTarget(t)
  \/ ReadTarget(t)
  \/ SaveTarget(t)
  \/ RecordTarget(t)
  \/ FailTarget(t)

Next ==
  \/ \E i \in Items : Push(i)
  \/ \E i \in Items : ForcePush(i)
  \/ FullNext
  \/ \E t \in Targets : TargetNext(t)

Spec == Init /\ [][Next]_vars

----------------------------------------------------------------------------
\* Safety.

\* The contents item i has had at HEAD, from commit c on.
UpTo(c, i) == {tree[d][i] : d \in c..head}

\* A commit's history is made of commits no newer than itself, and has a
\* workspace.yaml.
HistoryOK ==
  \A c \in 0..head : /\ c \in anc[c]
                     /\ anc[c] \subseteq 0..c
                     /\ tree[c][Config] # 0

\* The steps at which a full attempt has resolved its commit.
Resolved == {"compare", "incremental", "reading", "fetched", "record"}

\* What was synced, is compared with and is recorded next comes in this order,
\* so a baseline never goes back; and unless a failed run has withdrawn it, the
\* baseline is what the attempt compares with.
BaselineOrder ==
  /\ baseline # None => baseline <= head
  /\ full.base <= head
  /\ full.at <= head
  /\ full.step \in {"resolve", "compare", "incremental"} =>
       baseline \in {None, full.base}
  /\ full.step \in Resolved =>
       /\ full.base <= full.at
       /\ baseline # None => baseline <= full.at
  /\ full.step = "incremental" => full.at <= full.since /\ full.since <= head

\* What an attempt has read was at HEAD when it had resolved its commit, or
\* later: nothing read by an earlier attempt, or before falling back from
\* incremental to full, is saved or recorded under a newer commit.
ReadsFollowResolve ==
  /\ \A i \in Items :
       full.snap[i] \in {Unread, Skipped, Blank} \cup UpTo(full.at, i)
  /\ full.snap[Config] # Skipped
  /\ full.step \notin {"incremental", "reading", "fetched", "record"} =>
       full.snap = FullIdle.snap
  /\ \A t \in Targets : tgt[t].step = "fetched" =>
       /\ tgt[t].at <= head
       /\ tgt[t].got \in {Blank, Foreign} \cup UpTo(tgt[t].at, t[1])

\* An attempt about to be recorded has dealt with every item its commit has
\* (a full one) or that has changed since its baseline (an incremental one, if
\* the baseline is an ancestor).
NothingForgotten ==
  /\ full.step \notin {"incremental", "reading"} => full.todo = {}
  /\ full.step \in {"reading", "fetched"} => full.import
  /\ full.step \notin {"reading", "fetched", "record"} => ~full.import
  /\ full.step \in {"incremental", "reading", "fetched", "record"} =>
       \A i \in Items : full.snap[i] = Unread =>
         \/ i \in full.todo
         \/ full.import /\ tree[full.at][i] = 0
         \/ /\ ~full.import
            /\ full.base \in anc[full.at] =>
                 tree[full.at][i] = tree[full.base][i]

Inv ==
  /\ TypeOK
  /\ HistoryOK
  /\ BaselineOrder
  /\ ReadsFollowResolve
  /\ NothingForgotten

\* The rows of i contradict the latest sync run: it is a success at commit
\* `baseline', and they hold nothing that was at HEAD then or has been since.
\* Later syncs compare HEAD with the baseline only, so nothing brings i back
\* until it changes again.
Drifted(i) == baseline # None /\ row[i] \notin UpTo(baseline, i)

Records == full.step = "record" /\ full'.step = "idle" /\ baseline' = full.at

\* The content a recording attempt takes the rows of i to hold.
Expected(i) ==
  IF full.snap[i] # Unread THEN full.snap[i]
  ELSE IF full.import THEN 0 ELSE tree[full.base][i]

\* A run is recorded a success although ...
RecordedWrongly(i) ==
  /\ full.step = "record"
  /\ \/ full.snap[i] = Blank    \* its status.yaml went between tree and read,
     \/ row[i] # Expected(i)    \* it was not read, not written or overwritten,
     \/ /\ ~full.import         \* or the branch was rewritten and the Compare
        /\ full.base \notin anc[full.at]    \* API looked from the merge base.

\* An import replaces rows the baseline still vouches for: pruned because the
\* fetch failed, or blanked.
ImportedWrongly(i) ==
  full.step = "fetched" /\ full.snap[i] \in {Skipped, Blank}

\* A single feature is saved that was read before the baseline commit, or on
\* another branch, or without its status.yaml.
SavedWrongly(i) ==
  \/ \E t \in Targets : /\ t[1] = i
                        /\ tgt[t].step = "fetched"
                        /\ \/ tgt[t].got \in {Blank, Foreign}
                           \/ baseline # None /\ tgt[t].at < baseline
  \/ full.step = "incremental" /\ row'[i] = Blank

\* Rows come to contradict the latest sync run in these ways only, and a run
\* is never recorded over contradicting rows without one of them: pushes,
\* failures, crashes, retries and fall-backs do not cause it, and a full sync
\* with nothing left out and no one saving beside it heals every item.
DriftIsExplained ==
  \A i \in Items :
    Drifted(i)' /\ (Records \/ ~Drifted(i)) =>
      RecordedWrongly(i) \/ ImportedWrongly(i) \/ SavedWrongly(i)
OnlyKnownDrift == [][DriftIsExplained]_vars

\* upsertSnapshot's comment: every feature present in git is on the keep-list,
\* so the stale-delete step never removes an existing feature just because
\* this sync could not write it.  So what a sync removes is not in its commit.
PrunesOnlyRemoved ==
  [][\A f \in Features :
       row[f] # 0 /\ row'[f] = 0 => tree[full.at][f] = 0]_vars

=============================================================================
