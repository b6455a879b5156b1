--------------------------- MODULE BranchRouting ---------------------------
(***************************************************************************)
(* Which job a push becomes, and which branch that job reads.              *)
(*                                                                         *)
(* The webhook parses the branch's name with the workspace's branch        *)
(* pattern (ClassifyBranch) and enqueues a job.  A workspace:sync job      *)
(* carries the branch; a task:sync job carries only the feature and the    *)
(* task, and derives the branch again, from the pattern the workspace has  *)
(* by then (DeriveBranch).                                                 *)
(*                                                                         *)
(* A name, and a pattern, is a sequence of words and separators; next to a *)
(* placeholder a pattern has a separator, so a match never splits a word.  *)
(***************************************************************************)
EXTENDS Naturals, FiniteSets, SequencesExt

CONSTANTS
  Words,         \* words and separators of names and patterns
  Patterns,      \* branch patterns of workspace.yaml, without surrounding space
  DefaultBranch,
  FeatureIds,    \* names of docs/features/ directories
  WorkIds,       \* words matching ^T\d+$
  OtherBranches, \* branches that belong to no feature
  Separators,    \* the characters featurePatternFromTaskPattern trims
  None           \* the workspace sets no pattern, nothing is pushed

FeatureId == "{feature_id}"
WorkId == "{work_id}"
DefaultPattern == <<"feature", "/", FeatureId, "-", WorkId>>

ASSUME PatternsAssumption ==
  \A p \in Patterns \cup {DefaultPattern} : \A i \in 1..(Len(p) - 1) :
    ({p[i], p[i + 1]} \cap {FeatureId, WorkId} # {})
      => ({p[i], p[i + 1]} \cap Separators # {})

ASSUME WordsAssumption ==
  /\ {"feature", "init", "/", "-", FeatureId, WorkId} \subseteq Words
  /\ Patterns \subseteq Seq(Words)
  /\ FeatureIds \subseteq Seq(Words) \ {<<>>}
  /\ WorkIds \subseteq Words \ {"feature", "init", "/", "-", FeatureId, WorkId}
  /\ \A f \in FeatureIds : ~Contains(f, WorkId)
  /\ ({FeatureId, WorkId} \cup WorkIds) \cap Separators = {}

VARIABLES
  pattern, \* the workspace's branch_pattern
  push,    \* what was pushed: the base, a feature, init or task branch, another
  branch,  \* the name of the pushed branch
  stable,  \* the pattern has not changed since
  jobs,    \* the jobs the webhook enqueued for it, None before
  fetched  \* what those jobs fetched, from which branch

vars == <<pattern, push, branch, stable, jobs, fetched>>

PatternInUse(p) == IF p = None THEN DefaultPattern ELSE p

----------------------------------------------------------------------------
\* branchPatternRegexp: (.+) for a feature, ([^/]+) for a task.

Holes(p) == {i \in 1..Len(p) : p[i] \in {FeatureId, WorkId}}

\* Where element i of p starts when hole j takes w[j] words.
Starts(p, w) ==
  LET at[i \in 1..(Len(p) + 1)] ==
        IF i = 1 THEN 1
        ELSE at[i - 1] + (IF i - 1 \in Holes(p) THEN w[i - 1] ELSE 1)
  IN  at
Start(p, w, i) == Starts(p, w)[i]
Capture(p, b, w, i) == SubSeq(b, Start(p, w, i), Start(p, w, i + 1) - 1)

Matches(p, b) ==
  {w \in [Holes(p) -> 1..Len(b)] :
     /\ Start(p, w, Len(p) + 1) = Len(b) + 1
     /\ \A i \in 1..Len(p) \ Holes(p) : b[Start(p, w, i)] = p[i]
     /\ \A i \in Holes(p) : p[i] = WorkId => ~Contains(Capture(p, b, w, i), "/")}

\* Groups are greedy, the first one first.
GreedyMatch(p, b) ==
  CHOOSE w \in Matches(p, b) : \A v \in Matches(p, b) :
    v = w \/ \E i \in Holes(p) :
               w[i] > v[i] /\ \A j \in Holes(p) : j < i => w[j] = v[j]

\* The value of a placeholder is its last occurrence's, empty if it has none.
Value(p, b, name) ==
  LET at == {i \in Holes(p) : p[i] = name}
  IN  IF at = {} THEN <<>> ELSE Capture(p, b, GreedyMatch(p, b), Max(at))

----------------------------------------------------------------------------
\* ClassifyBranch.

InitSuffix == <<"-", "init">>

\* Mutant of NormalizeFeatureID: the init suffix stays.
KeepFeatureID(id) == id

NormalizeFeatureID(id) ==
  IF IsSuffix(InitSuffix, id) THEN SubSeq(id, 1, Len(id) - 2) ELSE id

Ignored == [kind |-> "ignored"]

\* classifyByPattern.
ParseTask(p, b) ==
  LET f == NormalizeFeatureID(Value(p, b, FeatureId))
      t == Value(p, b, WorkId)
  IN  IF Holes(p) = {} \/ Matches(p, b) = {} THEN Ignored
      ELSE IF f = <<>> \/ t \notin {<<id>> : id \in WorkIds} THEN Ignored
      ELSE [kind |-> "task", feature |-> f, task |-> t]

ParseFeature(p, b) ==
  LET f == NormalizeFeatureID(Value(p, b, FeatureId))
  IN  IF Holes(p) = {} \/ Matches(p, b) = {} \/ f = <<>> THEN Ignored
      ELSE [kind |-> "feature", feature |-> f]

Before(s, i) == SubSeq(s, 1, i - 1)
Trimmed(s) ==
  Before(s, 1 + Max({0} \cup {i \in 1..Len(s) : s[i] \notin Separators}))

\* featurePatternFromTaskPattern: what comes before the task, without a last
\* part that does not name the feature.
FeaturePattern(p) ==
  IF ~Contains(p, WorkId) THEN <<>>
  ELSE LET prefix  == Trimmed(Before(p, SelectInSeq(p, LAMBDA x : x = WorkId)))
           slash   == SelectLastInSeq(prefix, LAMBDA x : x = "/")
           tail    == SubSeq(prefix, slash + 1, Len(prefix))
           feature == IF slash > 0 /\ ~Contains(tail, FeatureId)
                      THEN Before(prefix, slash) ELSE prefix
       IN  IF Contains(feature, FeatureId) THEN feature ELSE <<>>

ClassifyBranch(b, p) ==
  IF b = DefaultBranch THEN [kind |-> "base"]
  ELSE IF ParseTask(p, b) # Ignored THEN ParseTask(p, b)
  ELSE ParseFeature(FeaturePattern(p), b)

----------------------------------------------------------------------------
\* DeriveBranch.
Replace(s, x, v) ==
  FlattenSeq([i \in 1..Len(s) |-> IF s[i] = x THEN v ELSE <<s[i]>>])

\* Mutant of DeriveBranch: a placeholder is replaced once.
DeriveOnce(p, f, t) ==
  Replace(ReplaceFirstSubSeq(f, <<FeatureId>>, p), WorkId, t)

DeriveBranch(p, f, t) == Replace(Replace(p, FeatureId, f), WorkId, t)

----------------------------------------------------------------------------
\* The names the workflow gives its branches.  They are what the parsing above
\* is measured against.

TaskBranch(p, f, t) ==
  FlattenSeq([i \in 1..Len(p) |-> CASE p[i] = FeatureId -> f
                                    [] p[i] = WorkId -> t
                                    [] OTHER -> <<p[i]>>])
FeatureBranch(p, f) == TaskBranch(FeaturePattern(p), f, <<>>)

Tasks == {<<id>> : id \in WorkIds}

Pushes ==
  [kind : {"base"}, touched : SUBSET FeatureIds]
    \cup [kind : {"feature", "init"}, feature : FeatureIds]
    \cup [kind : {"task"}, feature : FeatureIds, task : Tasks]
    \cup [kind : {"other"}, branch : OtherBranches]

BranchOf(u, p) ==
  CASE u.kind = "base"    -> DefaultBranch
    [] u.kind = "feature" -> FeatureBranch(p, u.feature)
    [] u.kind = "init"    -> FeatureBranch(p, u.feature \o InitSuffix)
    [] u.kind = "task"    -> TaskBranch(p, u.feature, u.task)
    [] u.kind = "other"   -> u.branch

\* A pattern that names no feature, or no task, names no branch for it.
CanBePushed(u, p) ==
  /\ u.kind \in {"feature", "init"} => FeaturePattern(p) # <<>>
  /\ u.kind = "task" => {FeatureId, WorkId} \subseteq Range(p)

SyncJob(f, ref) == [kind |-> "workspace:sync", feature |-> f, ref |-> ref]
TaskJob(f, t) == [kind |-> "task:sync", feature |-> f, task |-> t]

\* What a push is about.
Expected(u, b) ==
  CASE u.kind = "base"  -> {SyncJob(f, b) : f \in u.touched}
    [] u.kind \in {"feature", "init"} -> {SyncJob(u.feature, b)}
    [] u.kind = "task"  -> {TaskJob(u.feature, u.task)}
    [] u.kind = "other" -> {}

----------------------------------------------------------------------------
Init ==
  /\ pattern \in Patterns \cup {None}
  /\ push = None
  /\ branch = None
  /\ stable = TRUE
  /\ jobs = None
  /\ fetched = None

\* The branch carries the name the pattern of that time gives it.
Push(u) ==
  /\ push = None
  /\ CanBePushed(u, PatternInUse(pattern))
  /\ push' = u
  /\ branch' = BranchOf(u, PatternInUse(pattern))
  /\ UNCHANGED <<pattern, stable, jobs, fetched>>

\* A sync of a changed workspace.yaml.
ChangePattern(p) ==
  /\ push # None
  /\ fetched = None
  /\ p # pattern
  /\ pattern' = p
  /\ stable' = FALSE
  /\ UNCHANGED <<push, branch, jobs, fetched>>

\* WebhookHandler: only a base push looks at the paths it touched.
JobsFor(info) ==
  CASE info.kind = "ignored" -> {}
    [] info.kind = "base"    ->
         {SyncJob(f, branch) : f \in IF push.kind = "base" THEN push.touched ELSE {}}
    [] info.kind = "feature" -> {SyncJob(info.feature, branch)}
    [] info.kind = "task"    -> {TaskJob(info.feature, info.task)}

Webhook ==
  /\ push # None
  /\ jobs = None
  /\ jobs' = JobsFor(ClassifyBranch(branch, PatternInUse(pattern)))
  /\ UNCHANGED <<pattern, push, branch, stable, fetched>>

\* The worker takes the jobs: HandleTaskSync, handleTargetedSync.
RefOf(job) ==
  IF job.kind = "workspace:sync" THEN job.ref
  ELSE DeriveBranch(PatternInUse(pattern), job.feature, job.task)

Drain ==
  /\ jobs # None
  /\ fetched = None
  /\ fetched' = {[feature |-> job.feature, ref |-> RefOf(job)] : job \in jobs}
  /\ UNCHANGED <<pattern, push, branch, stable, jobs>>

Next ==
  \/ \E u \in Pushes : Push(u)
  \/ \E p \in Patterns \cup {None} : ChangePattern(p)
  \/ Webhook
  \/ Drain

Spec == Init /\ [][Next]_vars

----------------------------------------------------------------------------
\* Why a push may become a job for something else: the feature's own name ends
\* with the suffix of an init branch ...
EndsInInit(u) ==
  u.kind \in {"feature", "task"} /\ IsSuffix(InitSuffix, u.feature)

\* ... its branch ends the way the pattern ends a task's ...
ReadsAsTask(u, p) ==
  /\ u.kind = "feature"
  /\ \E t \in WorkIds, x \in Separators :
       IsSuffix(<<x, t>>, u.feature) /\ IsSuffix(<<x, WorkId>>, p)

\* ... the pattern has no words of its own, and every branch is a feature's ...
CatchAll(u, p) ==
  /\ u.kind = "other"
  /\ FeaturePattern(p) # <<>>
  /\ Range(FeaturePattern(p)) \subseteq {FeatureId} \cup Separators

\* ... its branch is called like the default branch ...
CalledBase(u) == u.kind # "base" /\ branch = DefaultBranch

\* ... or the name holds the separator behind a group that comes before the
\* feature's, and that group takes the beginning of the name along.
ReadsAcross(u, p) ==
  /\ u.kind \in {"feature", "init", "task"}
  /\ LET q    == IF u.kind = "task" THEN p ELSE FeaturePattern(p)
         name == IF u.kind = "init" THEN u.feature \o InitSuffix ELSE u.feature
     IN  \E i, j \in Holes(q) :
           i < j /\ q[j] = FeatureId /\ Contains(name, q[i + 1])

Clear ==
  LET p == PatternInUse(pattern)
  IN  /\ stable
      /\ ~EndsInInit(push) /\ ~ReadsAsTask(push, p) /\ ~CatchAll(push, p)
      /\ ~CalledBase(push) /\ ~ReadsAcross(push, p)

(***************************************************************************)
(* A push becomes the jobs of what it is about: names with dashes,         *)
(* features whose name begins another's, placeholders used twice, init     *)
(* branches (ClassifyBranch, basePushTargetedSyncPayloads).  It is not so  *)
(* for the five reasons above and when the pattern changed between push    *)
(* and webhook.                                                            *)
(***************************************************************************)
RoutedRight == jobs # None /\ Clear => jobs = Expected(push, branch)

(***************************************************************************)
(* The branch a job reads is the branch that was pushed, although a        *)
(* task:sync job does not carry it and derives it anew (HandleTaskSync).   *)
(***************************************************************************)
FetchedRight == fetched # None /\ Clear => \A r \in fetched : r.ref = branch

=============================================================================
