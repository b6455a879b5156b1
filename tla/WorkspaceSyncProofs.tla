------------------------ MODULE WorkspaceSyncProofs ------------------------
(***************************************************************************)
(* Proofs about WorkspaceSync, for any features, any sources of targeted   *)
(* syncs and any number of commits.                                        *)
(*                                                                         *)
(* Inv is inductive as it stands.  From it follows that the rows come to   *)
(* contradict the latest sync run in the ways OnlyKnownDrift names only.   *)
(***************************************************************************)
EXTENDS WorkspaceSync, TLAPS

\* The steps at which a full attempt may have read something.
ReadSteps == {"incremental", "reading", "fetched", "record"}

\* A new HEAD leaves the content and history of the older commits alone.
LEMMA OldCommits ==
  ASSUME TypeOK, NEW p \in Commits, NEW i \in Items, NEW v \in Nat,
         NewHead(p, i, v)
  PROVE  /\ head' = head + 1 /\ head' \in Commits
         /\ \A c \in 0..head : tree'[c] = tree[c] /\ anc'[c] = anc[c]
         /\ tree'[head'] = [tree[p] EXCEPT ![i] = v]
         /\ anc'[head'] = anc[p] \cup {head'}
         /\ tree' \in [Commits -> [Items -> Nat]]
         /\ anc' \in [Commits -> SUBSET Commits]
         /\ UNCHANGED <<row, baseline, full, tgt>>
<1>1. /\ MaxCommits \in Nat /\ head \in Nat /\ head < MaxCommits
      /\ head' = head + 1
      /\ tree' = [tree EXCEPT ![head + 1] = [tree[p] EXCEPT ![i] = v]]
      /\ anc' = [anc EXCEPT ![head + 1] = anc[p] \cup {head + 1}]
      /\ UNCHANGED <<row, baseline, full, tgt>>
  BY ValuesAssumption DEF NewHead, TypeOK, Commits
<1>2. head' \in Commits /\ (0..head) \subseteq Commits
  BY <1>1 DEF Commits
<1>3. \A c \in 0..head : c # head + 1
  BY <1>1
<1>4. tree \in [Commits -> [Items -> Nat]] /\ anc \in [Commits -> SUBSET Commits]
  BY DEF TypeOK
<1>5. [tree[p] EXCEPT ![i] = v] \in [Items -> Nat]
  BY <1>4
<1>6. anc[p] \cup {head + 1} \in SUBSET Commits
  BY <1>1, <1>2, <1>4
<1> QED BY <1>1, <1>2, <1>3, <1>4, <1>5, <1>6

\* Push and ForcePush both make a commit on top of one that exists, and keep
\* workspace.yaml in it.
LEMMA GitSteps ==
  ASSUME TypeOK, HistoryOK, NEW j \in Items, Push(j) \/ ForcePush(j)
  PROVE  \E p \in 0..head, v \in Nat : /\ j = Config => v # 0
                                       /\ NewHead(p, j, v)
<1>1. CASE Push(j)
  <2>1. PICK v \in {Fresh, 0} \cup {tree[c][j] : c \in anc[head]} :
          (j = Config => v # 0) /\ NewHead(head, j, v)
    BY <1>1 DEF Push
  <2>2. v \in Nat /\ head \in 0..head
    BY DEF TypeOK, HistoryOK, Commits, Fresh
  <2> QED BY <2>1, <2>2
<1>2. CASE ForcePush(j)
  <2>1. PICK p \in anc[head] : NewHead(p, j, Fresh)
    BY <1>2 DEF ForcePush
  <2>2. p \in 0..head /\ Fresh \in Nat /\ Fresh # 0
    BY DEF TypeOK, HistoryOK, Commits, Fresh
  <2> QED BY <2>1, <2>2
<1> QED BY <1>1, <1>2

\* What an item has had at HEAD since a commit, it keeps having had.
LEMMA UpToGrows ==
  ASSUME TypeOK, NEW p \in Commits, NEW j \in Items, NEW v \in Nat,
         NewHead(p, j, v), NEW c \in 0..head, NEW i \in Items
  PROVE  UpTo(c, i) \subseteq UpTo(c, i)'
<1>1. SUFFICES ASSUME NEW d \in c..head PROVE tree[d][i] \in UpTo(c, i)'
  BY DEF UpTo
<1>2. d \in 0..head /\ d \in c..head'
  <2>1. head \in Nat
    BY ValuesAssumption DEF TypeOK, Commits
  <2>2. head' = head + 1
    BY OldCommits
  <2> QED BY <2>1, <2>2
<1>3. tree'[d][i] = tree[d][i]
  BY <1>2, OldCommits
<1> QED BY <1>2, <1>3 DEF UpTo

\* Every version of an item at HEAD since c is one of those since an older b.
LEMMA UpToSubset ==
  ASSUME NEW b \in Nat, NEW c \in Nat, b <= c, head \in Nat, NEW i
  PROVE  UpTo(c, i) \subseteq UpTo(b, i)
  BY DEF UpTo

\* A push keeps the invariant.
LEMMA GitInv ==
  ASSUME Inv, NEW j \in Items, Push(j) \/ ForcePush(j)
  PROVE  Inv'
<1>1. PICK p \in 0..head, v \in Nat :
        (j = Config => v # 0) /\ NewHead(p, j, v)
  BY GitSteps DEF Inv
<1>2. p \in Commits /\ head \in Nat
  BY ValuesAssumption DEF Inv, TypeOK, Commits
<1>3. /\ head' = head + 1 /\ head' \in Commits
      /\ \A c \in 0..head : tree'[c] = tree[c] /\ anc'[c] = anc[c]
      /\ tree'[head'] = [tree[p] EXCEPT ![j] = v]
      /\ anc'[head'] = anc[p] \cup {head'}
      /\ tree' \in [Commits -> [Items -> Nat]]
      /\ anc' \in [Commits -> SUBSET Commits]
      /\ UNCHANGED <<row, baseline, full, tgt>>
  BY <1>1, <1>2, OldCommits DEF Inv
<1>4. ASSUME NEW c \in 0..head, NEW i \in Items
      PROVE  UpTo(c, i) \subseteq UpTo(c, i)'
  BY <1>1, <1>2, UpToGrows DEF Inv
<1>5. TypeOK'
  BY <1>3 DEF Inv, TypeOK
<1>6. HistoryOK'
  <2>1. ASSUME NEW c \in 0..head'
        PROVE  /\ c \in anc'[c] /\ anc'[c] \subseteq 0..c /\ tree'[c][Config] # 0
    <3>1. CASE c \in 0..head
      BY <3>1, <1>3 DEF Inv, HistoryOK
    <3>2. CASE c = head'
      <4>1. tree[p] \in [Items -> Nat] /\ tree[p][Config] # 0 /\ anc[p] \subseteq 0..p
        BY <1>2 DEF Inv, TypeOK, HistoryOK
      <4>2. tree'[c][Config] # 0
        BY <3>2, <1>1, <1>3, <4>1 DEF Items
      <4>3. c \in anc'[c] /\ anc'[c] \subseteq 0..c
        BY <3>2, <1>2, <1>3, <4>1 DEF Commits
      <4> QED BY <4>2, <4>3
    <3> QED BY <2>1, <3>1, <3>2, <1>2, <1>3
  <2> QED BY <2>1 DEF HistoryOK
<1>7. BaselineOrder'
  BY <1>2, <1>3, ValuesAssumption DEF Inv, TypeOK, BaselineOrder, Commits
<1>8. ReadsFollowResolve'
  <2>1. full.at \in 0..head
    BY DEF Inv, TypeOK, BaselineOrder, Commits
  <2>2. \A i \in Items :
          full'.snap[i] \in {Unread, Skipped, Blank} \cup UpTo(full.at, i)'
    BY <1>3, <1>4, <2>1 DEF Inv, ReadsFollowResolve
  <2>3. ASSUME NEW t \in Targets, tgt'[t].step = "fetched"
        PROVE  /\ tgt'[t].at <= head'
               /\ tgt'[t].got \in {Blank, Foreign} \cup UpTo(tgt[t].at, t[1])'
    <3>1. tgt[t].at \in 0..head /\ t[1] \in Items
      BY <1>3, <2>3 DEF Inv, TypeOK, ReadsFollowResolve, Commits, Targets, Items
    <3> QED BY <1>2, <1>3, <1>4, <2>3, <3>1 DEF Inv, ReadsFollowResolve
  <2>4. full' = full /\ tgt' = tgt /\ full'.at = full.at
    BY <1>3
  <2>5. FullIdle' = FullIdle
    BY DEF FullIdle
  <2> QED BY <2>2, <2>3, <2>4, <2>5 DEF Inv, ReadsFollowResolve
<1>9. NothingForgotten'
  <2>1. full.at \in 0..head /\ full.base \in 0..head
    BY DEF Inv, TypeOK, BaselineOrder, Commits
  <2>2. tree'[full.at] = tree[full.at] /\ tree'[full.base] = tree[full.base]
        /\ anc'[full.at] = anc[full.at] /\ full' = full
    BY <1>3, <2>1
  <2> QED BY <2>2 DEF Inv, NothingForgotten
<1> QED BY <1>5, <1>6, <1>7, <1>8, <1>9 DEF Inv

\* Every step that is not a push leaves GitHub alone.
LEMMA Quiet ==
  ASSUME FullNext \/ (\E t \in Targets : TargetNext(t)) \/ UNCHANGED vars
  PROVE  UNCHANGED gitVars /\ \A c, i : UpTo(c, i)' = UpTo(c, i)
<1>1. UNCHANGED gitVars
  BY DEF FullNext, TargetNext, vars, gitVars, StartFull, ResolveHead, Compare,
         IncrementalFeature, IncrementalDone, FallBack, ResolveImport, ReadItem,
         SkipFeature, ImportRead, SaveImport, RecordFull, FailFull,
         ResolveTarget, ReadTarget, SaveTarget, RecordTarget, FailTarget
<1>2. head' = head /\ tree' = tree
  BY <1>1 DEF gitVars
<1> QED BY <1>1, <1>2 DEF UpTo

\* Reading an item at the branch gives content.
LEMMA ReadAtType ==
  ASSUME TypeOK, NEW d \in 0..head, NEW i \in Items
  PROVE  ReadAt(d, i) \in Content /\ ReadAt(d, i) \in {Blank, tree[d][i]}
<1>1. d \in Commits
  BY ValuesAssumption DEF TypeOK, Commits
<1> QED BY <1>1 DEF TypeOK, Content, ReadAt

\* An incremental sync saves what a feature held at a HEAD no older than the
\* commit it will record.
LEMMA IncrementalRead ==
  ASSUME TypeOK, BaselineOrder, NEW f \in Features, IncrementalFeature(f)
  PROVE  \E read \in 0..head :
           /\ full.at <= read
           /\ row' = [row EXCEPT ![f] = ReadAt(read, f)]
           /\ full' = [full EXCEPT !.since = head, !.todo = @ \ {f},
                                   !.snap[f] = ReadAt(read, f)]
           /\ UNCHANGED <<gitVars, baseline, tgt>>
<1> DEFINE A(read) ==
      /\ row' = [row EXCEPT ![f] = ReadAt(read, f)]
      /\ full' = [full EXCEPT !.since = head, !.todo = @ \ {f},
                              !.snap[f] = ReadAt(read, f)]
      /\ UNCHANGED <<gitVars, baseline, tgt>>
<1>1. PICK found \in full.since..head : \E read \in found..head : A(read)
  BY DEF IncrementalFeature
<1>2. PICK read \in found..head : A(read)
  BY <1>1
<1>3. full.at <= full.since /\ full.at \in Nat /\ full.since \in Nat /\ head \in Nat
  BY ValuesAssumption DEF IncrementalFeature, BaselineOrder, TypeOK, Commits
<1>4. read \in 0..head /\ full.at <= read
  <2> HIDE DEF A
  <2> QED BY <1>3
<1> QED BY <1>2, <1>4

\* Steps of the full sync keep the types.
LEMMA FullType ==
  ASSUME Inv, FullNext
  PROVE  TypeOK'
<1> USE DEF Inv, TypeOK
<1>0. UNCHANGED <<head, tree, anc>>
  BY Quiet DEF gitVars
<1>1. 0 \in Commits /\ head \in Nat /\ 0..head \subseteq Commits
  BY ValuesAssumption DEF Commits
<1>2. FullIdle \in [step : FullSteps, base : Commits, at : Commits,
                    since : Commits, todo : SUBSET Items, import : BOOLEAN,
                    snap : [Items -> Content \cup {Unread, Skipped}]]
  BY <1>1 DEF FullIdle, FullSteps
<1>3. CASE StartFull
  BY <1>0, <1>3 DEF StartFull, FullSteps
<1>4. CASE ResolveHead
  BY <1>0, <1>4 DEF ResolveHead, FullSteps
<1>5. CASE Compare
  BY <1>0, <1>5 DEF Compare, FullSteps, Items
<1>6. ASSUME NEW f \in Features, IncrementalFeature(f)
      PROVE  TypeOK'
  <2>1. PICK read \in 0..head :
          /\ row' = [row EXCEPT ![f] = ReadAt(read, f)]
          /\ full' = [full EXCEPT !.since = head, !.todo = @ \ {f},
                                  !.snap[f] = ReadAt(read, f)]
          /\ UNCHANGED <<gitVars, baseline, tgt>>
    BY <1>6, IncrementalRead
  <2>2. read \in 0..head /\ f \in Items
    BY DEF Items
  <2>3. ReadAt(read, f) \in Content
    BY <2>2, ReadAtType
  <2>4. f \in Items /\ row' \in [Items -> Content]
    BY <2>1, <2>2, <2>3
  <2>5. full' \in [step : FullSteps, base : Commits, at : Commits,
                   since : Commits, todo : SUBSET Items, import : BOOLEAN,
                   snap : [Items -> Content \cup {Unread, Skipped}]]
    BY <2>1, <2>2, <2>3
  <2> QED BY <1>0, <2>1, <2>4, <2>5
<1>7. CASE IncrementalDone
  BY <1>0, <1>7 DEF IncrementalDone, FullSteps
<1>8. CASE FallBack
  BY <1>0, <1>2, <1>8 DEF FallBack, FullSteps
<1>9. CASE ResolveImport
  BY <1>0, <1>9 DEF ResolveImport, FullSteps
<1>10. ASSUME NEW i \in Items, ReadItem(i)
       PROVE  TypeOK'
  <2>1. ReadAt(head, i) \in Content
    BY <1>1, ReadAtType
  <2> QED BY <1>0, <1>10, <2>1 DEF ReadItem
<1>11. ASSUME NEW f \in Features, SkipFeature(f)
       PROVE  TypeOK'
  BY <1>0, <1>11 DEF SkipFeature, Items
<1>12. CASE ImportRead
  BY <1>0, <1>12 DEF ImportRead, FullSteps
<1>13. CASE SaveImport
  <2>1. full.snap[Config] \in Content
    BY <1>13 DEF SaveImport, NothingForgotten, ReadsFollowResolve, HistoryOK,
                 BaselineOrder, Items, Commits
  <2>2. \A f \in KeepList : full.snap[f] \in Content
    BY DEF KeepList, Items
  <2>3. 0 \in Content
    BY DEF Content
  <2> QED BY <1>0, <1>13, <2>1, <2>2, <2>3 DEF SaveImport, FullSteps
<1>14. CASE RecordFull
  BY <1>0, <1>2, <1>14 DEF RecordFull, RunSucceeded
<1>15. CASE FailFull
  BY <1>0, <1>2, <1>15 DEF FailFull, RunFailed
<1> QED BY <1>3, <1>4, <1>5, <1>6, <1>7, <1>8, <1>9, <1>10, <1>11, <1>12, <1>13,
           <1>14, <1>15 DEF FullNext

\* Steps of targeted syncs keep the types.
LEMMA TargetType ==
  ASSUME Inv, NEW t \in Targets, TargetNext(t)
  PROVE  TypeOK'
<1> USE DEF Inv, TypeOK
<1>0. UNCHANGED <<head, tree, anc>>
  BY Quiet DEF gitVars
<1>1. 0 \in Commits /\ head \in 0..head /\ t[1] \in Items
  BY ValuesAssumption DEF Commits, Targets, Items
<1>2. TgtIdle \in [step : TgtSteps, at : Commits, got : Content]
  BY <1>1 DEF TgtIdle, TgtSteps, Content
<1>3. CASE ResolveTarget(t)
  BY <1>0, <1>3 DEF ResolveTarget, TgtSteps
<1>4. CASE ReadTarget(t)
  <2>1. ReadAt(head, t[1]) \in Content /\ Foreign \in Content
    BY <1>1, ReadAtType DEF Content
  <2>2. tgt' = [tgt EXCEPT ![t] = [@ EXCEPT !.step = "fetched", !.at = head,
                    !.got = IF t[2] = "default" THEN ReadAt(head, t[1])
                                                ELSE Foreign]]
    BY <1>4 DEF ReadTarget
  <2>3. tgt' \in [Targets -> [step : TgtSteps, at : Commits, got : Content]]
    BY <2>1, <2>2 DEF TgtSteps
  <2> QED BY <1>0, <1>4, <2>3 DEF ReadTarget
<1>5. CASE SaveTarget(t)
  BY <1>0, <1>1, <1>2, <1>5 DEF SaveTarget, TgtSteps
<1>6. CASE RecordTarget(t)
  BY <1>0, <1>2, <1>6 DEF RecordTarget
<1>7. CASE FailTarget(t)
  BY <1>0, <1>2, <1>7 DEF FailTarget, RunFailed
<1> QED BY <1>3, <1>4, <1>5, <1>6, <1>7 DEF TargetNext

\* A targeted sync keeps the rest of the invariant.
LEMMA TargetInv ==
  ASSUME Inv, NEW t \in Targets, TargetNext(t)
  PROVE  Inv'
<1>0. UNCHANGED gitVars /\ UNCHANGED full /\ baseline' \in {None, baseline}
      /\ \A c, i : UpTo(c, i)' = UpTo(c, i)
  BY Quiet DEF TargetNext, ResolveTarget, ReadTarget, SaveTarget, RecordTarget,
               FailTarget, RunFailed
<1>1. TypeOK'
  BY TargetType
<1>2. HistoryOK'
  BY <1>0 DEF Inv, HistoryOK, gitVars
<1>3. BaselineOrder'
  BY <1>0 DEF Inv, BaselineOrder, gitVars
<1>4. ReadsFollowResolve'
  <2>1. ASSUME NEW u \in Targets, tgt'[u].step = "fetched"
        PROVE  /\ tgt'[u].at <= head
               /\ tgt'[u].got \in {Blank, Foreign} \cup UpTo(tgt'[u].at, u[1])
    <3>1. CASE tgt'[u] = tgt[u]
      BY <2>1, <3>1 DEF Inv, ReadsFollowResolve
    <3>2. CASE ReadTarget(t) /\ u = t
      <4>1. head \in Nat /\ head \in 0..head /\ t[1] \in Items
        BY ValuesAssumption DEF Inv, TypeOK, Commits, Targets, Items
      <4>2. ReadAt(head, t[1]) \in {Blank, tree[head][t[1]]}
        BY <4>1, ReadAtType DEF Inv
      <4>3. tgt'[t].at = head
            /\ tgt'[t].got \in {Foreign, ReadAt(head, t[1])}
        BY <3>2 DEF ReadTarget, Inv, TypeOK
      <4>4. tree[head][t[1]] \in UpTo(head, t[1])
        BY <4>1 DEF UpTo
      <4> QED BY <3>2, <4>1, <4>2, <4>3, <4>4
    <3>3. tgt'[u] = tgt[u] \/ (ReadTarget(t) /\ u = t)
      BY <2>1 DEF Inv, TypeOK, TargetNext, ResolveTarget, ReadTarget, SaveTarget,
                  RecordTarget, FailTarget, TgtIdle
    <3> QED BY <3>1, <3>2, <3>3
  <2>2. FullIdle' = FullIdle
    BY DEF FullIdle
  <2> QED BY <1>0, <2>1, <2>2 DEF Inv, ReadsFollowResolve, gitVars
<1>5. NothingForgotten'
  BY <1>0 DEF Inv, NothingForgotten, gitVars
<1> QED BY <1>1, <1>2, <1>3, <1>4, <1>5 DEF Inv

\* Where the merge base is the baseline itself, Compare sees what changed.
LEMMA MergeBaseIsBase ==
  ASSUME HistoryOK, NEW b \in 0..head, NEW h \in 0..head, b \in anc[h]
  PROVE  MergeBase(b, h) = b
<1> DEFINE P(m) == \A x \in anc[b] \cap anc[h] : x <= m
<1>1. b \in anc[b] \cap anc[h] /\ anc[b] \subseteq 0..b
  BY DEF HistoryOK
<1>2. P(b)
  BY <1>1
<1>3. ASSUME NEW m \in anc[b] \cap anc[h], P(m) PROVE m = b
  BY <1>1, <1>3
<1> HIDE DEF P
<1>4. MergeBase(b, h) = CHOOSE m \in anc[b] \cap anc[h] : P(m)
  BY DEF MergeBase, P
<1> QED BY <1>1, <1>2, <1>3, <1>4

\* Steps of the full sync keep the commits in order.
LEMMA FullOrder ==
  ASSUME Inv, FullNext
  PROVE  BaselineOrder'
<1> USE DEF Inv, TypeOK, BaselineOrder
<1>0. head' = head /\ head \in Nat /\ full.at \in Nat /\ full.base \in Nat
      /\ baseline \in Nat \cup {None} /\ full.since \in Nat
  BY Quiet, ValuesAssumption DEF gitVars, Commits
<1>1. FullIdle.step = "idle" /\ FullIdle.base = 0 /\ FullIdle.at = 0
  BY DEF FullIdle
<1> HIDE DEF FullIdle
<1>3. CASE StartFull
  BY <1>0, <1>3 DEF StartFull, Resolved
<1>4. CASE ResolveHead
  BY <1>0, <1>4, ValuesAssumption DEF ResolveHead, Resolved
<1>5. CASE Compare
  BY <1>0, <1>5 DEF Compare, Resolved
<1>6. ASSUME NEW f \in Features, IncrementalFeature(f)
      PROVE  BaselineOrder'
  BY <1>0, <1>6 DEF IncrementalFeature, Resolved
<1>7. CASE IncrementalDone
  BY <1>0, <1>7 DEF IncrementalDone, Resolved
<1>8. CASE FallBack
  BY <1>0, <1>1, <1>8 DEF FallBack, Resolved
<1>9. CASE ResolveImport
  BY <1>0, <1>9 DEF ResolveImport, Resolved
<1>10. ASSUME NEW i \in Items, ReadItem(i)
       PROVE  BaselineOrder'
  BY <1>0, <1>10 DEF ReadItem, Resolved
<1>11. ASSUME NEW f \in Features, SkipFeature(f)
       PROVE  BaselineOrder'
  BY <1>0, <1>11 DEF SkipFeature, Resolved
<1>12. CASE ImportRead
  BY <1>0, <1>12 DEF ImportRead, Resolved
<1>13. CASE SaveImport
  BY <1>0, <1>13 DEF SaveImport, Resolved
<1>14. CASE RecordFull
  BY <1>0, <1>1, <1>14 DEF RecordFull, RunSucceeded, Resolved
<1>15. CASE FailFull
  BY <1>0, <1>1, <1>15 DEF FailFull, RunFailed, Resolved
<1> QED BY <1>3, <1>4, <1>5, <1>6, <1>7, <1>8, <1>9, <1>10, <1>11, <1>12, <1>13,
           <1>14, <1>15 DEF FullNext

\* What an attempt or a target reads is at HEAD from its commit on.
LEMMA ReadIsUpTo ==
  ASSUME TypeOK, NEW c \in Nat, NEW d \in 0..head, c <= d, NEW i \in Items
  PROVE  ReadAt(d, i) \in {Blank} \cup UpTo(c, i)
<1>1. d \in c..head
  BY ValuesAssumption DEF TypeOK, Commits
<1>2. ReadAt(d, i) \in {Blank, tree[d][i]}
  BY ReadAtType
<1> QED BY <1>1, <1>2 DEF UpTo

\* Steps of the full sync keep what was read apart from other attempts.
LEMMA FullReads ==
  ASSUME Inv, FullNext
  PROVE  ReadsFollowResolve'
<1> USE DEF Inv, TypeOK, ReadsFollowResolve
<1>0. /\ head' = head /\ head \in Nat /\ full.at \in Nat /\ full.at <= head
      /\ \A c, i : UpTo(c, i)' = UpTo(c, i)
  BY Quiet, ValuesAssumption DEF gitVars, Commits, BaselineOrder
<1>1. /\ FullIdle' = FullIdle /\ FullIdle.step = "idle" /\ FullIdle.at = 0
      /\ FullIdle.snap = [i \in Items |-> Unread]
      /\ FullIdle.snap[Config] # Skipped
  BY ValuesAssumption DEF FullIdle, Items
<1>2. tgt' = tgt
  BY DEF FullNext, StartFull, ResolveHead, Compare, IncrementalFeature,
         IncrementalDone, FallBack, ResolveImport, ReadItem, SkipFeature,
         ImportRead, SaveImport, RecordFull, FailFull
<1> HIDE DEF FullIdle
<1>21. SUFFICES
         /\ \A i \in Items :
              full'.snap[i] \in {Unread, Skipped, Blank} \cup UpTo(full'.at, i)
         /\ full'.snap[Config] # Skipped
         /\ full'.step \notin ReadSteps => full'.snap = FullIdle.snap
  BY <1>0, <1>1, <1>2 DEF ReadSteps
<1> DEFINE Goal ==
         /\ \A i \in Items :
              full'.snap[i] \in {Unread, Skipped, Blank} \cup UpTo(full'.at, i)
         /\ full'.snap[Config] # Skipped
         /\ full'.step \notin ReadSteps => full'.snap = FullIdle.snap
<1>22. ASSUME full'.snap = FullIdle.snap PROVE Goal
  BY <1>1, <1>22
<1>23. ASSUME full'.snap = full.snap, full'.at = full.at, full'.step \in ReadSteps
       PROVE  Goal
  BY <1>23
<1>3. CASE StartFull
  BY <1>22, <1>3 DEF StartFull
<1>4. CASE ResolveHead
  BY <1>22, <1>4 DEF ResolveHead
<1>5. CASE Compare
  BY <1>23, <1>5 DEF Compare, ReadSteps
<1>6. ASSUME NEW f \in Features, IncrementalFeature(f)
      PROVE  Goal
  <2>1. PICK read \in 0..head :
          /\ full.at <= read
          /\ row' = [row EXCEPT ![f] = ReadAt(read, f)]
          /\ full' = [full EXCEPT !.since = head, !.todo = @ \ {f},
                                  !.snap[f] = ReadAt(read, f)]
          /\ UNCHANGED <<gitVars, baseline, tgt>>
    BY <1>6, IncrementalRead
  <2>2. f \in Items /\ f # Config
    BY ItemsAssumption DEF Items
  <2>3. ReadAt(read, f) \in {Blank} \cup UpTo(full.at, f)
    BY <1>0, <2>1, <2>2, ReadIsUpTo
  <2>4. /\ full'.at = full.at /\ full'.step = "incremental"
        /\ full'.snap = [full.snap EXCEPT ![f] = ReadAt(read, f)]
    BY <1>6, <2>1 DEF IncrementalFeature
  <2> QED BY <2>2, <2>3, <2>4 DEF ReadSteps
<1>7. CASE IncrementalDone
  BY <1>23, <1>7 DEF IncrementalDone, ReadSteps
<1>8. CASE FallBack
  BY <1>1, <1>22, <1>8 DEF FallBack, FullIdle
<1>9. CASE ResolveImport
  BY <1>22, <1>9 DEF ResolveImport
<1>10. ASSUME NEW i \in Items, ReadItem(i)
       PROVE  Goal
  <2>1. ReadAt(head, i) \in {Blank} \cup UpTo(full.at, i)
    BY <1>0, ReadIsUpTo
  <2>2. /\ full'.at = full.at /\ full'.step = "reading"
        /\ full'.snap = [full.snap EXCEPT ![i] = ReadAt(head, i)]
    BY <1>10 DEF ReadItem
  <2>3. i = Config => ReadAt(head, i) = tree[head][i] /\ tree[head][i] \in Nat
    BY <1>0 DEF ReadAt, HistoryOK
  <2>4. ReadAt(head, i) # Skipped \/ i # Config
    BY <2>3, ValuesAssumption
  <2> QED BY <2>1, <2>2, <2>4 DEF ReadSteps, Items
<1>11. ASSUME NEW f \in Features, SkipFeature(f)
       PROVE  Goal
  <2>1. f # Config /\ f \in Items
    BY ItemsAssumption DEF Items
  <2>2. /\ full'.at = full.at /\ full'.step = "reading"
        /\ full'.snap = [full.snap EXCEPT ![f] = Skipped]
    BY <1>11 DEF SkipFeature
  <2> QED BY <2>1, <2>2 DEF ReadSteps
<1>12. CASE ImportRead
  BY <1>23, <1>12 DEF ImportRead, ReadSteps
<1>13. CASE SaveImport
  BY <1>23, <1>13 DEF SaveImport, ReadSteps
<1>14. CASE RecordFull
  BY <1>22, <1>14 DEF RecordFull
<1>15. CASE FailFull
  BY <1>22, <1>15 DEF FailFull
<1> QED BY <1>3, <1>4, <1>5, <1>6, <1>7, <1>8, <1>9, <1>10, <1>11, <1>12, <1>13,
           <1>14, <1>15 DEF FullNext

\* Steps of the full sync keep track of what is still to be read.
LEMMA FullForgotten ==
  ASSUME Inv, FullNext
  PROVE  NothingForgotten'
<1> USE DEF Inv, TypeOK, NothingForgotten
<1>0. /\ tree' = tree /\ anc' = anc
      /\ full.at \in 0..head /\ full.base \in 0..head
  BY Quiet, ValuesAssumption DEF gitVars, Commits, BaselineOrder
<1>1. FullIdle.step = "idle" /\ FullIdle.import = FALSE /\ FullIdle.todo = {}
  BY DEF FullIdle
<1> HIDE DEF FullIdle
<1>3. CASE StartFull
  BY <1>3 DEF StartFull
<1>4. CASE ResolveHead
  <2>1. full.snap = [i \in Items |-> Unread] /\ ~full.import
    BY <1>4 DEF ResolveHead, ReadsFollowResolve, FullIdle
  <2>2. CASE head = full.base
    <3>1. full.todo = {}
      BY <1>4 DEF ResolveHead
    <3>2. /\ full'.step = "record" /\ full'.at = full'.base
          /\ ~full'.import /\ full'.todo = {}
      BY <1>4, <2>1, <2>2, <3>1 DEF ResolveHead
    <3> QED BY <1>0, <3>2
  <2>3. CASE head # full.base
    BY <1>4, <2>3 DEF ResolveHead
  <2> QED BY <2>2, <2>3
<1>5. CASE Compare
  <2>1. /\ full.snap = [i \in Items |-> Unread] /\ ~full.import
        /\ Config \notin Differs(full.base, full.at)
        /\ full' = [full EXCEPT !.step = "incremental", !.since = head,
                       !.todo = Differs(full.base, full.at) \cap Features]
    BY <1>5 DEF Compare, ReadsFollowResolve, FullIdle
  <2>2. ASSUME NEW i \in Items, full.base \in anc[full.at],
               i \notin Differs(full.base, full.at) \cap Features
        PROVE  tree[full.at][i] = tree[full.base][i]
    <3>1. MergeBase(full.base, full.at) = full.base
      BY <1>0, <2>2, MergeBaseIsBase
    <3>2. i \notin Differs(full.base, full.at)
      BY <2>1, <2>2 DEF Items
    <3> QED BY <3>1, <3>2 DEF Differs
  <2> QED BY <1>0, <2>1, <2>2
<1>6. ASSUME NEW f \in Features, IncrementalFeature(f)
      PROVE  NothingForgotten'
  <2>1. PICK read \in 0..head :
          full' = [full EXCEPT !.since = head, !.todo = @ \ {f},
                               !.snap[f] = ReadAt(read, f)]
    BY <1>6, IncrementalRead
  <2>2. full.step = "incremental" /\ f \in Items
    BY <1>6 DEF IncrementalFeature, Items
  <2>3. ReadAt(read, f) # Unread
    BY <2>2, ReadAtType, ValuesAssumption DEF Content
  <2> QED BY <1>0, <2>1, <2>2, <2>3
<1>7. CASE IncrementalDone
  BY <1>0, <1>7 DEF IncrementalDone
<1>8. CASE FallBack
  <2>1. full' = [FullIdle EXCEPT !.step = "import"]
    BY <1>8 DEF FallBack
  <2>2. full'.step = "import" /\ full'.import = FALSE /\ full'.todo = {}
    BY <2>1 DEF FullIdle
  <2> QED BY <2>2
<1>9. CASE ResolveImport
  <2>1. /\ full'.step = "reading" /\ full'.import = TRUE /\ full'.at = head
        /\ full'.todo = {i \in Items : tree[head][i] # 0}
    BY <1>9 DEF ResolveImport
  <2>2. \A i \in Items : i \in full'.todo \/ tree[full'.at][i] = 0
    BY <2>1
  <2> QED BY <1>0, <2>1, <2>2
<1>10. ASSUME NEW i \in Items, ReadItem(i)
       PROVE  NothingForgotten'
  <2>1. ReadAt(head, i) # Unread
    <3>1. head \in 0..head
      BY ValuesAssumption DEF Commits
    <3>2. ReadAt(head, i) \in Content
      BY <3>1, ReadAtType
    <3> QED BY <3>2, ValuesAssumption DEF Content
  <2>2. /\ full.step = "reading"
        /\ full' = [full EXCEPT !.todo = @ \ {i}, !.snap[i] = ReadAt(head, i)]
    BY <1>10 DEF ReadItem
  <2> QED BY <1>0, <2>1, <2>2
<1>11. ASSUME NEW f \in Features, SkipFeature(f)
       PROVE  NothingForgotten'
  <2>1. /\ full.step = "reading" /\ f \in Items /\ Skipped # Unread
        /\ full' = [full EXCEPT !.todo = @ \ {f}, !.snap[f] = Skipped]
    BY <1>11, ValuesAssumption DEF SkipFeature, Items
  <2> QED BY <1>0, <2>1
<1>12. CASE ImportRead
  BY <1>0, <1>12 DEF ImportRead
<1>13. CASE SaveImport
  BY <1>0, <1>13 DEF SaveImport
<1>14. CASE RecordFull
  BY <1>1, <1>14 DEF RecordFull
<1>15. CASE FailFull
  BY <1>1, <1>15 DEF FailFull
<1> QED BY <1>3, <1>4, <1>5, <1>6, <1>7, <1>8, <1>9, <1>10, <1>11, <1>12, <1>13,
           <1>14, <1>15 DEF FullNext

\* The initial states satisfy the invariant.
LEMMA InitInv ==
  ASSUME Init
  PROVE  Inv
<1> USE DEF Init
<1>1. 0 \in Commits /\ MaxCommits \in Nat /\ None \notin Nat
  BY ValuesAssumption DEF Commits
<1>2. PICK S \in SUBSET Features :
        tree = [c \in Commits |->
                  [i \in Items |-> IF c = 0 /\ i \in S \cup {Config}
                                   THEN 1 ELSE 0]]
  OBVIOUS
<1>3. TypeOK
  BY <1>1, <1>2 DEF TypeOK, FullIdle, TgtIdle, FullSteps, TgtSteps, Content
<1>4. HistoryOK
  BY <1>1, <1>2 DEF HistoryOK, Items
<1>5. BaselineOrder
  BY <1>1 DEF BaselineOrder, FullIdle, Resolved
<1>6. ReadsFollowResolve
  BY ValuesAssumption DEF ReadsFollowResolve, FullIdle, TgtIdle, Items
<1>7. NothingForgotten
  BY DEF NothingForgotten, FullIdle
<1> QED BY <1>3, <1>4, <1>5, <1>6, <1>7 DEF Inv

\* Every step keeps the invariant.
LEMMA InvStep ==
  ASSUME Inv, [Next]_vars
  PROVE  Inv'
<1>1. CASE FullNext
  <2>1. HistoryOK'
    <3>1. head' = head /\ tree' = tree /\ anc' = anc
      BY <1>1, Quiet DEF gitVars
    <3> QED BY <3>1 DEF Inv, HistoryOK
  <2> QED BY <1>1, <2>1, FullType, FullOrder, FullReads, FullForgotten DEF Inv
<1>2. CASE \E t \in Targets : TargetNext(t)
  BY <1>2, TargetInv
<1>3. CASE \E j \in Items : Push(j) \/ ForcePush(j)
  BY <1>3, GitInv
<1>4. CASE UNCHANGED vars
  BY <1>4 DEF vars, Inv, TypeOK, HistoryOK, BaselineOrder, ReadsFollowResolve,
              NothingForgotten, UpTo, FullIdle
<1> QED BY <1>1, <1>2, <1>3, <1>4 DEF Next

\* The invariant of the runs holds with any constants: baselines never go
\* back, nothing is recorded that was read before its commit was resolved, and
\* no item of a commit is forgotten (the full, incremental and targeted paths of
\* HandleWorkspaceSync, under any pushes, failures and overlaps).
THEOREM InvHolds == Spec => []Inv
BY InitInv, InvStep, PTL DEF Spec

\* An attempt that takes the rows of i for what they are not up to its commit
\* has one of the known reasons.
LEMMA RecordStep ==
  ASSUME Inv, NEW i \in Items, full.step = "record",
         row[i] \notin UpTo(full.at, i)
  PROVE  RecordedWrongly(i)
<1>1. SUFFICES ASSUME full.snap[i] # Blank, row[i] = Expected(i),
                      full.import \/ full.base \in anc[full.at]
               PROVE  row[i] \in UpTo(full.at, i)
  BY DEF RecordedWrongly
<1>2. full.at \in 0..head /\ full.base \in 0..head /\ full.at \in full.at..head
  BY ValuesAssumption DEF Inv, TypeOK, BaselineOrder, Commits
<1>3. tree[full.at][i] \in UpTo(full.at, i)
  BY <1>2 DEF UpTo
<1>4. CASE full.snap[i] # Unread
  <2>1. row[i] # Skipped
    BY ValuesAssumption DEF Inv, TypeOK, Content
  <2> QED BY <1>1, <1>4, <2>1 DEF Expected, Inv, ReadsFollowResolve
<1>5. CASE full.snap[i] = Unread
  <2>1. full.todo = {}
    BY DEF Inv, NothingForgotten
  <2>2. CASE full.import
    BY <1>1, <1>3, <1>5, <2>1, <2>2 DEF Expected, Inv, NothingForgotten
  <2>3. CASE ~full.import
    BY <1>1, <1>3, <1>5, <2>1, <2>3 DEF Expected, Inv, NothingForgotten
  <2> QED BY <2>2, <2>3
<1> QED BY <1>4, <1>5

\* What was read after the baseline commit does not contradict it.
LEMMA LaterRead ==
  ASSUME Inv, baseline # None, NEW c \in Nat, baseline <= c, NEW i
  PROVE  UpTo(c, i) \subseteq UpTo(baseline, i)
  BY UpToSubset, ValuesAssumption DEF Inv, TypeOK, Commits

\* Every step satisfies the drift property.
LEMMA DriftStep ==
  ASSUME Inv, [Next]_vars
  PROVE  DriftIsExplained
<1>1. SUFFICES ASSUME NEW i \in Items, Drifted(i)', Records \/ ~Drifted(i)
               PROVE  RecordedWrongly(i) \/ ImportedWrongly(i) \/ SavedWrongly(i)
  BY DEF DriftIsExplained
<1> DEFINE Goal == RecordedWrongly(i) \/ ImportedWrongly(i) \/ SavedWrongly(i)
<1>2. CASE UNCHANGED vars
  BY <1>1, <1>2 DEF vars, Drifted, Records, UpTo
<1>3. ASSUME NEW j \in Items, Push(j) \/ ForcePush(j)
      PROVE  Goal
  <2>1. PICK p \in 0..head, v \in Nat : NewHead(p, j, v)
    BY <1>3, GitSteps DEF Inv
  <2>2. p \in Commits
    BY ValuesAssumption DEF Inv, TypeOK, Commits
  <2>3. UNCHANGED <<row, baseline, full, tgt>>
    BY <2>1 DEF NewHead
  <2>4. baseline # None /\ row[i] \notin UpTo(baseline, i)'
    BY <1>1, <2>3 DEF Drifted
  <2>5. baseline \in 0..head
    BY <2>4, ValuesAssumption DEF Inv, TypeOK, BaselineOrder, Commits
  <2>6. UpTo(baseline, i) \subseteq UpTo(baseline, i)'
    <3>1. PICK b \in 0..head : b = baseline
      BY <2>5
    <3>2. UpTo(b, i) \subseteq UpTo(b, i)'
      BY <2>1, <2>2, UpToGrows DEF Inv
    <3>3. UpTo(b, i)' = UpTo(baseline, i)'
      BY <2>3, <3>1 DEF UpTo
    <3> QED BY <3>1, <3>2, <3>3
  <2> QED BY <1>1, <2>3, <2>4, <2>6 DEF Drifted, Records
<1>4. ASSUME NEW t \in Targets, TargetNext(t)
      PROVE  Goal
  <2>1. full' = full /\ baseline' \in {None, baseline}
        /\ UpTo(baseline, i)' = UpTo(baseline', i)
    BY <1>4, Quiet DEF TargetNext, ResolveTarget, ReadTarget, SaveTarget,
                      RecordTarget, FailTarget, RunFailed
  <2>2. baseline # None /\ row'[i] \notin UpTo(baseline, i) /\ row'[i] # row[i]
    BY <1>1, <2>1 DEF Drifted, Records
  <2>3. tgt[t].step = "fetched" /\ row' = [row EXCEPT ![t[1]] = tgt[t].got]
    BY <1>4, <2>2 DEF TargetNext, ResolveTarget, ReadTarget, SaveTarget,
                      RecordTarget, FailTarget
  <2>4. t[1] = i /\ row'[i] = tgt[t].got
    BY <2>2, <2>3 DEF Inv, TypeOK
  <2>5. tgt[t].got \in {Blank, Foreign} \/ tgt[t].got \in UpTo(tgt[t].at, i)
    BY <2>3, <2>4 DEF Inv, ReadsFollowResolve
  <2>6. tgt[t].at \in Nat /\ baseline \in Nat
    BY <2>2, ValuesAssumption DEF Inv, TypeOK, Commits
  <2>7. tgt[t].got \in {Blank, Foreign} \/ tgt[t].at < baseline
    BY <2>2, <2>4, <2>5, <2>6, LaterRead
  <2> QED BY <2>2, <2>3, <2>4, <2>7 DEF SavedWrongly
<1>5. CASE FullNext
  <2>1. \A c, k : UpTo(c, k)' = UpTo(c, k)
    BY <1>5, Quiet
  <2>2. baseline' # None /\ row'[i] \notin UpTo(baseline', i)
    BY <1>1, <2>1, Quiet, <1>5 DEF Drifted, UpTo, gitVars
  <2>3. CASE RecordFull
    <3>1. row[i] \notin UpTo(full.at, i) /\ full.step = "record"
      BY <2>2, <2>3 DEF RecordFull, RunSucceeded
    <3> QED BY <3>1, RecordStep
  <2>4. CASE FailFull
    <3>1. row' = row /\ baseline' = baseline
      BY <2>2, <2>4 DEF FailFull, RunFailed
    <3>2. Records
      BY <1>1, <2>2, <3>1 DEF Drifted
    <3>3. row[i] \notin UpTo(full.at, i) /\ full.step = "record"
      BY <2>2, <3>1, <3>2 DEF Records
    <3> QED BY <3>3, RecordStep
  <2>5. ASSUME baseline' = baseline, full'.step # "idle"
        PROVE  row'[i] # row[i] /\ row'[i] \notin UpTo(baseline, i)
               /\ baseline # None
    BY <1>1, <2>2, <2>5 DEF Drifted, Records
  <2>6. ASSUME NEW f \in Features, IncrementalFeature(f)
        PROVE  Goal
    <3>1. PICK read \in 0..head :
            /\ full.at <= read
            /\ row' = [row EXCEPT ![f] = ReadAt(read, f)]
            /\ full' = [full EXCEPT !.since = head, !.todo = @ \ {f},
                                    !.snap[f] = ReadAt(read, f)]
            /\ UNCHANGED <<gitVars, baseline, tgt>>
      BY <2>6, IncrementalRead DEF Inv
    <3>2. full.step = "incremental" /\ full'.step = "incremental"
      BY <2>6, <3>1 DEF IncrementalFeature, Inv, TypeOK
    <3>3. f = i /\ row'[i] = ReadAt(read, i) /\ baseline # None
          /\ row'[i] \notin UpTo(baseline, i)
      BY <2>5, <3>1, <3>2 DEF Inv, TypeOK
    <3>4. full.at \in Nat /\ baseline <= full.at
      BY <3>2, <3>3, ValuesAssumption
         DEF Inv, TypeOK, Commits, BaselineOrder, Resolved
    <3>5. row'[i] \in {Blank} \cup UpTo(full.at, i)
      BY <3>1, <3>3, <3>4, ReadIsUpTo DEF Inv
    <3>6. row'[i] = Blank
      BY <3>3, <3>4, <3>5, LaterRead
    <3> QED BY <3>2, <3>6 DEF SavedWrongly
  <2>7. CASE SaveImport
    <3>1. baseline' = baseline /\ full.step = "fetched" /\ full'.step = "record"
      BY <2>7 DEF SaveImport, Inv, TypeOK
    <3>2. row'[i] # row[i] /\ row'[i] \notin UpTo(baseline, i) /\ baseline # None
      BY <2>5, <3>1
    <3>3. full.at \in 0..head /\ full.at \in Nat /\ baseline <= full.at
          /\ full.at \in full.at..head
      BY <3>1, <3>2, ValuesAssumption
         DEF Inv, TypeOK, Commits, BaselineOrder, Resolved
    <3>4. row'[i] \notin UpTo(full.at, i)
      BY <3>2, <3>3, LaterRead
    <3>5. row'[i] = full.snap[i]
          \/ (row'[i] = 0 /\ full.snap[i] \in {Unread, Skipped})
      BY <2>7, <3>2 DEF SaveImport, KeepList, Items
    <3>6. tree[full.at][i] \in UpTo(full.at, i)
      BY <3>3 DEF UpTo
    <3>7. full.snap[i] = Unread => tree[full.at][i] = 0
      BY <3>1 DEF Inv, NothingForgotten
    <3>8. i = Config => full.snap[i] # Unread
      BY <3>3, <3>7 DEF Inv, HistoryOK
    <3>9. row'[i] # Unread
      BY <1>5, FullType, ValuesAssumption DEF TypeOK, Content
    <3>10. full.snap[i] \in {Skipped, Blank}
      BY <3>4, <3>5, <3>6, <3>7, <3>9 DEF Inv, ReadsFollowResolve
    <3> QED BY <3>1, <3>10 DEF ImportedWrongly
  <2>8. ASSUME row' = row, baseline' = baseline, full'.step # "idle"
        PROVE  Goal
    BY <2>5, <2>8
  <2>9. CASE StartFull
    BY <2>8, <2>9 DEF StartFull, Inv, TypeOK
  <2>10. CASE ResolveHead
    BY <2>8, <2>10 DEF ResolveHead, Inv, TypeOK
  <2>11. CASE Compare
    BY <2>8, <2>11 DEF Compare, Inv, TypeOK
  <2>12. CASE IncrementalDone
    BY <2>8, <2>12 DEF IncrementalDone, Inv, TypeOK
  <2>13. CASE FallBack
    BY <2>8, <2>13 DEF FallBack, FullIdle
  <2>14. CASE ResolveImport
    BY <2>8, <2>14 DEF ResolveImport, Inv, TypeOK
  <2>15. CASE \E k \in Items : ReadItem(k)
    BY <2>8, <2>15 DEF ReadItem, Inv, TypeOK
  <2>16. CASE \E f \in Features : SkipFeature(f)
    BY <2>8, <2>16 DEF SkipFeature, Inv, TypeOK
  <2>17. CASE ImportRead
    BY <2>8, <2>17 DEF ImportRead, Inv, TypeOK
  <2> QED BY <1>5, <2>3, <2>4, <2>6, <2>7, <2>9, <2>10, <2>11, <2>12, <2>13,
             <2>14, <2>15, <2>16, <2>17 DEF FullNext
<1> QED BY <1>2, <1>3, <1>4, <1>5 DEF Next

\* With any constants: rows come to contradict the latest sync run only when
\* something was left out, overwritten, read from another branch or before the
\* baseline, blanked, or compared across rewritten history (SaveSnapshot,
\* tryIncrementalSync, handleTargetedSync and HandleTaskSync side by side).
THEOREM DriftHolds == Spec => OnlyKnownDrift
<1>1. Inv /\ [Next]_vars => [DriftIsExplained]_vars
  BY DriftStep
<1> QED BY <1>1, InvHolds, PTL DEF Spec, OnlyKnownDrift
============================================================================
