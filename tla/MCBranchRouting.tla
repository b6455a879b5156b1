-------------------------- MODULE MCBranchRouting --------------------------
EXTENDS BranchRouting

\* The patterns of the tests, a placeholder used twice, the task first, no
\* task, and nothing but placeholders.
MCPatterns == {
  <<"workspaces", "/", FeatureId, "/", "tasks", "/", WorkId>>,
  <<"f", "/", FeatureId, "/", FeatureId, "-", WorkId>>,
  <<FeatureId, "-", FeatureId, "-", WorkId>>,
  <<FeatureId, "-", WorkId>>,
  <<WorkId, "/", FeatureId>>,
  <<WorkId, "-", FeatureId>>,
  <<"feature", "/", FeatureId>>}

MCWords == {"workspaces", "tasks", "f", "feature", "a", "b", "init", "main", "hotfix",
            "T1", "T2", "/", "-", FeatureId, WorkId}
MCFeatureIds == {<<"a">>, <<"a", "-", "b">>, <<"a", "-", "init">>, <<"a", "-", "T1">>, <<"main">>}
MCWorkIds == {"T1", "T2"}
MCSeparators == {"/", "-", "_", "."}
MCDefaultBranch == <<"main">>
MCOtherBranches == {<<"hotfix", "/", "a", "-", "T1">>, <<"feature", "/">>}

=============================================================================
