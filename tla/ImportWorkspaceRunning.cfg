SPECIFICATION Spec
CONSTANTS
  Requests = {r1}
  repo1 = repo1
  repo2 = repo2
  slug1 = slug1
  slug2 = slug2
  Repos <- MCRepos
  Slugs <- MCSlugs
  OwnSlug <- MCOwnSlug
  Orgs = {o1, o2}
  None = None
  MaxSyncs = 1
INVARIANT RunningMeansInProgress
SYMMETRY Symmetry
CHECK_DEADLOCK FALSE
