CONSTANTS
  Words <- MCWords
  Patterns <- MCPatterns
  DefaultBranch <- MCDefaultBranch
  FeatureIds <- MCFeatureIds
  WorkIds <- MCWorkIds
  OtherBranches <- MCOtherBranches
  Separators <- MCSeparators
  None = None

SPECIFICATION Spec
CHECK_DEADLOCK FALSE
INVARIANTS
  RoutedRight
  FetchedRight
