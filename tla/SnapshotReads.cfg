SPECIFICATION Spec
CONSTANTS
  d1 = d1
  d2 = d2
  Dirs <- MCDirs
  Order <- MCOrder
  Names <- MCDirs
  Tasks = {t1}
  None = None
  MaxCommits = 1
  MaxSyncs = 2
INVARIANTS Inv SavedIsRecorded
PROPERTIES OnlyKnownRemovals NothingMissed OnlyNewLabelsOvertake
CHECK_DEADLOCK FALSE
