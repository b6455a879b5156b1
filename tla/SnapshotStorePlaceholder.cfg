SPECIFICATION Spec
CONSTANTS
  Features = {f1, f2}
  Tasks = {t1}
  Savers = {s1}
  Protected <- MCProtected
  Statuses <- MCStatuses
  None = None
  MaxSaves = 1
PROPERTY PlaceholderOnlyFills
