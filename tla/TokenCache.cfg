SPECIFICATION Spec
CONSTANTS
  Calls = {c1, c2}
  Repos = {r1, r2}
  owner = owner
  OwnerOf <- MCOwnerOf
  NumTokens = 2
  None = None
  MaxChanges = 1
INVARIANT Inv
PROPERTIES OnlyKnownDenials EveryCallEnds
CHECK_DEADLOCK FALSE
