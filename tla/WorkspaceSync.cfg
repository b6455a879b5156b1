SPECIFICATION Spec
CONSTANTS
  Features = {f}
  Config = Config
  Sources = {"default", "branch"}
  None = None
  Unread = Unread
  Skipped = Skipped
  Blank = Blank
  Foreign = Foreign
  MaxCommits = 2
INVARIANT Inv
PROPERTY OnlyKnownDrift
