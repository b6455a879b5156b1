SPECIFICATION Spec
CONSTANTS
  Features = {f}
  Config = Config
  Sources = {"default"}
  None = None
  Unread = Unread
  Skipped = Skipped
  Blank = Blank
  Foreign = Foreign
  MaxCommits = 2
PROPERTY PrunesOnlyRemoved
