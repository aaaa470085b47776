SPECIFICATION Spec
CONSTANTS
  Name = {1, 2}
  MaxDepth = 2
  Disk0 <- SmallDisk
  Ops = {"nav", "select", "preview", "delete", "rename", "mkdir", "upload", "drop", "move"}
  MaxActs = 3
  MaxJobs = 2
  MaxFails = 1
  Nowhere = Nowhere
INVARIANTS TypeOK HistoryPointsAtCwd ShowsDirectory TreeShowsDirectories PreviewShowsItsFile
\* When the user has done all there is to do, the view is at rest.
CHECK_DEADLOCK FALSE
