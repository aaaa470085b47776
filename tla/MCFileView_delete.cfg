\* Two files are selected and deleted, and the user goes on navigating.
SPECIFICATION Spec
CONSTANTS
  Name = {1, 2}
  MaxDepth = 2
  Disk0 <- SmallDisk
  Ops = {"nav", "select", "delete"}
  MaxActs = 4
  MaxJobs = 1
  MaxFails = 0
  Nowhere = Nowhere
PROPERTY DeletedDisappear
\* When the user has done all there is to do, the view is at rest.
CHECK_DEADLOCK FALSE
