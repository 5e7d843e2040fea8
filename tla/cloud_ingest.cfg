SPECIFICATION FairSpec
CONSTANTS
  None = None
  Interval = 1
  MaxNow = 2
  MaxChanges = 2
  MaxEvents = 2
  MaxLink = 1
  MaxTasks = 2
  MaxFails = 1
INVARIANTS CountsAddUp
PROPERTIES SnapshotNeverBack SnapshotCatchesUp
