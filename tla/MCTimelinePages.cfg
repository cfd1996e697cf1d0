SPECIFICATION TimelineSpec
CONSTANTS
  TimelineClusters = {k}
  TimelineLimit = 1
  SourceCap = 3
  MaxTimelineItems = 3
  MaxTimelineClock = 1
INVARIANT TimelinePagesAreWhole
CHECK_DEADLOCK FALSE
