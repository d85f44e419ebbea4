SPECIFICATION EitherSpec
CONSTANTS
  n1 = n1
  n2 = n2
  Nodes = {n1, n2}
  Schedulers = {n1}
  Size <- OneAndOne
  BatchSize = 2
  MaxJobs = 3
  MaxErrors = 1
  MaxCrashes = 1
  MaxCancels = 1
  MaxSlow = 0
  MaxStops = 1
  MaxChanges = 2
CHECK_DEADLOCK FALSE
INVARIANTS
  OneRunner
PROPERTIES
  MigrationCompletes
  JobsEnd
  StopReturnsUnlessTaken
