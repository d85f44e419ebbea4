SPECIFICATION Spec
CONSTANTS
  n1 = n1
  n2 = n2
  Nodes = {n1, n2}
  Schedulers = {n1}
  Size <- ThreeAndOne
  BatchSize = 2
  MaxJobs = 2
  MaxErrors = 0
  MaxCrashes = 0
  MaxCancels = 1
  MaxSlow = 0
  MaxStops = 0
  MaxChanges = 0
CHECK_DEADLOCK FALSE
PROPERTIES
  NotScheduledWhileRunning
