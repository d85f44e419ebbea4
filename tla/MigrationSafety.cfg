SPECIFICATION Spec
CONSTANTS
  n1 = n1
  n2 = n2
  Nodes = {n1, n2}
  Schedulers = {n1, n2}
  Size <- ThreeAndOne
  BatchSize = 2
  MaxJobs = 2
  MaxErrors = 0
  MaxCrashes = 0
  MaxCancels = 1
  MaxSlow = 1
  MaxStops = 0
  MaxChanges = 0
SYMMETRY Swap
CHECK_DEADLOCK FALSE
INVARIANTS
  TypeOK
  OneWorkerPerJob
  CompletedMeansMigrated
  ProgressIsCovered
PROPERTIES
  ProgressGrows
  FinalUnlessWedged
