\* The documentation's claim on the scans of v4, which a delta job does not keep:
\* one process, a bootstrap job and the delta job after it, no faults.
SPECIFICATION Spec
CONSTANTS
  Workers = {w1}
  MaxJobs = 2
  MaxRetries = 2
  MaxTime = 1
  MaxManual = 0
  MaxResets = 0
  MaxFaults = 0
  None = None
  Endpoints <- MCProjects
  Rows = {1, 2}
  PageSize = 2
  MaxTries = 2
  MaxClock = 2
CHECK_DEADLOCK FALSE
INVARIANTS
  ProjectsAreScanned
