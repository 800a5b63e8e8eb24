\* One server process, a bootstrap job and its successor: a delta job after an
\* interval, or a second bootstrap from the script. A full page and an empty one of
\* each endpoint, one fault, one change of the remote system. No symmetry: liveness.
SPECIFICATION FairSpec
CONSTANTS
  Workers = {w1}
  MaxJobs = 2
  MaxRetries = 2
  MaxTime = 1
  MaxManual = 0
  MaxResets = 1
  MaxFaults = 1
  None = None
  Endpoints <- MCEndpoints
  Rows = {1, 2}
  PageSize = 2
  MaxTries = 2
  MaxClock = 2
\* The story ends when the rows of the job table are used up.
CHECK_DEADLOCK FALSE
INVARIANTS
  FullPassIsComplete
PROPERTIES
  BacklogHeals
  AccessKept
  JobSettles
