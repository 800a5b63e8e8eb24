\* Two monitor passes over a report that is due, a fault and a stop of the
\* control; no scheduler, no symmetry: liveness.
SPECIFICATION FairSpec
CONSTANTS
  Slots = {0}
  Workers = {}
  Watchers = {w1, w2}
  w1 = w1
  w2 = w2
  ReportDue = 3
  Expires = 6
  LastTick = 6
  MaxUpsets = 1
  Nobody = Nobody
INVARIANTS
  ReportTakenOnce
  ReportTellsTheTruth
  StopIsImmediate
PROPERTIES
  ReportSettles
