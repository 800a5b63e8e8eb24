\* Two schedulers and one monitor pass over one slot; no symmetry: liveness.
SPECIFICATION FairSpec
CONSTANTS
  Slots = {1}
  Workers = {p1, p2}
  Watchers = {w1}
  p1 = p1
  p2 = p2
  w1 = w1
  ReportDue = 4
  Expires = 0
  LastTick = 4
  MaxUpsets = 1
  Nobody = Nobody
INVARIANTS
  OneRunner
  MissedNeverRan
  CompletedMeansDelivered
  FrozenIsSettled
PROPERTIES
  VerdictStays
  EverySlotSettles
