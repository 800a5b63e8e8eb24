\* Liveness of one ordinary mail under two overlapping runs; no symmetry.
SPECIFICATION FairSpec
CONSTANTS
  Mails = {m1}
  TimeControl = {}
  Workers = {w1, w2}
  MaxAttempts = 3
  BatchLimit = 1
  NoRow = NoRow
PROPERTIES
  EventuallySettled
