\* Three days submitted as split segments, then ended, approved and promoted by
\* two overlapping calls, from the open window to the review.
SPECIFICATION Spec
CONSTANTS
  Requests = {1, 2, 3}
  Callers = {c1, c2}
  Days = {1, 2, 3}
  Window = {1, 2, 3}
  Asks = {}
  Splits <- MCSplits
  CreateKeys = {}
  SplitKeys = {s1}
  Quotas = {1, 2}
  StartPhases = {2}
  LateAllowed = TRUE
  MaxVersion = 1
  MaxWindow = 1
  None = None
SYMMETRY Symmetry
\* The story ends when the keys are used up and every request has ended.
CHECK_DEADLOCK FALSE
INVARIANTS
  CalendarMatches
PROPERTIES
  QuotaRespected
  NoDateIsLost
  PromotedInOrder
