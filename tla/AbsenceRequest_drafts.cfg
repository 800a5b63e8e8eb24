\* Two drafts of one day each compete for one exempt day; they are created twice,
\* edited, submitted, ended and approved while the window may be closed or changed.
SPECIFICATION Spec
CONSTANTS
  Requests = {1, 2}
  Callers = {c1, c2}
  Days = {1, 2}
  Window = {1, 2}
  Asks <- MCAsks
  Splits = {}
  CreateKeys = {k1, k2}
  SplitKeys = {}
  Quotas = {1}
  StartPhases = {2}
  LateAllowed = FALSE
  MaxVersion = 2
  MaxWindow = 2
  None = None
SYMMETRY Symmetry
\* The story ends when the keys are used up and every request has ended.
CHECK_DEADLOCK FALSE
INVARIANTS
  AnswerStands
  KeyCreatesOnce
  VictimsAreEndings
PROPERTIES
  ActsOnWhatWasSeen
