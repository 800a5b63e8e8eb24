\* Safety: two mails, two runs, two attempts each, both mails in one claim.
SPECIFICATION Spec
CONSTANTS
  Mails = {m1, t1}
  TimeControl = {t1}
  Workers = {w1, w2}
  MaxAttempts = 2
  BatchLimit = 2
  NoRow = NoRow
SYMMETRY WorkerSymmetry
INVARIANTS
  TimeControlCalledOnce
  AcceptedIsVisible
  NoDuplicateWithoutFault
PROPERTIES
  DeliveryPromise
