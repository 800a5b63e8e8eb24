\* Two processes in one slot, live and simulated runs of it, an activation, a
\* pause and a reactivation, one change each of routing and projects.
SPECIFICATION Spec
CONSTANTS
  Processes = {p1, p2}
  LastSlot = 1
  MaxRevision = 3
  MaxRouting = 1
  MaxScope = 1
  Modes = {"live", "simulation"}
  Nobody = Nobody
  Preview = Preview
SYMMETRY ProcessSymmetry
CHECK_DEADLOCK FALSE
INVARIANTS
  OneCallPerSlot
  NoRunForgotten
  MailNotDenied
  MailUnderCurrentControl
PROPERTIES
  PassedSlotsStaySilent
  DeliveryPromise
