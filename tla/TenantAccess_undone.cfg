\* What the documentation says of reactivation.
SPECIFICATION Spec
CONSTANTS
  Users = {a, b}
  FirstAdmins = {a}
  Links = {l1, l2}
  Callers = {c1, c2}
  Patches <- MCPatches
  MaxEndings = 1
  None = None
SYMMETRY Symmetry
\* The story ends when the links are used up and nobody is left to log in.
CHECK_DEADLOCK FALSE
PROPERTIES
  ReactivatedByLink
