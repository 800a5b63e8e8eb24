\* A scheduled run, a test run and a catch-up of one day, two acts of
\* administrators or the employee, and the mail.
SPECIFICATION FairSpec
CONSTANTS
  Scheduled = s
  Tests = {t1}
  CatchUps = {c1}
  MaxClock = 3
  MaxEpochs = 2
  MaxApprovals = 2
  MaxChanges = 2
  None = None
\* The story ends when every caller is done and the window has closed.
CHECK_DEADLOCK FALSE
INVARIANTS
  CapturedHeadIsNewest
  MailedOnCurrentFacts
PROPERTIES
  LocksComeFree
