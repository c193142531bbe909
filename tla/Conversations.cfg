SPECIFICATION MCSpec
CONSTANTS
  None = None
  Mails = {m1, m2}
  Lambdas = {i1, i2}
  MaxRequests = 3
  MaxFaults = 1
  MaxTries = 2
  MaxHour = 2
SYMMETRY Symmetry
\* Requests, faults and days run out.
CHECK_DEADLOCK FALSE
INVARIANTS
  OneThread
  MailIsListed
  SiblingsAnswered
  SnoozeEnds
  UserIsHeard
