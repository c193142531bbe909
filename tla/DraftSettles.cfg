CONSTANTS
  Requests = {r1}
  Workers = {w1}
  MaxSends = 2
  MaxEdits = 1
  MaxBounces = 1
  MaxFaults = 1
  MaxDuplicates = 0

SPECIFICATION FairSpec

\* Users may leave the draft alone for good.
CHECK_DEADLOCK FALSE

PROPERTIES
  PendingSendSettles
