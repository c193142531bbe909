CONSTANTS
  Requests = {r1, r2}
  Workers = {w1, w2}
  MaxSends = 2
  MaxEdits = 0
  MaxBounces = 0
  MaxFaults = 1
  MaxDuplicates = 1

SPECIFICATION Spec

\* Users may leave the draft alone for good.
CHECK_DEADLOCK FALSE

SYMMETRY Symmetry

INVARIANTS
  DuplicateMailsNeedFaults

PROPERTIES
  OnlyArmedSendsMail
  DeletedStaysDeleted
