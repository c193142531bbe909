SPECIFICATION Spec
CONSTANTS
  t1 = t1
  t2 = t2
  Mails <- MCMails
  Targets = {t1, t2}
  Rejecting = {t2}
  Workers = {i1, i2}
  MaxReceives = 3
  MaxFaults = 1
  MaxDuplicates = 1
  MaxArrivals = 1
SYMMETRY Symmetry
CHECK_DEADLOCK FALSE
INVARIANTS
  DeletedMeansDone
  RepeatsNeedCauses
  OnlyVerifiedForwarded
  ExpiryIsExplained
