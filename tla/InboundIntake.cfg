CONSTANTS
  Mails = {e1, e2}
  Messages = {m1, m2}
  Invites = {e1}
  Clusters = {c1, c2}
  Primary = c1
  Workers = {w1}
  NoMessage = NoMessage
  MaxFaults = 2
  MaxDuplicates = 0

SPECIFICATION FairSpec

\* Every message is deleted in the end.
CHECK_DEADLOCK FALSE

PROPERTIES
  ImplementsIntake
