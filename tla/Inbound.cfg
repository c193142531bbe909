CONSTANTS
  Mails = {e1, e2}
  Messages = {m1, m2}
  Invites = {}
  Clusters = {c1, c2}
  Primary = c1
  Workers = {w1, w2}
  NoMessage = NoMessage
  MaxFaults = 1
  MaxDuplicates = 1

SPECIFICATION Spec

SYMMETRY Symmetry

\* Every message is deleted in the end.
CHECK_DEADLOCK FALSE

INVARIANTS
  ThreadBeforeSignal
  AuroraGate
  NoLostSideEffects
  WritesAgree
  VacantThreadsNeedFaults
