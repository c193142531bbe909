SPECIFICATION Spec
CONSTANTS
  SystemRules = {s1}
  UserRules = {u1, u2}
  w1 = w1
  w2 = w2
  SystemBodies <- MCSystemBodies
  UserBodies <- MCUserBodies
  Changes <- MCChanges
  Workflows <- MCWorkflows
  Requests = {q1, q2}
  MaxRequests = 2
  MaxOrder = 2
  NoRule = NoRule
SYMMETRY Symmetry
CHECK_DEADLOCK FALSE
INVARIANTS
  TraceIsFaithful
  StatusIsSettledOnce
  SignalFollowsThread
