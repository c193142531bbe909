SPECIFICATION Spec
CONSTANTS
  Accounts = {a, b}
  AutoReply = {a, b}
  \* 100 in the code.
  MaxHopCount = 3
  MaxMails = 6
CHECK_DEADLOCK FALSE
INVARIANTS
  LoopBounded
