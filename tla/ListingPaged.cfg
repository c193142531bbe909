SPECIFICATION Spec
CONSTANTS
  Rows = {r1, r2, r3}
  MaxLimit = 2
  MaxChanges = 4
\* Changes run out and the reader reaches the end.
CHECK_DEADLOCK FALSE
INVARIANTS
  CursorReachesAll
