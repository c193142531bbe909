SPECIFICATION Spec
CONSTANTS
  m1 = m1
  m2 = m2
  Platforms = {"imap", "jmap", "gmail"}
  PushServers = {TRUE, FALSE}
  Mailboxes = {m1, m2}
  Home = m1
  Runs = {r1, r2}
  Requests = {q1}
  Batch = 1
  HistoryPage = 1
  Overlap = 1
  OldMails = 0
  MaxMails <- MCMaxMails
  MaxEvents = 2
SYMMETRY Symmetry
CHECK_DEADLOCK FALSE
INVARIANTS
  CursorFollowsQueue
  LossesHaveCauses
PROPERTIES
  EndsForCause
