SPECIFICATION FairSpec
CONSTANTS
  m1 = m1
  m2 = m2
  Platforms = {"imap", "jmap"}
  PushServers = {FALSE}
  Mailboxes = {m1}
  Home = m1
  Runs = {r1, r2}
  Requests = {q1}
  Batch = 1
  HistoryPage = 1
  Overlap = 1
  OldMails = 0
  MaxMails <- MCMaxMails
  MaxEvents = 2
CHECK_DEADLOCK FALSE
PROPERTIES
  PolledMailIsQueued
