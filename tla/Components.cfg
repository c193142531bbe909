SPECIFICATION MCSpec
CONSTANTS
  None = None
  i1 = i1
  i2 = i2
  i3 = i3
  a1 = a1
  a2 = a2
  a3 = a3
  b1 = b1
  c1 = c1
  f1 = f1
  f2 = f2
  t1 = t1
  t2 = t2
  Lambdas = {i1, i2}
  Accounts = {a1, a2}
  Conns = {a1, a2}
  MaxFaults = 1
  MaxDeviceFaults = 2
  MaxTries = 2
  MaxPosts = 3
  MaxChecks = 1
  MaxChanges = 1
  MaxNotices = 2
  Receivers = {a1, a2}
  Own = {a1}
  Mailbox = a2
  Targets = {a1, a2, a3}
  Login = a1
  Hooks = {a3}
  Views = {a1, a2, a3}
  Labels = {b1}
  Templates = {c1}
  Functions = {f1, f2}
  MaxRequests = 4
  MaxAccountRequests = 3
  MaxExchanges = 1
  MaxReports = 2
  MaxAttempts = 2
  MaxExpiries = 1
  Days = 2
  Sundays = {2}
  BatchSize = 1
  MaxReceives = 2
SYMMETRY Symmetry
\* Requests, faults, mails and days run out.
CHECK_DEADLOCK FALSE
INVARIANTS
  AliasesHold
  DomainsHold
  AccountHolds
  SettingsHold
  ResourcesHold
  CountsHold
  ListsHold
  AnswerIsKept
  RemindersAreTrue
  NotificationsHold
  DigestHolds
  MailboxesHold
  ReindexHolds
PROPERTIES
  ContractKept
