---------------------------- MODULE HealthCheck ----------------------------
(***************************************************************************)
(* The daily health check: a mail the system sends to itself goes through  *)
(* the whole inbound pipeline, and the next day's job, or an administrator *)
(* at any time, looks for what it left behind.                             *)
(*                                                                         *)
(* A mail is named by the day it was sent on.  A thread is named by the    *)
(* mail that created it.                                                   *)
(***************************************************************************)
EXTENDS Naturals, FiniteSets

CONSTANTS
  Days,          \* the last day
  Retention,     \* of a thread of the SYSTEM account, in days
  Lookback,      \* MAX_LOOKBACK_DAYS
  MaxFaults

VARIABLES
  today,
  mail,          \* "unsent", "sent", "threaded", "saved", "done" or "lost"
  threadOf,      \* the thread a mail was put in
  row,           \* thread rows: [alive, last], last the day of lastSignalAt
  created,       \* the day a mail's signal was created on, 0 for none
  vectors,       \* <<mail, thread>> in the search index
  dns, delegation, ses,   \* what the checks of the platform find
  faults

vars == <<today, mail, threadOf, row, created, vectors, dns, delegation, ses, faults>>

Mails == 1 .. Days
NoRow == [alive |-> FALSE, last |-> 0]

Init ==
  /\ today = 1
  /\ mail = [m \in Mails |-> "unsent"] /\ threadOf = [m \in Mails |-> 0]
  /\ row = [t \in Mails |-> NoRow] /\ created = [m \in Mails |-> 0]
  /\ vectors = {} /\ dns = TRUE /\ delegation = TRUE /\ ses = TRUE
  /\ faults = 0

Fault == faults < MaxFaults /\ faults' = faults + 1
platform == <<dns, delegation, ses>>

-----------------------------------------------------------------------------
(* The mail and the pipeline. *)

\* The job validates yesterday's mail and then sends today's; a failure to send is logged.
RunJob ==
  /\ mail[today] = "unsent"
  /\ \/ mail' = [mail EXCEPT ![today] = "sent"] /\ UNCHANGED faults
     \/ mail' = [mail EXCEPT ![today] = "lost"] /\ Fault
  /\ UNCHANGED <<today, threadOf, row, created, vectors, platform>>

\* The mail starts a thread or joins one; its recency is the receipt of this mail.
Thread(m) ==
  /\ mail[m] = "sent"
  /\ \E t \in {m} \union {u \in Mails : row[u].alive} :
       /\ threadOf' = [threadOf EXCEPT ![m] = t]
       /\ row' = [row EXCEPT ![t] = [alive |-> TRUE, last |-> m]]
  /\ mail' = [mail EXCEPT ![m] = "threaded"]
  /\ UNCHANGED <<today, created, vectors, platform, faults>>

Save(m) ==
  /\ mail[m] = "threaded"
  /\ created' = [created EXCEPT ![m] = today]
  /\ mail' = [mail EXCEPT ![m] = "saved"]
  /\ UNCHANGED <<today, threadOf, row, vectors, platform, faults>>

Index(m) ==
  /\ mail[m] = "saved"
  /\ vectors' = vectors \union {<<m, threadOf[m]>>}
  /\ mail' = [mail EXCEPT ![m] = "done"]
  /\ UNCHANGED <<today, threadOf, row, created, platform, faults>>

\* Every attempt at a step fails, and the message ends with the dead letters.
Lose(m) ==
  /\ mail[m] \in {"sent", "threaded", "saved"}
  /\ Fault
  /\ mail' = [mail EXCEPT ![m] = "lost"]
  /\ UNCHANGED <<today, threadOf, row, created, vectors, platform>>

\* A thread has the ttl it was created with, whatever joined it since.
ExpireThread(t) ==
  /\ row[t].alive /\ today >= t + Retention
  /\ row' = [row EXCEPT ![t] = NoRow]
  /\ UNCHANGED <<today, mail, threadOf, created, vectors, platform, faults>>

NextDay ==
  /\ today < Days /\ mail[today] # "unsent"
  /\ today' = today + 1
  /\ UNCHANGED <<mail, threadOf, row, created, vectors, platform, faults>>

\* The records, the delegation or the SES identity of the platform's domain break.
CheckPlatformDns == dns /\ dns' = FALSE /\ UNCHANGED <<delegation, ses>>
CheckDelegation == delegation /\ delegation' = FALSE /\ UNCHANGED <<dns, ses>>
CheckSesIdentity == ses /\ ses' = FALSE /\ UNCHANGED <<dns, delegation>>

PlatformBreaks ==
  /\ Fault
  /\ CheckPlatformDns \/ CheckDelegation \/ CheckSesIdentity
  /\ UNCHANGED <<today, mail, threadOf, row, created, vectors>>

Next ==
  \/ RunJob \/ NextDay \/ PlatformBreaks
  \/ \E m \in Mails : Thread(m) \/ Save(m) \/ Index(m) \/ Lose(m) \/ ExpireThread(m)

Spec == Init /\ [][Next]_vars

-----------------------------------------------------------------------------
(* The validation, a function of what is stored. *)

AllInfraPassed == dns /\ delegation /\ ses

ListActiveThreadsSince(day) == {t \in Mails : row[t].alive /\ row[t].last >= day}

HasEmbedding(t) == \E v \in vectors : v[2] = t

SignalsOn(day, t) == {m \in Mails : threadOf[m] = t /\ created[m] = day}

BySignals(day, ts) == {t \in ts : SignalsOn(day, t) # {}}

\* Threads by their recency, or by their creation where none is that recent.
ByRecency(day, ts) ==
  LET active == {t \in ts : row[t].last = day} IN IF active # {} THEN active ELSE ts \intersect {day}

\* Every thread of the account has the workflow of a health check, so the first one found
\* stands for the day: which one, the order of the list tells.
ValidateDay(day, ts, signals) ==
  LET found == IF signals /\ BySignals(day, ts) # {} THEN BySignals(day, ts) ELSE ByRecency(day, ts)
      newest == {t \in found : \A u \in found : row[u].last <= row[t].last}
  IN IF found = {} THEN {"fail"} ELSE {IF HasEmbedding(t) THEN "pass" ELSE "fail" : t \in newest}

DaysBefore(day, n) == IF day > n THEN day - n ELSE 0

\* The job's window starts the day before.
Since(day) == DaysBefore(day, 1)

Validate(day) ==
  {IF v = "pass" /\ AllInfraPassed THEN "pass" ELSE "fail" :
     v \in ValidateDay(day, ListActiveThreadsSince(Since(day)), FALSE)}

\* Day by day back from today, until one passes; only today's or yesterday's counts.
ValidateLatest ==
  LET ts == ListActiveThreadsSince(DaysBefore(today, Lookback)) IN
  IF AllInfraPassed
     /\ \E d \in {today, DaysBefore(today, 1)} : d > 0 /\ ValidateDay(d, ts, TRUE) = {"pass"}
  THEN "pass" ELSE "fail"

-----------------------------------------------------------------------------
TypeOK ==
  /\ mail \in [Mails -> {"unsent", "sent", "threaded", "saved", "done", "lost"}]
  /\ threadOf \in [Mails -> 0 .. Days] /\ created \in [Mails -> 0 .. Days]
  /\ vectors \subseteq Mails \X Mails

\* The mail went through the pipeline and its thread is there.
Processed(m) == mail[m] = "done" /\ row[threadOf[m]].alive

\* When the job runs it raises no alarm about a mail that was processed, unless the platform's
\* own records are broken or another mail moved the recency of the thread since.
JobAlarmsAreReal ==
  \A m \in Mails :
    today = m + 1 /\ mail[today] = "unsent" /\ Processed(m) /\ AllInfraPassed
      /\ row[threadOf[m]].last = m
    => Validate(m) = {"pass"}

OnlyThreadOf(day, t) == \A n \in Mails : created[n] = day => threadOf[n] = t

\* The administrator's view raises none either, whatever joined the thread since, as long as
\* the thread's recency is within the window and no other thread has a mail of that day.
LatestAlarmsAreReal ==
  \A m \in Mails :
    Processed(m) /\ created[m] \in {today, DaysBefore(today, 1)} /\ AllInfraPassed
      /\ row[threadOf[m]].last >= DaysBefore(today, Lookback)
      /\ OnlyThreadOf(created[m], threadOf[m])
    => ValidateLatest = "pass"
=============================================================================
